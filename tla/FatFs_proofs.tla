---------------------------- MODULE FatFs_proofs ----------------------------
(***************************************************************************)
(* What TLAPS proves of FatFs, for volumes of any size, any number of FAT  *)
(* copies, any files, and any power cuts and sector errors.                *)
(*                                                                         *)
(* The first half is about a FAT copy ft and sectors dk as plain values:   *)
(* what a chain is, what can be reached, and what becomes of both when an  *)
(* entry is added or removed.  The second half is about the driver.        *)
(***************************************************************************)
EXTENDS FatFs, WellFoundedInduction, FiniteSetTheorems, TLAPS

(* The order of the naturals, as a well-founded relation.                  *)
LEMMA LessFact == \E R : IsWellFoundedOn(R, Nat) /\ \A x, y \in Nat : x < y => <<x, y>> \in R
<1>1. \A x, y \in Nat : x < y => <<x, y>> \in OpToRel(<, Nat)
  BY Zenon DEF OpToRel
<1>2. IsWellFoundedOn(OpToRel(<, Nat), Nat)
  BY Zenon, NatLessThanWellFounded
<1> QED BY Zenon, <1>1, <1>2

LEMMA FirstFact ==
  ASSUME NEW R, IsWellFoundedOn(R, Nat), NEW T, T \subseteq Nat, T # {}
  PROVE  \E x \in T : \A y \in T : ~(<<y, x>> \in R)
BY Zenon, WFMin

(* A set of naturals has a least element, and Min is it.                   *)
LEMMA MinFact ==
  ASSUME NEW S, S \subseteq Nat, S # {}
  PROVE  Min(S) \in S /\ \A x \in S : Min(S) <= x
<1>1. PICK R : IsWellFoundedOn(R, Nat) /\ \A x, y \in Nat : x < y => <<x, y>> \in R
  BY LessFact
<1>2. PICK x \in S : \A y \in S : ~(<<y, x>> \in R)
  BY Zenon, <1>1, FirstFact
<1>3. ASSUME NEW y \in S PROVE x <= y
  <2>1. ~(y < x)
    BY <1>1, <1>2
  <2>2. x \in Nat /\ y \in Nat
    OBVIOUS
  <2> QED BY <2>1, <2>2
<1> QED BY <1>3 DEF Min

(* What holds of 1, and of k + 1 whenever of k, holds up to any n.         *)
LEMMA CountUp ==
  ASSUME NEW n \in Nat, NEW T, n >= 1 => 1 \in T,
         \A k \in 1..(n - 1) : k \in T => k + 1 \in T
  PROVE  \A k \in 1..n : k \in T
<1> DEFINE B == {k \in 1..n : k \notin T}
<1> SUFFICES ASSUME B # {} PROVE FALSE
  OBVIOUS
<1>1. PICK m : m \in B /\ \A x \in B : m <= x
  <2>1. B \subseteq Nat
    OBVIOUS
  <2> QED BY <2>1, MinFact
<1>2. m \in Nat /\ 1 <= m /\ m <= n /\ m \notin T
  BY <1>1
<1>3. m # 1
  BY <1>2
<1>4. m - 1 \in 1..(n - 1) /\ m - 1 \in 1..n /\ (m - 1) + 1 = m /\ ~(m <= m - 1)
  BY <1>2, <1>3
<1>5. m - 1 \in T
  BY <1>1, <1>4
<1> QED BY <1>2, <1>4, <1>5

Tables == [Clusters -> {FREE, EOC} \cup Clusters]
Disks == [{Root} \cup Clusters -> Payloads \cup DirSectors]

LEMMA Volume ==
  /\ NClusters \in Nat \ {0} /\ NumFats \in Nat \ {0} /\ NSlots \in Nat \ {0} /\ MaxLen \in Nat
  /\ Clusters \subseteq Nat /\ Slots \subseteq Nat /\ Copies \subseteq Nat /\ 1 \in Copies
  /\ FREE \notin Clusters /\ EOC \notin Clusters /\ Root \notin Clusters /\ FREE # EOC
  /\ FREE = 0 /\ Root = 0 /\ EOC \in Nat /\ 0 \notin Slots /\ 0 \notin Copies
  /\ Payloads # {} /\ \A x \in Payloads : x \notin DirSectors
  /\ Written \subseteq Contents
  /\ Fat32 \in BOOLEAN /\ ReadErrors \in BOOLEAN /\ WriteErrors \in BOOLEAN
BY VolumeAssumption
DEF VolumeAssumption, Clusters, Slots, Copies, FREE, EOC, Root, Contents
-----------------------------------------------------------------------------
(* Chains. *)

StepOf(ft, c) == IF c \in Clusters THEN ft[c] ELSE EOC
IsChain(ft, first, n, ch) ==
  ch = [k \in 1..n |-> IF k = 1 THEN first ELSE StepOf(ft, ch[k - 1])]
ChainOf(ft, first) == CHOOSE ch : IsChain(ft, first, NClusters, ch)

(* A recursive function on numbers exists: no least length is without one. *)
LEMMA ChainExists ==
  ASSUME NEW ft, NEW first, NEW n \in Nat
  PROVE  \E ch : IsChain(ft, first, n, ch)
<1> DEFINE Good == {m \in Nat : \E ch : IsChain(ft, first, m, ch)}
<1>1. 0 \in Good
  <2>1. IsChain(ft, first, 0, <<>>)
    BY DEF IsChain
  <2> QED BY <2>1
<1>2. ASSUME NEW m \in Nat, m \in Good PROVE m + 1 \in Good
  <2>1. PICK g : IsChain(ft, first, m, g)
    BY <1>2
  <2>2. PICK h : h = [k \in 1..(m + 1) |-> IF k \in 1..m THEN g[k]
                                           ELSE IF k = 1 THEN first ELSE StepOf(ft, g[k - 1])]
    OBVIOUS
  <2>3. \A k \in 1..(m + 1) : h[k] = IF k = 1 THEN first ELSE StepOf(ft, h[k - 1])
    <3> SUFFICES ASSUME NEW k \in 1..(m + 1)
                 PROVE  h[k] = IF k = 1 THEN first ELSE StepOf(ft, h[k - 1])
      OBVIOUS
    <3>1. k # 1 => k - 1 \in 1..m /\ k - 1 \in 1..(m + 1)
      OBVIOUS
    <3> QED BY <2>1, <2>2, <3>1 DEF IsChain
  <2>4. h = [k \in 1..(m + 1) |-> IF k = 1 THEN first ELSE StepOf(ft, h[k - 1])]
    BY <2>2, <2>3
  <2>5. IsChain(ft, first, m + 1, h)
    BY <2>4 DEF IsChain
  <2> QED BY <2>5
<1> HIDE DEF Good
<1>3. CASE n = 0
  BY <1>1, <1>3 DEF Good
<1>4. CASE n # 0
  <2>1. n >= 1 /\ 1 = 0 + 1
    BY <1>4
  <2>2. 1 \in Good
    BY <1>1, <1>2, <2>1
  <2>3. \A k \in 1..(n - 1) : k \in Good => k + 1 \in Good
    BY <1>2
  <2>4. n \in Good
    BY <2>1, <2>2, <2>3, CountUp
  <2> QED BY <2>4 DEF Good
<1> QED BY <1>3, <1>4

LEMMA ChainStep ==
  ASSUME NEW ft, NEW first
  PROVE  /\ ChainOf(ft, first)[1] = first
         /\ \A k \in 1..(NClusters - 1) :
              ChainOf(ft, first)[k + 1] = StepOf(ft, ChainOf(ft, first)[k])
<1>1. PICK ch : ch = ChainOf(ft, first)
  OBVIOUS
<1>2. IsChain(ft, first, NClusters, ch)
  BY <1>1, ChainExists, Volume DEF ChainOf
<1>3. 1 \in 1..NClusters
  BY Volume
<1>4. ASSUME NEW k \in 1..(NClusters - 1)
      PROVE  k + 1 \in 1..NClusters /\ k + 1 # 1 /\ (k + 1) - 1 = k
  BY Volume
<1>5. \A k \in 1..NClusters : ch[k] = IF k = 1 THEN first ELSE StepOf(ft, ch[k - 1])
  BY <1>2 DEF IsChain
<1>6. \A k \in 1..(NClusters - 1) : ch[k + 1] = StepOf(ft, ch[k])
  BY <1>4, <1>5
<1> QED BY <1>1, <1>3, <1>5, <1>6

(* The model's chain is this one. *)
LEMMA ChainIs == \A first : Chain(first) = ChainOf(fat[1], first)
BY DEF Chain, ChainOf, IsChain, StepOf

(* Two tables that agree on a chain up to its n-th cluster.                *)
LEMMA ChainPrefix ==
  ASSUME NEW ft, NEW gt, NEW first, NEW n \in 1..NClusters,
         \A k \in 1..(n - 1) : StepOf(gt, ChainOf(ft, first)[k]) = StepOf(ft, ChainOf(ft, first)[k])
  PROVE  \A k \in 1..n : ChainOf(gt, first)[k] = ChainOf(ft, first)[k]
<1> DEFINE T == {k \in 1..n : ChainOf(gt, first)[k] = ChainOf(ft, first)[k]}
<1>1. n \in Nat /\ 1 \in 1..n /\ \A k \in 1..(n - 1) : k \in 1..(NClusters - 1) /\ k + 1 \in 1..n
  BY Volume
<1>2. 1 \in T
  BY <1>1, ChainStep
<1>3. ASSUME NEW k \in 1..(n - 1), k \in T PROVE k + 1 \in T
  BY <1>1, <1>3, ChainStep
<1> HIDE DEF T
<1>4. \A k \in 1..n : k \in T
  BY <1>1, <1>2, <1>3, CountUp
<1> QED BY <1>4 DEF T

(* The chain from the n-th cluster of a chain is the rest of it.           *)
LEMMA ChainShift ==
  ASSUME NEW ft, NEW first, NEW n \in 1..NClusters
  PROVE  \A k \in 1..(NClusters + 1 - n) :
           ChainOf(ft, ChainOf(ft, first)[n])[k] = ChainOf(ft, first)[n + k - 1]
<1> PICK m : m = NClusters + 1 - n
  OBVIOUS
<1> DEFINE ch == ChainOf(ft, first)
           T == {k \in 1..m : ChainOf(ft, ch[n])[k] = ch[n + k - 1]}
<1>0. m \in Nat /\ 1 \in 1..m /\ m >= 1 /\ n + 1 - 1 = n
  BY Volume
<1>1. 1 \in T
  BY <1>0, ChainStep
<1>2. ASSUME NEW k \in 1..(m - 1), k \in T PROVE k + 1 \in T
  <2>1. /\ k \in 1..(NClusters - 1) /\ k + 1 \in 1..m
        /\ n + k - 1 \in 1..(NClusters - 1) /\ (n + k - 1) + 1 = n + (k + 1) - 1
    BY <1>2, Volume
  <2>2. ChainOf(ft, ch[n])[k + 1] = StepOf(ft, ChainOf(ft, ch[n])[k])
    BY <2>1, ChainStep
  <2>3. ch[n + (k + 1) - 1] = StepOf(ft, ch[n + k - 1])
    BY <2>1, ChainStep
  <2> QED BY <1>2, <2>1, <2>2, <2>3
<1> HIDE DEF T
<1>3. \A k \in 1..m : k \in T
  BY <1>0, <1>1, <1>2, CountUp
<1> QED BY <1>3 DEF T

(* A chain stays in a set that is closed under the FAT's links.            *)
LEMMA ChainIn ==
  ASSUME NEW ft, NEW first, NEW X, first \in X \/ first \notin Clusters,
         \A c \in X \cap Clusters : ft[c] \in Clusters => ft[c] \in X
  PROVE  \A k \in 1..NClusters : ChainOf(ft, first)[k] \in Clusters => ChainOf(ft, first)[k] \in X
<1> DEFINE ch == ChainOf(ft, first)
           T == {k \in 1..NClusters : ch[k] \in Clusters => ch[k] \in X}
<1>1. 1 \in T /\ NClusters \in Nat
  BY ChainStep, Volume
<1>2. ASSUME NEW k \in 1..(NClusters - 1), k \in T PROVE k + 1 \in T
  <2>1. ch[k + 1] = StepOf(ft, ch[k]) /\ k + 1 \in 1..NClusters
    BY ChainStep, Volume
  <2> QED BY <1>2, <2>1, Volume DEF StepOf
<1> HIDE DEF T
<1>3. \A k \in 1..NClusters : k \in T
  BY <1>1, <1>2, CountUp
<1> QED BY <1>3 DEF T

(* Every cluster of a chain before one that is on the volume is too.       *)
LEMMA ChainBefore ==
  ASSUME NEW ft, NEW first, NEW n \in 1..NClusters, ChainOf(ft, first)[n] \in Clusters
  PROVE  \A k \in 1..n : ChainOf(ft, first)[k] \in Clusters
<1> DEFINE ch == ChainOf(ft, first)
           T == {k \in 1..n : ch[n + 1 - k] \in Clusters}
<1>0. n \in Nat /\ n >= 1 /\ n + 1 - 1 = n /\ 1 \in 1..n
  BY Volume
<1>1. 1 \in T
  BY <1>0
<1>2. ASSUME NEW k \in 1..(n - 1), k \in T PROVE k + 1 \in T
  <2>1. n - k \in 1..(NClusters - 1) /\ k + 1 \in 1..n /\ n + 1 - (k + 1) = n - k /\ (n - k) + 1 = n + 1 - k
    BY <1>0, Volume
  <2>2. ch[(n - k) + 1] = StepOf(ft, ch[n - k])
    BY <2>1, ChainStep
  <2> QED BY <1>2, <2>1, <2>2, Volume DEF StepOf
<1> HIDE DEF T
<1>3. \A k \in 1..n : k \in T
  BY <1>0, <1>1, <1>2, CountUp
<1>4. ASSUME NEW k \in 1..n PROVE n + 1 - k \in 1..n /\ n + 1 - (n + 1 - k) = k
  BY <1>0
<1> QED BY <1>3, <1>4 DEF T
-----------------------------------------------------------------------------
(* What can be reached.                                                    *)

FirstsIn(dk, d, kinds) ==
  {dk[d][s].first : s \in {t \in Slots : dk[d][t].kind \in kinds}} \cap Clusters
DirsClosed(dk, D) == Root \in D /\ \A d \in D : dk[d] \notin Payloads => FirstsIn(dk, d, {"dir"}) \subseteq D
DirsOf(dk) ==
  {d \in Clusters \cup {Root} : \A D \in SUBSET (Clusters \cup {Root}) : DirsClosed(dk, D) => d \in D}
NamedIn(dk) == UNION {FirstsIn(dk, d, {"file", "dir"}) : d \in {e \in DirsOf(dk) : dk[e] \notin Payloads}}
LiveClosed(ft, dk, X) == NamedIn(dk) \subseteq X /\ {ft[c] : c \in X} \cap Clusters \subseteq X
LiveOf(ft, dk) == {c \in Clusters : \A X \in SUBSET Clusters : LiveClosed(ft, dk, X) => c \in X}

(* An entry that a caller can come to.                                     *)
At(dk, d, s) == d \in DirsOf(dk) /\ dk[d] \notin Payloads /\ s \in Slots /\ dk[d][s].kind \in {"file", "dir"}

LEMMA ReachIs == LiveDirs = DirsOf(disk) /\ Live = LiveOf(fat[1], disk)
<1>1. LiveDirs = DirsOf(disk)
  BY DEF LiveDirs, DirsOf, DirsClosed, IsFolder, Firsts, FirstsIn
<1> QED BY <1>1 DEF Live, LiveOf, LiveClosed, NamedIn, IsFolder, Firsts, FirstsIn, FatLinks

LEMMA DirsUp ==
  ASSUME NEW dk
  PROVE  /\ Root \in DirsOf(dk) /\ DirsOf(dk) \subseteq Clusters \cup {Root}
         /\ \A d \in DirsOf(dk), s \in Slots :
              dk[d] \notin Payloads /\ dk[d][s].kind = "dir" /\ dk[d][s].first \in Clusters
                => dk[d][s].first \in DirsOf(dk)
<1>1. Root \in DirsOf(dk) /\ DirsOf(dk) \subseteq Clusters \cup {Root}
  BY DEF DirsOf, DirsClosed
<1>2. ASSUME NEW d \in DirsOf(dk), NEW s \in Slots,
             dk[d] \notin Payloads, dk[d][s].kind = "dir", dk[d][s].first \in Clusters
      PROVE  dk[d][s].first \in DirsOf(dk)
  <2>1. dk[d][s].first \in FirstsIn(dk, d, {"dir"})
    BY <1>2 DEF FirstsIn
  <2> QED BY <1>2, <2>1 DEF DirsOf, DirsClosed
<1> QED BY <1>1, <1>2

LEMMA DirsDown ==
  ASSUME NEW dk, NEW X, Root \in X,
         \A d \in DirsOf(dk) \cap X, s \in Slots :
           dk[d] \notin Payloads /\ dk[d][s].kind = "dir" /\ dk[d][s].first \in Clusters
             => dk[d][s].first \in X
  PROVE  DirsOf(dk) \subseteq X
<1> DEFINE D == DirsOf(dk) \cap X
<1>1. DirsClosed(dk, D)
  <2>1. ASSUME NEW d \in D, dk[d] \notin Payloads, NEW f \in FirstsIn(dk, d, {"dir"}) PROVE f \in D
    BY <2>1, DirsUp DEF FirstsIn
  <2> QED BY <2>1, DirsUp DEF DirsClosed
<1>2. D \in SUBSET (Clusters \cup {Root})
  BY DirsUp
<1> HIDE DEF D
<1>3. DirsOf(dk) \subseteq D
  BY <1>1, <1>2 DEF DirsOf
<1> QED BY <1>3 DEF D

LEMMA LiveUp ==
  ASSUME NEW ft, NEW dk
  PROVE  /\ LiveOf(ft, dk) \subseteq Clusters
         /\ \A d, s : At(dk, d, s) /\ dk[d][s].first \in Clusters => dk[d][s].first \in LiveOf(ft, dk)
         /\ \A c \in LiveOf(ft, dk) : ft[c] \in Clusters => ft[c] \in LiveOf(ft, dk)
<1>1. ASSUME NEW d, NEW s, At(dk, d, s), dk[d][s].first \in Clusters
      PROVE  dk[d][s].first \in LiveOf(ft, dk)
  <2>1. dk[d][s].first \in FirstsIn(dk, d, {"file", "dir"})
    BY <1>1 DEF FirstsIn, At
  <2>2. dk[d][s].first \in NamedIn(dk)
    BY <1>1, <2>1 DEF NamedIn, At
  <2> QED BY <1>1, <2>2 DEF LiveOf, LiveClosed
<1>2. ASSUME NEW c \in LiveOf(ft, dk), ft[c] \in Clusters PROVE ft[c] \in LiveOf(ft, dk)
  BY <1>2 DEF LiveOf, LiveClosed
<1> QED BY <1>1, <1>2 DEF LiveOf

LEMMA LiveDown ==
  ASSUME NEW ft, NEW dk, NEW X,
         \A d, s : At(dk, d, s) /\ dk[d][s].first \in Clusters => dk[d][s].first \in X,
         \A c \in LiveOf(ft, dk) \cap X : ft[c] \in Clusters => ft[c] \in X
  PROVE  LiveOf(ft, dk) \subseteq X
<1> DEFINE L == LiveOf(ft, dk) \cap X
<1>1. NamedIn(dk) \subseteq L
  <2> SUFFICES ASSUME NEW f \in NamedIn(dk) PROVE f \in L
    OBVIOUS
  <2>1. PICK d \in DirsOf(dk) : dk[d] \notin Payloads /\ f \in FirstsIn(dk, d, {"file", "dir"})
    BY DEF NamedIn
  <2>2. PICK s \in Slots : dk[d][s].kind \in {"file", "dir"} /\ f = dk[d][s].first /\ f \in Clusters
    BY <2>1 DEF FirstsIn
  <2>3. At(dk, d, s)
    BY <2>1, <2>2 DEF At
  <2> QED BY <2>2, <2>3, LiveUp
<1>2. {ft[c] : c \in L} \cap Clusters \subseteq L
  BY LiveUp
<1>3. L \in SUBSET Clusters
  BY LiveUp
<1>4. LiveClosed(ft, dk, L)
  BY <1>1, <1>2 DEF LiveClosed
<1> HIDE DEF L
<1>5. LiveOf(ft, dk) \subseteq L
  BY <1>3, <1>4 DEF LiveOf
<1> QED BY <1>5 DEF L

LEMMA DirsLive ==
  ASSUME NEW ft, NEW dk PROVE DirsOf(dk) \subseteq LiveOf(ft, dk) \cup {Root}
<1>1. ASSUME NEW d \in DirsOf(dk), NEW s \in Slots, dk[d] \notin Payloads, dk[d][s].kind = "dir",
             dk[d][s].first \in Clusters
      PROVE  dk[d][s].first \in LiveOf(ft, dk)
  BY <1>1, LiveUp DEF At
<1> QED BY <1>1, DirsDown
-----------------------------------------------------------------------------
(* A sound volume.                                                         *)

Length(e) == IF e.kind = "dir" THEN 1 ELSE e.size
Run(ft, first, n) ==
  /\ n \in 1..NClusters
  /\ \A k \in 1..n : ChainOf(ft, first)[k] \in Clusters
  /\ ft[ChainOf(ft, first)[n]] = EOC
Cells(ft, e) == {ChainOf(ft, e.first)[k] : k \in 1..Length(e)}
Whole(ft, dk, e) ==
  /\ IF Length(e) = 0 THEN e.first = 0 ELSE Run(ft, e.first, Length(e))
  /\ e.kind = "file" => \A k \in 1..e.size : dk[ChainOf(ft, e.first)[k]] \in Payloads
OneOwner(ft, dk) ==
  /\ \A d, s, e, t : At(dk, d, s) /\ At(dk, e, t) /\ dk[d][s].first \in Clusters
                       /\ dk[d][s].first = dk[e][t].first => d = e /\ s = t
  /\ \A b, c \in LiveOf(ft, dk) : ft[b] \in Clusters /\ ft[b] = ft[c] => b = c
  /\ \A d, s : \A c \in LiveOf(ft, dk) : At(dk, d, s) /\ dk[d][s].first \in Clusters => ft[c] # dk[d][s].first
Sound(ft, dk) ==
  /\ ft \in Tables /\ dk \in Disks
  /\ \A d \in DirsOf(dk) : dk[d] \notin Payloads
  /\ \A c \in LiveOf(ft, dk) : ft[c] # FREE
  /\ OneOwner(ft, dk)
  /\ \A d, s : At(dk, d, s) => Whole(ft, dk, dk[d][s])

LEMMA RunStep ==
  ASSUME NEW ft, NEW first, NEW n, Run(ft, first, n)
  PROVE  /\ ChainOf(ft, first)[1] = first /\ first \in Clusters
         /\ \A k \in 1..(n - 1) : ft[ChainOf(ft, first)[k]] = ChainOf(ft, first)[k + 1]
<1>1. ASSUME NEW k \in 1..(n - 1) PROVE k \in 1..(NClusters - 1) /\ k \in 1..n
  BY Volume DEF Run
<1>2. 1 \in 1..n
  BY Volume DEF Run
<1> QED BY <1>1, <1>2, ChainStep DEF Run, StepOf

(* It never comes back to where it was.                                    *)
LEMMA RunInjective ==
  ASSUME NEW ft, NEW first, NEW n, Run(ft, first, n), ft \in Tables
  PROVE  \A i, j \in 1..n : ChainOf(ft, first)[i] = ChainOf(ft, first)[j] => i = j
<1> DEFINE ch == ChainOf(ft, first)
<1>0. n \in 1..NClusters /\ n \in Nat /\ NClusters \in Nat
  BY Volume DEF Run
<1>1. ASSUME NEW i \in 1..n, NEW j \in 1..n, ch[i] = ch[j], i < j PROVE FALSE
  <2>1. PICK k : k = n - j + 1
    OBVIOUS
  <2>2. /\ k \in 1..(NClusters + 1 - j) /\ k \in 1..(NClusters + 1 - i) /\ i + k - 1 \in 1..(n - 1)
        /\ j + k - 1 = n /\ i \in 1..NClusters /\ j \in 1..NClusters /\ (i + k - 1) + 1 \in 1..n
    BY <1>0, <1>1, <2>1
  <2>3. ChainOf(ft, ch[i])[k] = ch[i + k - 1] /\ ChainOf(ft, ch[j])[k] = ch[j + k - 1]
    BY <2>2, ChainShift
  <2>4. ch[i + k - 1] = ch[n]
    BY <1>1, <2>2, <2>3
  <2>5. ft[ch[i + k - 1]] = ch[(i + k - 1) + 1]
    BY <2>2, RunStep
  <2> QED BY <2>2, <2>4, <2>5, Volume DEF Run
<1>2. \A i, j \in 1..n : i = j \/ i < j \/ j < i
  BY <1>0
<1> QED BY <1>1, <1>2

LEMMA LengthFact ==
  ASSUME NEW dk \in Disks, NEW d, NEW s, At(dk, d, s)
  PROVE  /\ dk[d] \in DirSectors /\ dk[d][s].kind \in {"file", "dir"} /\ dk[d][s].first \in Clusters \cup {0}
         /\ dk[d][s].size \in 0..MaxLen /\ dk[d][s].size \in Nat /\ Length(dk[d][s]) \in Nat
         /\ d \in Clusters \cup {Root} /\ s \in Slots
<1>1. dk[d] \in DirSectors /\ d \in Clusters \cup {Root} /\ s \in Slots
  BY DirsUp DEF At, Disks
<1>2. dk[d][s] \in [kind: {"none", "file", "dir"}, name: Names \cup {""},
                    first: Clusters \cup {0}, size: 0..MaxLen]
  BY <1>1 DEF DirSectors
<1>3. PICK e : e = dk[d][s]
  OBVIOUS
<1>4. e.kind \in {"file", "dir"} /\ e.first \in Clusters \cup {0} /\ e.size \in 0..MaxLen
  BY <1>2, <1>3 DEF At
<1>5. e.size \in Nat
  BY <1>4, Volume
<1>6. Length(e) \in Nat
  BY <1>5 DEF Length
<1> QED BY <1>1, <1>3, <1>4, <1>5, <1>6

LEMMA CellsLive ==
  ASSUME NEW ft, NEW dk, Sound(ft, dk), NEW d, NEW s, At(dk, d, s)
  PROVE  Cells(ft, dk[d][s]) \subseteq LiveOf(ft, dk)
<1> DEFINE e == dk[d][s]
<1>1. Whole(ft, dk, e) /\ Length(e) \in Nat
  BY LengthFact DEF Sound
<1>2. CASE Length(e) = 0
  BY <1>2 DEF Cells
<1>3. CASE Length(e) # 0
  <2>1. Run(ft, e.first, Length(e))
    BY <1>1, <1>3 DEF Whole
  <2>2. e.first \in LiveOf(ft, dk)
    BY <2>1, RunStep, LiveUp
  <2>3. \A k \in 1..NClusters : ChainOf(ft, e.first)[k] \in Clusters => ChainOf(ft, e.first)[k] \in LiveOf(ft, dk)
    BY <2>2, LiveUp, ChainIn
  <2>4. \A k \in 1..Length(e) : k \in 1..NClusters
    BY <2>1, Volume DEF Run
  <2> QED BY <2>1, <2>3, <2>4 DEF Cells, Run
<1> QED BY <1>2, <1>3

(* A FAT that is changed off the reachable clusters reaches the same.      *)
LEMMA FatOff ==
  ASSUME NEW ft, NEW dk, Sound(ft, dk), NEW gt \in Tables,
         \A c \in LiveOf(ft, dk) : gt[c] = ft[c]
  PROVE  /\ LiveOf(gt, dk) = LiveOf(ft, dk) /\ Sound(gt, dk)
         /\ \A d, s : At(dk, d, s) => \A k \in 1..Length(dk[d][s]) :
              ChainOf(gt, dk[d][s].first)[k] = ChainOf(ft, dk[d][s].first)[k]
<1>1. LiveOf(gt, dk) \subseteq LiveOf(ft, dk)
  BY LiveUp, LiveDown
<1>2. LiveOf(ft, dk) \subseteq LiveOf(gt, dk)
  <2>1. \A c \in LiveOf(ft, dk) \cap LiveOf(gt, dk) : ft[c] \in Clusters => ft[c] \in LiveOf(gt, dk)
    BY LiveUp
  <2> QED BY <2>1, LiveUp, LiveDown
<1>3. ASSUME NEW d, NEW s, At(dk, d, s)
      PROVE  /\ \A k \in 1..Length(dk[d][s]) :
                  ChainOf(gt, dk[d][s].first)[k] = ChainOf(ft, dk[d][s].first)[k]
             /\ Whole(gt, dk, dk[d][s])
  <2>1. PICK e : e = dk[d][s]
    OBVIOUS
  <2>2. /\ Whole(ft, dk, e) /\ Length(e) \in Nat /\ e.kind \in {"file", "dir"}
        /\ Cells(ft, e) \subseteq LiveOf(ft, dk)
    BY <1>3, <2>1, LengthFact, CellsLive DEF Sound
  <2>3. CASE Length(e) = 0
    BY <2>1, <2>2, <2>3 DEF Whole, Length
  <2>4. CASE Length(e) # 0
    <3>1. Run(ft, e.first, Length(e)) /\ Length(e) \in 1..NClusters
      BY <2>2, <2>4 DEF Whole, Run
    <3>2. \A k \in 1..Length(e) : ChainOf(ft, e.first)[k] \in LiveOf(ft, dk)
      BY <2>2 DEF Cells
    <3>3. \A k \in 1..(Length(e) - 1) :
            StepOf(gt, ChainOf(ft, e.first)[k]) = StepOf(ft, ChainOf(ft, e.first)[k])
      <4>1. \A k \in 1..(Length(e) - 1) : k \in 1..Length(e)
        BY <2>2
      <4> QED BY <3>2, <4>1 DEF StepOf
    <3>4. \A k \in 1..Length(e) : ChainOf(gt, e.first)[k] = ChainOf(ft, e.first)[k]
      BY <3>1, <3>3, ChainPrefix
    <3>5. Length(e) \in 1..Length(e)
      BY <2>2, <2>4
    <3>6. Run(gt, e.first, Length(e))
      BY <3>1, <3>2, <3>4, <3>5 DEF Run
    <3>7. e.kind = "file" => e.size = Length(e)
      BY DEF Length
    <3> QED BY <2>1, <2>2, <2>4, <3>4, <3>6, <3>7 DEF Whole
  <2> QED BY <2>3, <2>4
<1>4. LiveOf(gt, dk) = LiveOf(ft, dk)
  BY <1>1, <1>2
<1>5. OneOwner(gt, dk)
  BY <1>4 DEF OneOwner, Sound
<1> QED BY <1>3, <1>4, <1>5 DEF Sound

(* Sectors changed that are not folders that can be reached.               *)
LEMMA DiskOff ==
  ASSUME NEW ft, NEW dk, Sound(ft, dk), NEW ek \in Disks,
         \A d \in DirsOf(dk) : ek[d] = dk[d],
         \A c \in LiveOf(ft, dk) : dk[c] \in Payloads => ek[c] \in Payloads
  PROVE  /\ DirsOf(ek) = DirsOf(dk) /\ LiveOf(ft, ek) = LiveOf(ft, dk) /\ Sound(ft, ek)
         /\ \A d, s : At(ek, d, s) <=> At(dk, d, s)
         /\ \A d, s : At(dk, d, s) => ek[d][s] = dk[d][s]
<1>1. DirsOf(ek) \subseteq DirsOf(dk)
  BY DirsUp, DirsDown
<1>2. DirsOf(dk) \subseteq DirsOf(ek)
  BY SMTT(30), DirsUp, DirsDown
<1>3. DirsOf(ek) = DirsOf(dk)
  BY <1>1, <1>2
<1>4. /\ \A d, s : At(ek, d, s) <=> At(dk, d, s)
      /\ \A d, s : At(dk, d, s) => ek[d][s] = dk[d][s]
  BY <1>3 DEF At
<1>5. LiveOf(ft, ek) \subseteq LiveOf(ft, dk)
  BY <1>4, LiveUp, LiveDown
<1>6. LiveOf(ft, dk) \subseteq LiveOf(ft, ek)
  BY <1>4, LiveUp, LiveDown
<1>7. LiveOf(ft, ek) = LiveOf(ft, dk)
  BY <1>5, <1>6
<1>8. OneOwner(ft, ek)
  BY <1>4, <1>7 DEF OneOwner, Sound
<1>9. ASSUME NEW d, NEW s, At(dk, d, s) PROVE Whole(ft, ek, dk[d][s])
  <2>1. Whole(ft, dk, dk[d][s]) /\ Cells(ft, dk[d][s]) \subseteq LiveOf(ft, dk)
    BY <1>9, CellsLive DEF Sound
  <2>2. \A k \in 1..Length(dk[d][s]) : ChainOf(ft, dk[d][s].first)[k] \in LiveOf(ft, dk)
    BY <2>1 DEF Cells
  <2> QED BY <2>1, <2>2 DEF Whole, Length
<1>10. \A d \in DirsOf(ek) : ek[d] \notin Payloads
  BY <1>3 DEF Sound
<1> QED BY <1>3, <1>4, <1>7, <1>8, <1>9, <1>10 DEF Sound
-----------------------------------------------------------------------------
(* An entry comes, an entry goes.                                          *)

Entries == [kind: {"none", "file", "dir"}, name: Names \cup {""}, first: Clusters \cup {0}, size: 0..MaxLen]

LEMMA SectorIs == DirSectors = [Slots -> Entries]
BY DEF DirSectors, Entries

Put(dk, d, s, e) == [dk EXCEPT ![d][s] = e]

LEMMA PutFact ==
  ASSUME NEW dk \in Disks, NEW d \in Clusters \cup {Root}, dk[d] \notin Payloads, NEW s \in Slots,
         NEW e \in Entries, NEW ek, ek = Put(dk, d, s, e)
  PROVE  /\ ek \in Disks /\ ek[d][s] = e
         /\ \A x \in Clusters \cup {Root} : x # d => ek[x] = dk[x]
         /\ \A t \in Slots : t # s => ek[d][t] = dk[d][t]
         /\ \A x \in Clusters \cup {Root} : ek[x] \in Payloads <=> dk[x] \in Payloads
<1>1. dk[d] \in DirSectors
  BY DEF Disks
<1>2. PICK new : new = [dk[d] EXCEPT ![s] = e]
  OBVIOUS
<1>3. new \in DirSectors /\ new[s] = e /\ \A t \in Slots : t # s => new[t] = dk[d][t]
  BY <1>1, <1>2, SectorIs
<1>4. ek = [dk EXCEPT ![d] = new]
  BY <1>2 DEF Put
<1>5. ek \in Disks /\ ek[d] = new /\ \A x \in Clusters \cup {Root} : x # d => ek[x] = dk[x]
  BY <1>3, <1>4 DEF Disks
<1> QED BY <1>1, <1>3, <1>5, Volume

LEMMA NoEntryFact == NoEntry \in Entries /\ NoEntry.kind = "none" /\ NoEntry.first = 0 /\ NoEntry.size = 0
                     /\ EmptyDir \in DirSectors /\ EmptyDir \notin Payloads
                     /\ \A s \in Slots : EmptyDir[s] = NoEntry
<1>1. NoEntry \in Entries /\ NoEntry.kind = "none" /\ NoEntry.first = 0 /\ NoEntry.size = 0
  BY Volume DEF NoEntry, Entries
<1>2. EmptyDir \in DirSectors /\ \A s \in Slots : EmptyDir[s] = NoEntry
  BY <1>1, SectorIs DEF EmptyDir
<1> QED BY <1>1, <1>2, Volume

(* Folders that an entry makes reachable: a folder's own.                  *)
OwnDir(e) == IF e.kind = "dir" THEN {e.first} ELSE {}

LEMMA RemoveDirs ==
  ASSUME NEW ft, NEW dk, Sound(ft, dk), NEW d, NEW s, At(dk, d, s), NEW ek,
         dk[d][s].kind = "dir" => dk[dk[d][s].first] = EmptyDir,
         ek = Put(dk, d, s, NoEntry)
  PROVE  /\ DirsOf(ek) = DirsOf(dk) \ OwnDir(dk[d][s])
         /\ d \in DirsOf(ek) /\ ek \in Disks
         /\ \A x, t : At(ek, x, t) => At(dk, x, t) /\ ek[x][t] = dk[x][t] /\ ~(x = d /\ t = s)
         /\ \A x, t : At(dk, x, t) /\ ~(x = d /\ t = s) => At(ek, x, t) /\ ek[x][t] = dk[x][t]
<1> PICK e : e = dk[d][s]
  OBVIOUS
<1>1. /\ dk \in Disks /\ d \in Clusters \cup {Root} /\ dk[d] \notin Payloads /\ s \in Slots /\ d \in DirsOf(dk)
      /\ e.kind \in {"file", "dir"}
  BY LengthFact DEF Sound, At
<1>2. /\ ek \in Disks /\ ek[d][s] = NoEntry
      /\ \A x \in Clusters \cup {Root} : x # d => ek[x] = dk[x]
      /\ \A t \in Slots : t # s => ek[d][t] = dk[d][t]
      /\ \A x \in Clusters \cup {Root} : ek[x] \in Payloads <=> dk[x] \in Payloads
  BY <1>1, PutFact, NoEntryFact
<1>3. \A x \in Clusters \cup {Root}, t \in Slots : ~(x = d /\ t = s) => ek[x][t] = dk[x][t]
  BY <1>2
<1>4. e.kind = "dir" => e.first \in Clusters /\ e.first # d
  <2> SUFFICES ASSUME e.kind = "dir" PROVE e.first \in Clusters /\ e.first # d
    OBVIOUS
  <2>1. Whole(ft, dk, e) /\ Length(e) = 1
    BY DEF Sound, Length
  <2>2. e.first \in Clusters
    BY <2>1, RunStep DEF Whole
  <2>3. dk[d][s] # NoEntry
    BY <1>1, NoEntryFact
  <2> QED BY <1>1, <2>2, <2>3, NoEntryFact
<1>5. DirsOf(ek) \subseteq DirsOf(dk)
  <2>1. \A x \in DirsOf(ek) \cap DirsOf(dk), t \in Slots :
          ek[x] \notin Payloads /\ ek[x][t].kind = "dir" /\ ek[x][t].first \in Clusters
            => ek[x][t].first \in DirsOf(dk)
    BY <1>2, <1>3, DirsUp, NoEntryFact
  <2> QED BY <2>1, DirsUp, DirsDown
<1>6. e.kind = "dir" => e.first \notin DirsOf(ek)
  <2> SUFFICES ASSUME e.kind = "dir" PROVE e.first \notin DirsOf(ek)
    OBVIOUS
  <2>1. ASSUME NEW x \in DirsOf(ek), NEW t \in Slots, ek[x] \notin Payloads, ek[x][t].kind = "dir",
               ek[x][t].first \in Clusters
        PROVE  ek[x][t].first # e.first
    <3>1. ~(x = d /\ t = s) /\ x \in Clusters \cup {Root}
      BY <1>2, <2>1, DirsUp, NoEntryFact
    <3>2. At(dk, x, t) /\ ek[x][t] = dk[x][t]
      BY <1>2, <1>3, <1>5, <2>1, <3>1 DEF At
    <3> QED BY <2>1, <3>1, <3>2 DEF Sound, OneOwner
  <2>2. Root # e.first
    BY <1>4, Volume
  <2>3. DirsOf(ek) \subseteq DirsOf(ek) \ {e.first}
    <3> PICK X : X = DirsOf(ek) \ {e.first}
      OBVIOUS
    <3>1. Root \in X
      BY <2>2, DirsUp
    <3>2. \A x \in DirsOf(ek) \cap X, t \in Slots :
            ek[x] \notin Payloads /\ ek[x][t].kind = "dir" /\ ek[x][t].first \in Clusters
              => ek[x][t].first \in X
      BY <2>1, DirsUp
    <3>3. DirsOf(ek) \subseteq X
      BY <3>1, <3>2, DirsDown
    <3> QED BY <3>3
  <2> QED BY <2>3
<1>7. DirsOf(dk) \subseteq DirsOf(ek) \cup OwnDir(e)
  <2>1. ASSUME NEW x \in DirsOf(dk) \cap (DirsOf(ek) \cup OwnDir(e)), NEW t \in Slots,
               dk[x] \notin Payloads, dk[x][t].kind = "dir", dk[x][t].first \in Clusters
        PROVE  dk[x][t].first \in DirsOf(ek) \cup OwnDir(e)
    <3>1. CASE x = d /\ t = s
      BY <2>1, <3>1 DEF OwnDir
    <3>2. CASE ~(x = d /\ t = s) /\ x \in DirsOf(ek)
      <4>1. ek[x][t] = dk[x][t] /\ ek[x] \notin Payloads
        BY <1>2, <1>3, <2>1, <3>2, DirsUp
      <4> QED BY <2>1, <3>2, <4>1, DirsUp
    <3>3. CASE x \in OwnDir(e)
      <4>1. dk[x] = EmptyDir
        BY <3>3 DEF OwnDir
      <4> QED BY <2>1, <4>1, NoEntryFact
    <3> QED BY <2>1, <3>1, <3>2, <3>3
  <2> PICK X : X = DirsOf(ek) \cup OwnDir(e)
    OBVIOUS
  <2>2. Root \in X
    BY DirsUp
  <2>3. \A x \in DirsOf(dk) \cap X, t \in Slots :
          dk[x] \notin Payloads /\ dk[x][t].kind = "dir" /\ dk[x][t].first \in Clusters
            => dk[x][t].first \in X
    BY <2>1
  <2>4. DirsOf(dk) \subseteq X
    BY <2>2, <2>3, DirsDown
  <2> QED BY <2>4
<1>8. DirsOf(ek) = DirsOf(dk) \ OwnDir(e)
  BY <1>5, <1>6, <1>7 DEF OwnDir
<1>9. d \in DirsOf(ek)
  BY <1>1, <1>4, <1>8 DEF OwnDir
<1>10. \A x, t : At(ek, x, t) => At(dk, x, t) /\ ek[x][t] = dk[x][t] /\ ~(x = d /\ t = s)
  BY <1>2, <1>3, <1>5, DirsUp, NoEntryFact DEF At
<1>11. ASSUME NEW x, NEW t, At(dk, x, t), ~(x = d /\ t = s) PROVE At(ek, x, t) /\ ek[x][t] = dk[x][t]
  <2>1. x \notin OwnDir(e)
    BY <1>11, NoEntryFact DEF OwnDir, At
  <2> QED BY <1>2, <1>3, <1>8, <1>11, <2>1, DirsUp DEF At
<1> QED BY <1>2, <1>8, <1>9, <1>10, <1>11

(* The clusters of an entry: the first, and each one's successor till the end. *)
LEMMA CellsFact ==
  ASSUME NEW ft \in Tables, NEW dk, NEW e, Whole(ft, dk, e), Length(e) \in Nat
  PROVE  /\ Cells(ft, e) \subseteq Clusters
         /\ e.first \in Clusters => e.first \in Cells(ft, e)
         /\ \A c \in Cells(ft, e) :
              (c = e.first /\ e.first \in Clusters) \/ \E b \in Cells(ft, e) : ft[b] = c /\ c \in Clusters
         /\ \A c \in Cells(ft, e) :
              ft[c] # FREE /\ ft[c] # e.first /\ (ft[c] \in Clusters => ft[c] \in Cells(ft, e))
         /\ \A b, c \in Cells(ft, e) : ft[b] \in Clusters /\ ft[b] = ft[c] => b = c
<1> PICK n : n = Length(e)
  OBVIOUS
<1> PICK ch : ch = ChainOf(ft, e.first)
  OBVIOUS
<1> PICK C : C = {ch[k] : k \in 1..n}
  OBVIOUS
<1>0. C = Cells(ft, e) /\ n \in Nat
  BY DEF Cells
<1>1. CASE n = 0
  <2>1. C = {} /\ e.first = 0
    BY <1>1 DEF Whole
  <2> QED BY <1>0, <2>1, Volume
<1>2. CASE n # 0
  <2>1. Run(ft, e.first, n)
    BY <1>2 DEF Whole
  <2>2. /\ ch[1] = e.first /\ e.first \in Clusters /\ ft[ch[n]] = EOC /\ n \in 1..n /\ 1 \in 1..n
        /\ \A k \in 1..n : ch[k] \in Clusters
        /\ \A k \in 1..(n - 1) : ft[ch[k]] = ch[k + 1] /\ k + 1 \in 1..n /\ k \in 1..n
    BY <1>0, <1>2, <2>1, RunStep DEF Run
  <2>3. \A i, j \in 1..n : ch[i] = ch[j] => i = j
    BY <2>1, RunInjective
  <2>4. \A k \in 1..n : k = n \/ k \in 1..(n - 1)
    BY <1>0
  <2>5. ASSUME NEW k \in 1..n
        PROVE  /\ ch[k] = e.first \/ \E j \in 1..n : ft[ch[j]] = ch[k]
               /\ ft[ch[k]] # FREE /\ ft[ch[k]] # e.first
               /\ ft[ch[k]] \in Clusters => \E j \in 1..n : ft[ch[k]] = ch[j]
    <3>1. k = 1 \/ (k - 1 \in 1..(n - 1) /\ (k - 1) + 1 = k)
      BY <1>0
    <3>2. ch[k] = e.first \/ \E j \in 1..n : ft[ch[j]] = ch[k]
      BY <2>2, <3>1
    <3>3. CASE k = n
      BY <2>2, <3>2, <3>3, Volume
    <3>4. CASE k \in 1..(n - 1)
      <4>1. ft[ch[k]] = ch[k + 1] /\ k + 1 \in 1..n /\ k + 1 # 1
        BY <2>2, <3>4
      <4> QED BY <2>2, <2>3, <3>2, <4>1, Volume
    <3> QED BY <2>4, <3>3, <3>4
  <2>6. ASSUME NEW i \in 1..n, NEW j \in 1..n, ft[ch[i]] \in Clusters, ft[ch[i]] = ft[ch[j]] PROVE i = j
    <3>1. i \in 1..(n - 1) /\ j \in 1..(n - 1)
      BY <2>2, <2>4, <2>6, Volume
    <3>2. ch[i + 1] = ch[j + 1] /\ i + 1 \in 1..n /\ j + 1 \in 1..n
      BY <2>2, <2>6, <3>1
    <3>3. i + 1 = j + 1
      BY <2>3, <3>2
    <3> QED BY <3>1, <3>3
  <2>7. /\ C \subseteq Clusters /\ e.first \in C
        /\ \A c \in C : \E k \in 1..n : c = ch[k]
        /\ \A k \in 1..n : ch[k] \in C
    BY <2>2
  <2>8. \A c \in C : c = e.first \/ \E b \in C : ft[b] = c
    BY <2>5, <2>7
  <2>9. \A c \in C : ft[c] # FREE /\ ft[c] # e.first /\ (ft[c] \in Clusters => ft[c] \in C)
    BY <2>5, <2>7
  <2>10. \A b, c \in C : ft[b] \in Clusters /\ ft[b] = ft[c] => b = c
    BY <2>6, <2>7
  <2> QED BY <1>0, <2>2, <2>7, <2>8, <2>9, <2>10
<1> QED BY <1>1, <1>2

LEMMA RemoveFact ==
  ASSUME NEW ft, NEW dk, Sound(ft, dk), NEW d, NEW s, At(dk, d, s), NEW ek,
         dk[d][s].kind = "dir" => dk[dk[d][s].first] = EmptyDir,
         ek = Put(dk, d, s, NoEntry)
  PROVE  /\ Sound(ft, ek)
         /\ LiveOf(ft, ek) = LiveOf(ft, dk) \ Cells(ft, dk[d][s])
<1> PICK e : e = dk[d][s]
  OBVIOUS
<1> PICK L : L = LiveOf(ft, dk)
  OBVIOUS
<1> PICK C : C = Cells(ft, e)
  OBVIOUS
<1>1. /\ DirsOf(ek) = DirsOf(dk) \ OwnDir(e) /\ ek \in Disks
      /\ \A x, t : At(ek, x, t) => At(dk, x, t) /\ ek[x][t] = dk[x][t] /\ ~(x = d /\ t = s)
      /\ \A x, t : At(dk, x, t) /\ ~(x = d /\ t = s) => At(ek, x, t) /\ ek[x][t] = dk[x][t]
  BY RemoveDirs
<1>2. /\ Whole(ft, dk, e) /\ Length(e) \in Nat /\ C \subseteq L /\ e.first \in Clusters \cup {0}
      /\ ft \in Tables /\ dk \in Disks
  BY LengthFact, CellsLive DEF Sound
<1>3. OneOwner(ft, dk)
  BY DEF Sound
<1>4. /\ e.first \in Clusters => e.first \in C
      /\ \A c \in C : (c = e.first /\ e.first \in Clusters) \/ \E b \in C : ft[b] = c /\ c \in Clusters
      /\ \A c \in C : ft[c] \in Clusters => ft[c] \in C
  <2>1. Whole(ft, dk, e) /\ Length(e) \in Nat /\ ft \in Tables
    BY <1>2
  <2> QED BY ONLY <2>1, CellsFact, C = Cells(ft, e)
<1>5. LiveOf(ft, ek) \subseteq L
  <2>1. \A x, t : At(ek, x, t) /\ ek[x][t].first \in Clusters => ek[x][t].first \in L
    BY <1>1, LiveUp
  <2> QED BY <2>1, LiveUp, LiveDown
<1>6. LiveOf(ft, ek) \subseteq L \ C
  <2>1. ASSUME NEW x, NEW t, At(ek, x, t), ek[x][t].first \in Clusters
        PROVE  ek[x][t].first \in L \ C
    <3>1. At(dk, x, t) /\ ek[x][t] = dk[x][t] /\ ~(x = d /\ t = s)
      BY <1>1, <2>1
    <3>2. ek[x][t].first \in L
      BY <2>1, <3>1, LiveUp
    <3>3. ek[x][t].first # e.first
      BY <1>3, <2>1, <3>1 DEF OneOwner
    <3>4. \A b \in C : ft[b] # ek[x][t].first
      BY <1>2, <1>3, <2>1, <3>1 DEF OneOwner
    <3> QED BY <1>4, <3>2, <3>3, <3>4
  <2>2. ASSUME NEW c \in L \ C, ft[c] \in Clusters PROVE ft[c] \in L \ C
    <3>1. ft[c] \in L
      BY <2>2, LiveUp
    <3>2. e.first \in Clusters => ft[c] # e.first
      BY <1>3 DEF OneOwner
    <3>3. \A b \in C : ft[b] # ft[c]
      BY <1>2, <1>3, <2>2 DEF OneOwner
    <3> QED BY <1>4, <3>1, <3>2, <3>3
  <2>3. \A c \in LiveOf(ft, ek) \cap (L \ C) : ft[c] \in Clusters => ft[c] \in L \ C
    BY <2>2
  <2> QED BY <2>1, <2>3, LiveDown
<1>7. L \subseteq LiveOf(ft, ek) \cup C
  <2>1. ASSUME NEW x, NEW t, At(dk, x, t), dk[x][t].first \in Clusters
        PROVE  dk[x][t].first \in LiveOf(ft, ek) \cup C
    <3>1. CASE x = d /\ t = s
      BY <1>4, <2>1, <3>1
    <3>2. CASE ~(x = d /\ t = s)
      BY <1>1, <2>1, <3>2, LiveUp
    <3> QED BY <3>1, <3>2
  <2>3. \A c \in LiveOf(ft, dk) \cap (LiveOf(ft, ek) \cup C) : ft[c] \in Clusters => ft[c] \in LiveOf(ft, ek) \cup C
    BY <1>4, LiveUp
  <2>4. LiveOf(ft, dk) \subseteq LiveOf(ft, ek) \cup C
    BY <2>1, <2>3, LiveDown
  <2> QED BY <2>4
<1>8. LiveOf(ft, ek) = L \ C
  BY <1>6, <1>7
<1>9. OneOwner(ft, ek)
  <2>1. \A a, s1, b, t : At(ek, a, s1) /\ At(ek, b, t) /\ ek[a][s1].first \in Clusters
                         /\ ek[a][s1].first = ek[b][t].first => a = b /\ s1 = t
    BY <1>1, <1>3 DEF OneOwner
  <2>2. \A b, c \in LiveOf(ft, ek) : ft[b] \in Clusters /\ ft[b] = ft[c] => b = c
    BY <1>3, <1>5 DEF OneOwner
  <2>3. \A a, t : \A c \in LiveOf(ft, ek) : At(ek, a, t) /\ ek[a][t].first \in Clusters => ft[c] # ek[a][t].first
    BY <1>1, <1>3, <1>5 DEF OneOwner
  <2> QED BY <2>1, <2>2, <2>3 DEF OneOwner
<1>10. \A c \in Clusters \cup {Root} : ek[c] \in Payloads <=> dk[c] \in Payloads
  BY <1>2, PutFact, NoEntryFact, LengthFact DEF At
<1>11. ASSUME NEW x, NEW t, At(ek, x, t) PROVE Whole(ft, ek, ek[x][t])
  <2>1. PICK u : u = ek[x][t]
    OBVIOUS
  <2>2. At(dk, x, t) /\ u = dk[x][t]
    BY <1>1, <1>11, <2>1
  <2>3. Whole(ft, dk, u) /\ Cells(ft, u) \subseteq LiveOf(ft, dk)
    BY <2>2, CellsLive DEF Sound
  <2>4. \A k \in 1..Length(u) : ChainOf(ft, u.first)[k] \in Clusters
    BY <2>3, LiveUp DEF Cells
  <2> QED BY <1>10, <2>1, <2>3, <2>4 DEF Whole, Length
<1>12. \A x \in DirsOf(ek) : ek[x] \notin Payloads
  BY <1>1, <1>10, DirsUp DEF Sound
<1>13. \A c \in LiveOf(ft, ek) : ft[c] # FREE
  BY <1>5 DEF Sound
<1> QED BY <1>1, <1>2, <1>8, <1>9, <1>11, <1>12, <1>13 DEF Sound

LEMMA AddDirs ==
  ASSUME NEW ft, NEW dk, Sound(ft, dk), NEW d \in DirsOf(dk), NEW s \in Slots, dk[d][s].kind = "none",
         NEW e \in Entries, e.kind \in {"file", "dir"},
         e.kind = "dir" => e.first \in Clusters \ LiveOf(ft, dk) /\ dk[e.first] = EmptyDir,
         NEW ek, ek = Put(dk, d, s, e)
  PROVE  /\ DirsOf(ek) = DirsOf(dk) \cup OwnDir(e) /\ ek \in Disks
         /\ At(ek, d, s) /\ ek[d][s] = e
         /\ \A x, t : At(ek, x, t) /\ ~(x = d /\ t = s) => At(dk, x, t) /\ ek[x][t] = dk[x][t]
         /\ \A x, t : At(dk, x, t) => At(ek, x, t) /\ ek[x][t] = dk[x][t] /\ ~(x = d /\ t = s)
         /\ \A x \in Clusters \cup {Root} : ek[x] \in Payloads <=> dk[x] \in Payloads
<1>1. dk \in Disks /\ d \in Clusters \cup {Root} /\ dk[d] \notin Payloads
  BY DirsUp DEF Sound
<1>2. /\ ek \in Disks /\ ek[d][s] = e
      /\ \A x \in Clusters \cup {Root} : x # d => ek[x] = dk[x]
      /\ \A t \in Slots : t # s => ek[d][t] = dk[d][t]
      /\ \A x \in Clusters \cup {Root} : ek[x] \in Payloads <=> dk[x] \in Payloads
  BY <1>1, PutFact
<1>3. \A x \in Clusters \cup {Root}, t \in Slots : ~(x = d /\ t = s) => ek[x][t] = dk[x][t]
  BY <1>2
<1>4. e.kind = "dir" => e.first \in Clusters /\ e.first # d /\ e.first \notin DirsOf(dk)
  BY DirsLive, Volume
<1>5. DirsOf(dk) \subseteq DirsOf(ek)
  <2>1. \A x \in DirsOf(dk) \cap DirsOf(ek), t \in Slots :
          dk[x] \notin Payloads /\ dk[x][t].kind = "dir" /\ dk[x][t].first \in Clusters
            => dk[x][t].first \in DirsOf(ek)
    BY <1>2, <1>3, DirsUp
  <2> QED BY <2>1, DirsUp, DirsDown
<1>6. d \in DirsOf(ek) /\ ek[d] \notin Payloads
  BY <1>1, <1>2, <1>5
<1>7. OwnDir(e) \subseteq DirsOf(ek)
  BY <1>2, <1>4, <1>6, DirsUp DEF OwnDir
<1>8. DirsOf(ek) \subseteq DirsOf(dk) \cup OwnDir(e)
  <2>1. ASSUME NEW x \in DirsOf(ek) \cap (DirsOf(dk) \cup OwnDir(e)), NEW t \in Slots,
               ek[x] \notin Payloads, ek[x][t].kind = "dir", ek[x][t].first \in Clusters
        PROVE  ek[x][t].first \in DirsOf(dk) \cup OwnDir(e)
    <3>1. CASE x = d /\ t = s
      BY <1>2, <2>1, <3>1 DEF OwnDir
    <3>2. CASE ~(x = d /\ t = s) /\ x \in DirsOf(dk)
      <4>1. ek[x][t] = dk[x][t] /\ dk[x] \notin Payloads
        BY <1>2, <1>3, <2>1, <3>2, DirsUp
      <4> QED BY <2>1, <3>2, <4>1, DirsUp
    <3>3. CASE x \in OwnDir(e)
      <4>1. ek[x] = EmptyDir
        BY <1>2, <1>4, <3>3 DEF OwnDir
      <4> QED BY <2>1, <4>1, NoEntryFact
    <3> QED BY <2>1, <3>1, <3>2, <3>3
  <2> PICK X : X = DirsOf(dk) \cup OwnDir(e)
    OBVIOUS
  <2>2. Root \in X
    BY DirsUp
  <2>3. \A x \in DirsOf(ek) \cap X, t \in Slots :
          ek[x] \notin Payloads /\ ek[x][t].kind = "dir" /\ ek[x][t].first \in Clusters
            => ek[x][t].first \in X
    BY <2>1
  <2>4. DirsOf(ek) \subseteq X
    BY <2>2, <2>3, DirsDown
  <2> QED BY <2>4
<1>9. DirsOf(ek) = DirsOf(dk) \cup OwnDir(e)
  BY <1>5, <1>7, <1>8
<1>10. At(ek, d, s)
  BY <1>2, <1>6 DEF At
<1>11. ASSUME NEW x, NEW t, At(ek, x, t), ~(x = d /\ t = s) PROVE At(dk, x, t) /\ ek[x][t] = dk[x][t]
  <2>1. x \in Clusters \cup {Root} /\ t \in Slots
    BY <1>11, DirsUp DEF At
  <2>2. x \notin OwnDir(e)
    <3> SUFFICES ASSUME x \in OwnDir(e) PROVE FALSE
      OBVIOUS
    <3>1. ek[x] = EmptyDir
      BY <1>2, <1>4 DEF OwnDir
    <3> QED BY <1>11, <3>1, NoEntryFact DEF At
  <2> QED BY <1>2, <1>3, <1>9, <1>11, <2>1, <2>2 DEF At
<1>12. \A x, t : At(dk, x, t) => At(ek, x, t) /\ ek[x][t] = dk[x][t] /\ ~(x = d /\ t = s)
  <2> SUFFICES ASSUME NEW x, NEW t, At(dk, x, t)
               PROVE  At(ek, x, t) /\ ek[x][t] = dk[x][t] /\ ~(x = d /\ t = s)
    OBVIOUS
  <2>1. x \in Clusters \cup {Root} /\ t \in Slots /\ ~(x = d /\ t = s)
    BY DirsUp DEF At
  <2> QED BY <1>2, <1>3, <1>5, <2>1 DEF At
<1> QED BY <1>2, <1>9, <1>10, <1>11, <1>12

LEMMA AddFact ==
  ASSUME NEW ft, NEW dk, Sound(ft, dk), NEW d \in DirsOf(dk), NEW s \in Slots, dk[d][s].kind = "none",
         NEW e \in Entries, e.kind \in {"file", "dir"},
         e.kind = "dir" => e.first \in Clusters \ LiveOf(ft, dk) /\ dk[e.first] = EmptyDir,
         Whole(ft, dk, e), Cells(ft, e) \cap LiveOf(ft, dk) = {},
         NEW ek, ek = Put(dk, d, s, e)
  PROVE  Sound(ft, ek) /\ LiveOf(ft, ek) = LiveOf(ft, dk) \cup Cells(ft, e)
<1> PICK L : L = LiveOf(ft, dk)
  OBVIOUS
<1> PICK C : C = Cells(ft, e)
  OBVIOUS
<1>1. /\ DirsOf(ek) = DirsOf(dk) \cup OwnDir(e) /\ ek \in Disks
      /\ At(ek, d, s) /\ ek[d][s] = e
      /\ \A x, t : At(ek, x, t) /\ ~(x = d /\ t = s) => At(dk, x, t) /\ ek[x][t] = dk[x][t]
      /\ \A x, t : At(dk, x, t) => At(ek, x, t) /\ ek[x][t] = dk[x][t] /\ ~(x = d /\ t = s)
      /\ \A x \in Clusters \cup {Root} : ek[x] \in Payloads <=> dk[x] \in Payloads
  BY AddDirs
<1>2. ft \in Tables /\ dk \in Disks /\ Length(e) \in Nat /\ OneOwner(ft, dk)
  <2>1. e.size \in 0..MaxLen
    BY DEF Entries
  <2>2. e.size \in Nat
    BY <2>1, Volume
  <2> QED BY <2>2 DEF Sound, Length
<1>3. /\ C \subseteq Clusters
      /\ e.first \in Clusters => e.first \in C
      /\ \A c \in C : (c = e.first /\ e.first \in Clusters) \/ \E b \in C : ft[b] = c /\ c \in Clusters
      /\ \A c \in C : ft[c] # FREE /\ ft[c] # e.first /\ (ft[c] \in Clusters => ft[c] \in C)
      /\ \A b, c \in C : ft[b] \in Clusters /\ ft[b] = ft[c] => b = c
  BY <1>2, CellsFact
<1>4. C \cap L = {}
  OBVIOUS
<1>5. \A c \in L : ft[c] \in Clusters => ft[c] \in L
  BY LiveUp
<1>6. \A x, t : At(dk, x, t) /\ dk[x][t].first \in Clusters => dk[x][t].first \in L
  BY LiveUp
<1>7. LiveOf(ft, ek) \subseteq L \cup C
  <2> PICK X : X = L \cup C
    OBVIOUS
  <2>1. \A x, t : At(ek, x, t) /\ ek[x][t].first \in Clusters => ek[x][t].first \in X
    <3> SUFFICES ASSUME NEW x, NEW t, At(ek, x, t), ek[x][t].first \in Clusters PROVE ek[x][t].first \in X
      OBVIOUS
    <3>1. CASE x = d /\ t = s
      BY <1>1, <1>3, <3>1
    <3>2. CASE ~(x = d /\ t = s)
      BY <1>1, <1>6, <3>2
    <3> QED BY <3>1, <3>2
  <2>2. \A c \in LiveOf(ft, ek) \cap X : ft[c] \in Clusters => ft[c] \in X
    BY <1>3, <1>5
  <2>3. LiveOf(ft, ek) \subseteq X
    BY <2>1, <2>2, LiveDown
  <2> QED BY <2>3
<1>8. L \subseteq LiveOf(ft, ek)
  <2>1. \A x, t : At(dk, x, t) /\ dk[x][t].first \in Clusters => dk[x][t].first \in LiveOf(ft, ek)
    BY <1>1, LiveUp
  <2>2. \A c \in LiveOf(ft, dk) \cap LiveOf(ft, ek) : ft[c] \in Clusters => ft[c] \in LiveOf(ft, ek)
    BY LiveUp
  <2> QED BY <2>1, <2>2, LiveDown
<1>9. C \subseteq LiveOf(ft, ek)
  <2>1. e.first \in Clusters => e.first \in LiveOf(ft, ek)
    BY <1>1, LiveUp
  <2>2. \A c \in LiveOf(ft, ek) : ft[c] \in Clusters => ft[c] \in LiveOf(ft, ek)
    BY LiveUp
  <2>3. \A k \in 1..NClusters : ChainOf(ft, e.first)[k] \in Clusters => ChainOf(ft, e.first)[k] \in LiveOf(ft, ek)
    BY <2>1, <2>2, ChainIn
  <2>4. \A k \in 1..Length(e) : k \in 1..NClusters
    <3>1. CASE Length(e) = 0
      BY <3>1
    <3>2. CASE Length(e) # 0
      BY <1>2, <3>2, Volume DEF Whole, Run
    <3> QED BY <3>1, <3>2
  <2>5. \A k \in 1..Length(e) : ChainOf(ft, e.first)[k] \in C
    BY DEF Cells
  <2> QED BY <1>3, <2>3, <2>4, <2>5 DEF Cells
<1>10. LiveOf(ft, ek) = L \cup C
  BY <1>7, <1>8, <1>9
<1>11. OneOwner(ft, ek)
  <2>1. \A x, t : At(ek, x, t) => (x = d /\ t = s) \/ (At(dk, x, t) /\ ek[x][t] = dk[x][t])
    BY <1>1
  <2>2. \A x, t, y, u : At(ek, x, t) /\ At(ek, y, u) /\ ek[x][t].first \in Clusters
                          /\ ek[x][t].first = ek[y][u].first => x = y /\ t = u
    <3> SUFFICES ASSUME NEW x, NEW t, NEW y, NEW u, At(ek, x, t), At(ek, y, u), ek[x][t].first \in Clusters,
                        ek[x][t].first = ek[y][u].first
                 PROVE  x = y /\ t = u
      OBVIOUS
    <3>1. CASE x = d /\ t = s /\ ~(y = d /\ u = s)
      BY <1>1, <1>3, <1>4, <1>6, <2>1, <3>1
    <3>2. CASE y = d /\ u = s /\ ~(x = d /\ t = s)
      BY <1>1, <1>3, <1>4, <1>6, <2>1, <3>2
    <3>3. CASE ~(x = d /\ t = s) /\ ~(y = d /\ u = s)
      BY <1>2, <2>1, <3>3 DEF OneOwner
    <3> QED BY <3>1, <3>2, <3>3
  <2>3. \A b, c \in LiveOf(ft, ek) : ft[b] \in Clusters /\ ft[b] = ft[c] => b = c
    <3> SUFFICES ASSUME NEW b \in L \cup C, NEW c \in L \cup C, ft[b] \in Clusters, ft[b] = ft[c] PROVE b = c
      BY <1>10
    <3>1. CASE b \in L /\ c \in L
      BY <1>2, <3>1 DEF OneOwner
    <3>2. CASE b \in C /\ c \in C
      BY <1>3, <3>2
    <3> QED BY <1>3, <1>4, <1>5, <3>1, <3>2
  <2>4. \A x, t : \A c \in LiveOf(ft, ek) : At(ek, x, t) /\ ek[x][t].first \in Clusters => ft[c] # ek[x][t].first
    <3> SUFFICES ASSUME NEW x, NEW t, NEW c \in L \cup C, At(ek, x, t), ek[x][t].first \in Clusters
                 PROVE  ft[c] # ek[x][t].first
      BY <1>10
    <3>1. CASE x = d /\ t = s
      BY <1>1, <1>3, <1>4, <1>5, <3>1
    <3>2. CASE ~(x = d /\ t = s) /\ c \in L
      BY <1>2, <2>1, <3>2 DEF OneOwner
    <3>3. CASE ~(x = d /\ t = s) /\ c \in C
      BY <1>3, <1>4, <1>6, <2>1, <3>3
    <3> QED BY <3>1, <3>2, <3>3
  <2> QED BY <2>2, <2>3, <2>4 DEF OneOwner
<1>12. ASSUME NEW x, NEW t, At(ek, x, t) PROVE Whole(ft, ek, ek[x][t])
  <2>1. PICK u : u = ek[x][t]
    OBVIOUS
  <2>2. Whole(ft, dk, u) /\ Cells(ft, u) \subseteq Clusters
    <3>1. CASE x = d /\ t = s
      BY <1>1, <1>3, <2>1, <3>1
    <3>2. CASE ~(x = d /\ t = s)
      <4>1. At(dk, x, t) /\ u = dk[x][t]
        BY <1>1, <1>12, <2>1, <3>2
      <4> QED BY <4>1, CellsLive, LiveUp DEF Sound
    <3> QED BY <3>1, <3>2
  <2>3. \A k \in 1..Length(u) : ChainOf(ft, u.first)[k] \in Clusters
    BY <2>2 DEF Cells
  <2> QED BY <1>1, <2>1, <2>2, <2>3 DEF Whole, Length
<1>13. \A x \in DirsOf(ek) : ek[x] \notin Payloads
  <2>1. \A x \in OwnDir(e) : x \in Clusters /\ dk[x] \notin Payloads
    BY NoEntryFact DEF OwnDir
  <2> QED BY <1>1, <2>1, DirsUp DEF Sound
<1>14. \A c \in LiveOf(ft, ek) : ft[c] # FREE
  BY <1>3, <1>10 DEF Sound
<1> QED BY <1>1, <1>2, <1>10, <1>11, <1>12, <1>13, <1>14 DEF Sound
-----------------------------------------------------------------------------
(* A chain that a call builds, before any entry names it.                  *)

Chained(ft, dk, first, n) ==
  /\ n \in Nat
  /\ IF n = 0 THEN first = 0 ELSE Run(ft, first, n)
  /\ \A k \in 1..n : ChainOf(ft, first)[k] \notin LiveOf(ft, dk)

LEMMA ChainedFact ==
  ASSUME NEW ft, NEW dk, NEW first, NEW n, Chained(ft, dk, first, n)
  PROVE  /\ n \in Nat
         /\ \A k \in 1..n : ChainOf(ft, first)[k] \in Clusters \ LiveOf(ft, dk)
         /\ n > 0 => /\ Run(ft, first, n) /\ first \in Clusters /\ ChainOf(ft, first)[1] = first
                     /\ ft[ChainOf(ft, first)[n]] = EOC
                     /\ \A k \in 1..(n - 1) : ft[ChainOf(ft, first)[k]] = ChainOf(ft, first)[k + 1]
         /\ n = 0 => first = 0
<1>1. n \in Nat
  BY DEF Chained
<1>2. CASE n = 0
  BY <1>2 DEF Chained
<1>3. CASE n # 0
  BY <1>1, <1>3, RunStep DEF Chained, Run
<1> QED BY <1>2, <1>3

(* It is there still in a FAT that agrees on it and on what can be reached. *)
LEMMA ChainedFat ==
  ASSUME NEW ft, NEW dk, Sound(ft, dk), NEW first, NEW n, Chained(ft, dk, first, n), NEW gt \in Tables,
         \A c \in LiveOf(ft, dk) : gt[c] = ft[c],
         \A k \in 1..n : gt[ChainOf(ft, first)[k]] = ft[ChainOf(ft, first)[k]]
  PROVE  /\ Chained(gt, dk, first, n)
         /\ \A k \in 1..n : ChainOf(gt, first)[k] = ChainOf(ft, first)[k]
<1>1. LiveOf(gt, dk) = LiveOf(ft, dk)
  BY FatOff
<1>2. n \in Nat
  BY DEF Chained
<1>3. CASE n = 0
  BY <1>3 DEF Chained
<1>4. CASE n # 0
  <2>1. Run(ft, first, n) /\ n \in 1..n /\ n \in 1..NClusters
    BY <1>2, <1>4 DEF Chained, Run
  <2>2. \A k \in 1..(n - 1) : StepOf(gt, ChainOf(ft, first)[k]) = StepOf(ft, ChainOf(ft, first)[k])
    <3>1. \A k \in 1..(n - 1) : k \in 1..n
      BY <1>2
    <3> QED BY <3>1 DEF StepOf
  <2>3. \A k \in 1..n : ChainOf(gt, first)[k] = ChainOf(ft, first)[k]
    BY <2>1, <2>2, ChainPrefix
  <2>4. Run(gt, first, n)
    BY <2>1, <2>3 DEF Run
  <2> QED BY <1>1, <1>2, <1>4, <2>3, <2>4 DEF Chained
<1> QED BY <1>3, <1>4

(* n clusters and one more are no more than there are.                     *)
LEMMA Room ==
  ASSUME NEW ft \in Tables, NEW first, NEW n, Run(ft, first, n), NEW x \in Clusters,
         \A k \in 1..n : ChainOf(ft, first)[k] # x
  PROVE  n + 1 \in 1..NClusters
<1>1. n \in Nat /\ n + 1 \in Nat /\ NClusters \in Nat
  BY Volume DEF Run
<1>2. PICK f : f = [k \in 1..(n + 1) |-> IF k = n + 1 THEN x ELSE ChainOf(ft, first)[k]]
  OBVIOUS
<1>3. \A k \in 1..(n + 1) : k = n + 1 \/ k \in 1..n
  BY <1>1
<1>4. f \in [1..(n + 1) -> Clusters]
  BY <1>2, <1>3 DEF Run
<1>5. \A i, j \in 1..(n + 1) : f[i] = f[j] => i = j
  BY <1>2, <1>3, RunInjective
<1>6. f \in Injection(1..(n + 1), Clusters)
  BY <1>4, <1>5 DEF Injection, IsInjective
<1>7. IsFiniteSet(1..(n + 1)) /\ Cardinality(1..(n + 1)) = n + 1
  BY <1>1, FS_Interval
<1>8. IsFiniteSet(Clusters) /\ Cardinality(Clusters) = NClusters
  BY <1>1, FS_Interval DEF Clusters
<1>9. n + 1 <= NClusters
  BY <1>6, <1>7, <1>8, FS_Injection
<1> QED BY <1>1, <1>9

LEMMA ChainedLink ==
  ASSUME NEW ft, NEW dk, Sound(ft, dk), NEW first, NEW n, Chained(ft, dk, first, n), n > 0, NEW gt \in Tables,
         NEW last, last = ChainOf(ft, first)[n],
         NEW cur \in Clusters \ LiveOf(ft, dk), ft[cur] = EOC, \A k \in 1..n : ChainOf(ft, first)[k] # cur,
         gt[last] = cur, \A c \in Clusters : c # last => gt[c] = ft[c]
  PROVE  /\ Chained(gt, dk, first, n + 1) /\ ChainOf(gt, first)[n + 1] = cur
         /\ \A k \in 1..n : ChainOf(gt, first)[k] = ChainOf(ft, first)[k]
<1>1. /\ Run(ft, first, n) /\ n \in 1..NClusters /\ n \in 1..n /\ ft \in Tables
      /\ \A k \in 1..n : ChainOf(ft, first)[k] \in Clusters \ LiveOf(ft, dk)
  BY ChainedFact DEF Run, Sound
<1>2. n + 1 \in 1..NClusters
  BY <1>1, Room
<1>3. \A k \in 1..(n - 1) : k \in 1..n /\ ChainOf(ft, first)[k] # last
  <2>1. ASSUME NEW k \in 1..(n - 1) PROVE k \in 1..n /\ k # n
    BY <1>1
  <2> QED BY <1>1, <2>1, RunInjective
<1>4. \A k \in 1..(n - 1) : StepOf(gt, ChainOf(ft, first)[k]) = StepOf(ft, ChainOf(ft, first)[k])
  BY <1>1, <1>3 DEF StepOf
<1>5. \A k \in 1..n : ChainOf(gt, first)[k] = ChainOf(ft, first)[k]
  BY <1>1, <1>4, ChainPrefix
<1>6. n \in 1..(NClusters - 1) /\ n \in Nat /\ \A k \in 1..(n + 1) : k = n + 1 \/ k \in 1..n
  BY <1>1, <1>2, Volume
<1>7. ChainOf(gt, first)[n + 1] = cur
  BY <1>1, <1>5, <1>6, ChainStep DEF StepOf
<1>8. gt[cur] = EOC
  BY <1>1
<1>9. Run(gt, first, n + 1)
  BY <1>1, <1>2, <1>5, <1>6, <1>7, <1>8 DEF Run
<1>10. LiveOf(gt, dk) = LiveOf(ft, dk)
  BY <1>1, FatOff, LiveUp
<1>11. \A k \in 1..(n + 1) : ChainOf(gt, first)[k] \notin LiveOf(gt, dk)
  BY <1>1, <1>5, <1>6, <1>7, <1>10
<1> QED BY <1>5, <1>6, <1>7, <1>9, <1>11 DEF Chained

LEMMA ChainedOne ==
  ASSUME NEW ft, NEW dk, NEW c \in Clusters \ LiveOf(ft, dk), ft[c] = EOC
  PROVE  Chained(ft, dk, c, 1) /\ ChainOf(ft, c)[1] = c
<1>1. ChainOf(ft, c)[1] = c /\ 1 \in 1..NClusters /\ \A k \in 1..1 : k = 1
  BY ChainStep, Volume
<1> QED BY <1>1 DEF Chained, Run

(* Sectors changed that nobody reaches leave it where it is.               *)
LEMMA ChainedDisk ==
  ASSUME NEW ft, NEW dk, NEW ek, LiveOf(ft, ek) \subseteq LiveOf(ft, dk), NEW first, NEW n,
         Chained(ft, dk, first, n)
  PROVE  Chained(ft, ek, first, n)
BY DEF Chained
-----------------------------------------------------------------------------
(* What a step leaves alone: every folder, every chain an entry names, and *)
(* the data on it.                                                         *)

Quiet(ft, dk, gt, ek) ==
  /\ DirsOf(ek) = DirsOf(dk) /\ LiveOf(gt, ek) = LiveOf(ft, dk)
  /\ \A d \in DirsOf(dk) : ek[d] = dk[d]
  /\ \A d, s : At(dk, d, s) => \A k \in 1..Length(dk[d][s]) :
       LET c == ChainOf(ft, dk[d][s].first)[k]
       IN  ChainOf(gt, dk[d][s].first)[k] = c /\ ek[c] = dk[c]

LEMMA FatQuiet ==
  ASSUME NEW ft, NEW dk, Sound(ft, dk), NEW gt \in Tables, \A c \in LiveOf(ft, dk) : gt[c] = ft[c]
  PROVE  Sound(gt, dk) /\ Quiet(ft, dk, gt, dk)
BY FatOff DEF Quiet

With(dk, c, v) == [dk EXCEPT ![c] = v]

LEMMA DiskQuiet ==
  ASSUME NEW ft, NEW dk, Sound(ft, dk), NEW c \in Clusters \ LiveOf(ft, dk),
         NEW v \in Payloads \cup DirSectors, NEW ek, ek = With(dk, c, v)
  PROVE  /\ ek \in Disks /\ Sound(ft, ek) /\ Quiet(ft, dk, ft, ek)
         /\ ek[c] = v /\ \A x \in Clusters \cup {Root} : x # c => ek[x] = dk[x]
<1>1. ek \in Disks /\ ek[c] = v /\ \A x \in Clusters \cup {Root} : x # c => ek[x] = dk[x]
  BY DEF Disks, Sound, With
<1>2. \A d \in DirsOf(dk) : ek[d] = dk[d]
  <2>1. DirsOf(dk) \subseteq LiveOf(ft, dk) \cup {Root} /\ DirsOf(dk) \subseteq Clusters \cup {Root} /\ c # Root
    BY DirsUp, DirsLive, Volume
  <2> QED BY <1>1, <2>1
<1>3. \A x \in LiveOf(ft, dk) : ek[x] = dk[x]
  BY <1>1, LiveUp
<1>4. DirsOf(ek) = DirsOf(dk) /\ LiveOf(ft, ek) = LiveOf(ft, dk) /\ Sound(ft, ek)
  <2>1. \A x \in LiveOf(ft, dk) : dk[x] \in Payloads => ek[x] \in Payloads
    BY <1>3
  <2>2. ek \in Disks /\ Sound(ft, dk) /\ \A d \in DirsOf(dk) : ek[d] = dk[d]
    BY <1>1, <1>2
  <2> QED BY ONLY <2>1, <2>2, DiskOff
<1>5. ASSUME NEW d, NEW s, At(dk, d, s), NEW k \in 1..Length(dk[d][s])
      PROVE  ek[ChainOf(ft, dk[d][s].first)[k]] = dk[ChainOf(ft, dk[d][s].first)[k]]
  <2>1. ChainOf(ft, dk[d][s].first)[k] \in LiveOf(ft, dk)
    BY <1>5, CellsLive DEF Cells
  <2> QED BY <1>3, <2>1
<1> QED BY <1>1, <1>2, <1>4, <1>5 DEF Quiet

(* One sector of one FAT copy.                                             *)
WithEntry(f, cp, c, v) ==
  [f EXCEPT ![cp] = [k \in Clusters |-> IF k = c THEN v ELSE IF Row[k] = Row[c] THEN f[1][k] ELSE f[cp][k]]]

LEMMA WithEntryFact ==
  ASSUME NEW f \in [Copies -> Tables], NEW cp \in Copies, NEW c \in Clusters,
         NEW v \in {FREE, EOC} \cup Clusters, NEW g, g = WithEntry(f, cp, c, v)
  PROVE  /\ g \in [Copies -> Tables] /\ g[1] \in Tables /\ f[1] \in Tables
         /\ cp = 1 => g[1][c] = v /\ \A k \in Clusters : k # c => g[1][k] = f[1][k]
         /\ cp # 1 => g[1] = f[1]
<1>1. PICK t : t = [k \in Clusters |-> IF k = c THEN v ELSE IF Row[k] = Row[c] THEN f[1][k] ELSE f[cp][k]]
  OBVIOUS
<1>2. f[1] \in Tables /\ f[cp] \in Tables /\ 1 \in Copies
  BY Volume
<1>3. t \in Tables /\ t[c] = v /\ (cp = 1 => \A k \in Clusters : k # c => t[k] = f[1][k])
  BY <1>1, <1>2 DEF Tables
<1>4. g = [f EXCEPT ![cp] = t]
  BY <1>1 DEF WithEntry
<1>5. g[cp] = t /\ (cp # 1 => g[1] = f[1]) /\ g \in [Copies -> Tables]
  BY <1>2, <1>3, <1>4
<1> QED BY <1>2, <1>3, <1>5
-----------------------------------------------------------------------------
(* The call in progress.                                                   *)

OpsOf(b) ==
  [pc: {"idle", "alloc", "link", "data", "seal", "entry", "poke", "release", "row", "fsinfo", "done"},
   kind: {"none", "write", "writeat", "delete", "mkdir", "rmdir", "mount"},
   dir: Clusters \cup {Root}, name: Names \cup {""}, data: Contents,
   slot: Slots \cup {0}, old: Clusters \cup {0}, first: Clusters \cup {0},
   prev: Clusters \cup {0}, cur: Nat, i: 0..MaxLen, rel: Clusters \cup {0},
   then: {"none", "ok", "fail", "failed"}, cp: Copies, ret: 0..(MaxLen + 1),
   live: SUBSET Clusters, before: {b}]

Typed ==
  /\ fat \in [Copies -> Tables] /\ disk \in Disks
  /\ fsinfo \in 0..NClusters \cup {Unknown}
  /\ mounted \in BOOLEAN /\ fsDone \in BOOLEAN /\ hint \in 0..NClusters
  /\ at \in [first: Clusters \cup {0}, index: Nat, cluster: Clusters \cup {0}]
  /\ op \in OpsOf(op.before)

LeftIs == left \in [lost: SUBSET Clusters, rows: SUBSET Rows]

LEMMA TypedFact == Typed /\ LeftIs => TypeOK
<1> SUFFICES ASSUME Typed, LeftIs PROVE TypeOK
  OBVIOUS
<1>1. [op EXCEPT !.before = <<>>] \in Ops
  BY DEF Typed, OpsOf, Ops
<1> QED BY <1>1 DEF Typed, LeftIs, TypeOK, Tables, Disks

(* Clusters the new entry takes.                                           *)
Pieces(o) == IF o.kind = "mkdir" THEN 1 ELSE Len(o.data)

(* No entry of folder d has the name.  The driver takes a sector it cannot *)
(* read for one without the name.                                          *)
NewName(dk, d, n) ==
  ReadErrors \/ \A t \in Slots : dk[d][t].kind # "none" => dk[d][t].name # n

(* The slot the call will write is as it was found.                        *)
Target(dk, o) ==
  /\ o.dir \in DirsOf(dk) /\ o.slot \in Slots /\ o.name \in Names
  /\ LET e == dk[o.dir][o.slot]
     IN  /\ \/ o.kind \in {"write", "mkdir"} /\ e.kind = "none" /\ o.old = 0
            \/ o.kind \in {"write", "delete"} /\ e.kind = "file" /\ o.old = e.first
            \/ o.kind = "rmdir" /\ e.kind = "dir" /\ o.old = e.first /\ dk[o.old] = EmptyDir
         /\ IF e.kind = "none" THEN NewName(dk, o.dir, o.name) ELSE e.name = o.name

(* n clusters of the new file or folder are chained, o.i of them written.  *)
Building(ft, dk, o, n) ==
  /\ o.kind \in {"write", "mkdir"} /\ Target(dk, o)
  /\ Chained(ft, dk, o.first, n)
  /\ o.i <= n /\ \A k \in 1..o.i : dk[ChainOf(ft, o.first)[k]] = o.data[k]
  /\ o.kind = "mkdir" => o.i = 0

(* A cluster taken that no FAT entry leads to yet.                         *)
Spare(ft, dk, o) ==
  /\ o.cur \in Clusters \ LiveOf(ft, dk) /\ ft[o.cur] = EOC
  /\ \A k \in 1..o.i : ChainOf(ft, o.first)[k] # o.cur

AllocOk(ft, dk, o) ==
  /\ Building(ft, dk, o, o.i) /\ o.i < Pieces(o)
  /\ o.i > 0 => ChainOf(ft, o.first)[o.i] = o.prev
  /\ o.cp > 1 => Spare(ft, dk, o)

LinkOk(ft, dk, o) ==
  /\ o.kind = "write" /\ 0 < o.i /\ o.i < Pieces(o) /\ ChainOf(ft, o.first)[o.i] = o.prev
  /\ o.cp = 1 => Building(ft, dk, o, o.i) /\ Spare(ft, dk, o)
  /\ o.cp > 1 => Building(ft, dk, o, o.i + 1) /\ ChainOf(ft, o.first)[o.i + 1] = o.cur

DataOk(ft, dk, o) ==
  /\ Building(ft, dk, o, o.i + 1) /\ o.i < Pieces(o)
  /\ ChainOf(ft, o.first)[o.i + 1] = o.cur /\ o.prev = o.cur /\ o.cp = 1

SealOk(ft, dk, o) ==
  /\ o.kind = "write" /\ Building(ft, dk, o, o.i) /\ o.i > 0 /\ o.i = Pieces(o)
  /\ ChainOf(ft, o.first)[o.i] = o.prev

EntryOk(ft, dk, o) ==
  /\ Target(dk, o)
  /\ o.kind \in {"write", "mkdir"} => Building(ft, dk, o, Pieces(o))
  /\ o.kind = "write" => o.i = Pieces(o)
  /\ o.kind = "mkdir" => dk[o.first] = EmptyDir

PokeOk(ft, dk, o) ==
  /\ o.kind = "writeat" /\ o.i < Len(o.data) /\ o.name \in Names
  /\ \E s \in Slots, k \in Nat \ {0} :
       /\ At(dk, o.dir, s) /\ dk[o.dir][s].kind = "file" /\ dk[o.dir][s].name = o.name
       /\ k + Len(o.data) - o.i <= dk[o.dir][s].size + 1
       /\ o.cur = ChainOf(ft, dk[o.dir][s].first)[k]

(* What is left to free is no entry's, and leads to nothing that is.       *)
Freeable(ft, dk, X) ==
  X \subseteq Clusters \ LiveOf(ft, dk) /\ \A c \in X : ft[c] \in Clusters => ft[c] \in X
ReleaseOk(ft, dk, o) ==
  /\ o.kind \in {"write", "delete", "mkdir", "rmdir"} /\ o.then \in {"ok", "fail", "failed"}
  /\ \E X \in SUBSET Clusters :
       /\ Freeable(ft, dk, X) /\ o.rel \in X
       /\ o.then = "failed" => o.first \in X \cup {0}
       /\ o.cp > 1 /\ o.cur \in Clusters => o.cur \in X

CallOk(ft, dk, o) ==
  /\ o.pc = "alloc" => AllocOk(ft, dk, o)
  /\ o.pc = "link" => LinkOk(ft, dk, o)
  /\ o.pc = "data" => DataOk(ft, dk, o)
  /\ o.pc = "seal" => SealOk(ft, dk, o)
  /\ o.pc = "entry" => EntryOk(ft, dk, o)
  /\ o.pc = "poke" => PokeOk(ft, dk, o)
  /\ o.pc = "release" => ReleaseOk(ft, dk, o)
  /\ o.pc \in {"row", "fsinfo"} => o.live = LiveOf(ft, dk)

IInv == Typed /\ Sound(fat[1], disk) /\ CallOk(fat[1], disk, op)
-----------------------------------------------------------------------------
(* Ending a call, at once or by way of release_chain.                      *)

LEMMA NoOpFact == NoOp \in OpsOf(<<>>) /\ NoOp.cp = 1 /\ NoOp.pc = "idle"
<1>1. <<>> \in Contents
  <2>1. 0 \in 0..MaxLen /\ <<>> \in [1..0 -> Payloads]
    BY Volume
  <2> QED BY <2>1 DEF Contents
<1>2. 0 \in 0..MaxLen /\ 0 \in 0..(MaxLen + 1) /\ 1 \in Copies /\ 0 \in Nat /\ Root \in Clusters \cup {Root}
  BY Volume
<1> QED BY <1>1, <1>2 DEF NoOp, OpsOf

LEMMA DoneFact ==
  ASSUME NEW o, o \in OpsOf(o.before), NEW r \in 0..(MaxLen + 1)
  PROVE  /\ Done(o, r) \in OpsOf(o.before) /\ Done(o, r).pc = "done" /\ Done(o, r).ret = r
         /\ Done(o, r).kind = o.kind /\ Done(o, r).dir = o.dir /\ Done(o, r).name = o.name
         /\ Done(o, r).data = o.data /\ Done(o, r).before = o.before /\ Done(o, r).cp = 1
<1>1. 0 \in 0..MaxLen /\ 1 \in Copies
  BY Volume
<1>2. NoOp \in OpsOf(<<>>) /\ NoOp.cp = 1
  BY NoOpFact
<1>3. PICK n : n = NoOp
  OBVIOUS
<1>4. PICK d : d = [n EXCEPT !.pc = "done", !.kind = o.kind, !.dir = o.dir, !.name = o.name,
                           !.data = o.data, !.ret = r, !.before = o.before]
  OBVIOUS
<1>5. /\ d \in OpsOf(o.before) /\ d.pc = "done" /\ d.ret = r /\ d.kind = o.kind /\ d.dir = o.dir
      /\ d.name = o.name /\ d.data = o.data /\ d.before = o.before /\ d.cp = 1
  <2>1. n \in OpsOf(<<>>) /\ n.cp = 1
    BY <1>2, <1>3
  <2>2. d \in OpsOf(o.before)
    BY ZenonT(60), <1>4, <2>1 DEF OpsOf
  <2>3. /\ d.pc = "done" /\ d.ret = r /\ d.kind = o.kind /\ d.dir = o.dir
        /\ d.name = o.name /\ d.data = o.data /\ d.before = o.before /\ d.cp = 1
    BY <1>4, <2>1 DEF OpsOf
  <2> QED BY <2>2, <2>3
<1>6. Done(o, r) = d
  BY <1>3, <1>4 DEF Done
<1> QED BY <1>5, <1>6

Rewound(q) == [q EXCEPT !.cp = 1]

(* Setting cp again changes nothing a caller sees.                         *)
LEMMA CpFact ==
  ASSUME NEW q, NEW b, q \in OpsOf(b), q.cp = 1, NEW p, p = q \/ p = Rewound(q)
  PROVE  /\ p \in OpsOf(b) /\ p.before = q.before /\ p.cp = 1 /\ p.pc = q.pc /\ p.rel = q.rel
         /\ p.then = q.then /\ p.ret = q.ret /\ p.first = q.first
         /\ p.kind = q.kind /\ p.dir = q.dir /\ p.name = q.name /\ p.data = q.data
<1>1. CASE p = q
  BY <1>1
<1>2. CASE p = Rewound(q)
  <2>1. p \in OpsOf(b)
    BY ZenonT(60), <1>2, Volume DEF OpsOf, Rewound
  <2>2. /\ p.before = q.before /\ p.cp = 1 /\ p.pc = q.pc /\ p.rel = q.rel
        /\ p.then = q.then /\ p.ret = q.ret /\ p.first = q.first
        /\ p.kind = q.kind /\ p.dir = q.dir /\ p.name = q.name /\ p.data = q.data
    BY <1>2 DEF OpsOf, Rewound
  <2> QED BY <2>1, <2>2
<1> QED BY <1>1, <1>2

LEMMA AfterReleaseFact ==
  ASSUME NEW o, o \in OpsOf(o.before), NEW then \in {"ok", "fail", "failed"},
         NEW p, p = AfterRelease(o, then) \/ p = Rewound(AfterRelease(o, then))
  PROVE  /\ p \in OpsOf(o.before) /\ p.before = o.before /\ p.cp = 1
         /\ p.kind = o.kind /\ p.dir = o.dir /\ p.name = o.name /\ p.data = o.data
         /\ \/ p.pc = "release" /\ p.rel = o.first /\ p.then = "fail" /\ then = "failed" /\ o.first \in Clusters
            \/ /\ p.pc = "done" /\ p.ret = (IF then = "ok" THEN 1 ELSE 0)
               /\ then = "failed" => o.first = 0
<1>1. 0 \in 0..(MaxLen + 1) /\ 1 \in 0..(MaxLen + 1)
  BY Volume
<1>2. CASE then = "failed" /\ o.first # 0
  <2>1. AfterRelease(o, then) = [o EXCEPT !.pc = "release", !.rel = o.first, !.then = "fail", !.cp = 1]
    BY <1>2 DEF AfterRelease
  <2>2. PICK q : q = AfterRelease(o, then)
    OBVIOUS
  <2>3. o.first \in Clusters
    BY <1>2 DEF OpsOf
  <2>4. /\ q \in OpsOf(o.before) /\ q.before = o.before /\ q.cp = 1 /\ q.pc = "release" /\ q.rel = o.first
        /\ q.then = "fail" /\ q.kind = o.kind /\ q.dir = o.dir /\ q.name = o.name /\ q.data = o.data
    BY ZenonT(60), <2>1, <2>2, Volume DEF OpsOf
  <2>5. p = q \/ p = Rewound(q)
    BY <2>2
  <2> QED BY <1>2, <2>3, <2>4, <2>5, CpFact
<1>3. CASE ~(then = "failed" /\ o.first # 0)
  <2>1. PICK r : r = IF then = "ok" THEN 1 ELSE 0
    OBVIOUS
  <2>2. PICK q : q = Done(o, r)
    OBVIOUS
  <2>3. AfterRelease(o, then) = q /\ r \in 0..(MaxLen + 1)
    BY <1>1, <1>3, <2>1, <2>2 DEF AfterRelease
  <2>4. /\ q \in OpsOf(o.before) /\ q.pc = "done" /\ q.ret = r /\ q.kind = o.kind /\ q.dir = o.dir
        /\ q.name = o.name /\ q.data = o.data /\ q.before = o.before /\ q.cp = 1
    BY <2>2, <2>3, DoneFact
  <2>5. p = q \/ p = Rewound(q)
    BY <2>3
  <2> QED BY <1>3, <2>1, <2>4, <2>5, CpFact
<1> QED BY <1>2, <1>3

LEMMA ReleaseFact ==
  ASSUME NEW o, o \in OpsOf(o.before), NEW then \in {"ok", "fail", "failed"}, NEW c,
         NEW p, p = Release(o, c, then) \/ p = Rewound(Release(o, c, then))
  PROVE  /\ p \in OpsOf(o.before) /\ p.before = o.before /\ p.cp = 1
         /\ p.kind = o.kind /\ p.dir = o.dir /\ p.name = o.name /\ p.data = o.data
         /\ \/ p.pc = "release" /\ p.rel = c /\ p.then = then /\ p.first = o.first /\ c \in Clusters
            \/ /\ p.pc = "release" /\ p.rel = o.first /\ p.then = "fail" /\ then = "failed"
               /\ o.first \in Clusters /\ c \notin Clusters
            \/ /\ p.pc = "done" /\ p.ret = (IF then = "ok" THEN 1 ELSE 0) /\ c \notin Clusters
               /\ then = "failed" => o.first = 0
<1>1. CASE c \in Clusters
  <2>1. PICK q : q = [o EXCEPT !.pc = "release", !.rel = c, !.then = then, !.cp = 1]
    OBVIOUS
  <2>2. Release(o, c, then) = q
    BY <1>1, <2>1 DEF Release
  <2>3. /\ q \in OpsOf(o.before) /\ q.before = o.before /\ q.cp = 1 /\ q.pc = "release" /\ q.rel = c
        /\ q.then = then /\ q.first = o.first
        /\ q.kind = o.kind /\ q.dir = o.dir /\ q.name = o.name /\ q.data = o.data
    <3>1. q \in OpsOf(o.before)
      BY ZenonT(60), <1>1, <2>1, Volume DEF OpsOf
    <3>2. /\ q.before = o.before /\ q.cp = 1 /\ q.pc = "release" /\ q.rel = c
          /\ q.then = then /\ q.first = o.first
          /\ q.kind = o.kind /\ q.dir = o.dir /\ q.name = o.name /\ q.data = o.data
      BY <2>1 DEF OpsOf
    <3> QED BY <3>1, <3>2
  <2>4. p = q \/ p = Rewound(q)
    BY <2>2
  <2> QED BY <1>1, <2>3, <2>4, CpFact
<1>2. CASE c \notin Clusters
  <2>1. Release(o, c, then) = AfterRelease(o, then)
    BY <1>2 DEF Release
  <2> QED BY <1>2, <2>1, AfterReleaseFact
<1> QED BY <1>1, <1>2

LEMMA DoneOk ==
  ASSUME NEW ft, NEW dk, NEW o, o.pc \in {"idle", "done"} PROVE CallOk(ft, dk, o)
BY DEF CallOk

LEMMA ReleaseMakes ==
  ASSUME NEW ft, NEW dk, NEW o, o \in OpsOf(o.before), o.kind \in {"write", "delete", "mkdir", "rmdir"},
         NEW X, Freeable(ft, dk, X), NEW c, c \in X \/ c \notin Clusters,
         NEW then \in {"ok", "fail", "failed"}, then = "failed" => o.first \in X \cup {0},
         NEW p, p = Release(o, c, then) \/ p = Rewound(Release(o, c, then))
  PROVE  p \in OpsOf(p.before) /\ CallOk(ft, dk, p)
<1>1. X \in SUBSET Clusters
  BY DEF Freeable
<1>2. /\ p \in OpsOf(o.before) /\ p.before = o.before /\ p.cp = 1 /\ p.kind = o.kind
      /\ \/ p.pc = "release" /\ p.rel = c /\ p.then = then /\ p.first = o.first /\ c \in Clusters
         \/ /\ p.pc = "release" /\ p.rel = o.first /\ p.then = "fail" /\ then = "failed"
            /\ o.first \in Clusters /\ c \notin Clusters
         \/ p.pc = "done"
  <2>1. o \in OpsOf(o.before)
    OBVIOUS
  <2>2. p = Release(o, c, then) \/ p = Rewound(Release(o, c, then))
    OBVIOUS
  <2> QED BY ONLY <2>1, <2>2, ReleaseFact, then \in {"ok", "fail", "failed"}
<1>3. CASE p.pc = "done"
  BY <1>2, <1>3, DoneOk
<1>4. CASE p.pc = "release"
  <2>1. p.rel \in X /\ (p.then = "failed" => p.first \in X \cup {0}) /\ p.then \in {"ok", "fail", "failed"}
    BY <1>2, <1>4, Volume
  <2>2. ~(p.cp > 1)
    BY <1>2
  <2>3. ReleaseOk(ft, dk, p)
    BY <1>1, <1>2, <2>1, <2>2 DEF ReleaseOk
  <2> QED BY <1>2, <1>4, <2>3 DEF CallOk
<1> QED BY <1>2, <1>3, <1>4

(* The failed: label of write_file and fat_mkdir.                          *)
LEMMA ChainFreeable ==
  ASSUME NEW ft \in Tables, NEW dk, NEW first, NEW n, Chained(ft, dk, first, n)
  PROVE  LET X == {ChainOf(ft, first)[k] : k \in 1..n} IN Freeable(ft, dk, X) /\ first \in X \cup {0}
<1> PICK X : X = {ChainOf(ft, first)[k] : k \in 1..n}
  OBVIOUS
<1>1. /\ n \in Nat /\ \A k \in 1..n : ChainOf(ft, first)[k] \in Clusters \ LiveOf(ft, dk)
      /\ n > 0 => /\ ChainOf(ft, first)[1] = first /\ ft[ChainOf(ft, first)[n]] = EOC
                  /\ \A k \in 1..(n - 1) : ft[ChainOf(ft, first)[k]] = ChainOf(ft, first)[k + 1]
      /\ n = 0 => first = 0
  BY ChainedFact
<1>2. first \in X \cup {0}
  <2>1. n > 0 => 1 \in 1..n
    BY <1>1
  <2> QED BY <1>1, <2>1
<1>3. ASSUME NEW k \in 1..n, ft[ChainOf(ft, first)[k]] \in Clusters PROVE ft[ChainOf(ft, first)[k]] \in X
  <2>1. n > 0 /\ (k = n \/ (k \in 1..(n - 1) /\ k + 1 \in 1..n))
    BY <1>1
  <2> QED BY <1>1, <1>3, <2>1, Volume
<1>4. Freeable(ft, dk, X)
  BY <1>1, <1>3 DEF Freeable
<1> QED BY <1>2, <1>4

LEMMA FailedMakes ==
  ASSUME NEW ft \in Tables, NEW dk, NEW o, o \in OpsOf(o.before), o.kind \in {"write", "mkdir"},
         NEW n, Chained(ft, dk, o.first, n), NEW p, p = Failed(o) \/ p = Rewound(Failed(o))
  PROVE  p \in OpsOf(p.before) /\ CallOk(ft, dk, p)
<1>1. PICK X : Freeable(ft, dk, X) /\ o.first \in X \cup {0}
  BY ChainFreeable
<1>2. o.first \in X \/ o.first \notin Clusters
  BY <1>1, Volume
<1>3. p = Release(o, o.first, "fail") \/ p = Rewound(Release(o, o.first, "fail"))
  BY DEF Failed
<1> QED BY <1>1, <1>2, <1>3, ReleaseMakes
-----------------------------------------------------------------------------
(* The call's promises through a step that is quiet.                       *)

LEMMA TargetKeep ==
  ASSUME NEW ft, NEW dk, NEW gt, NEW ek, Sound(ft, dk), Quiet(ft, dk, gt, ek), NEW o, Target(dk, o)
  PROVE  Target(ek, o)
<1>1. DirsOf(ek) = DirsOf(dk) /\ ek[o.dir] = dk[o.dir] /\ \A d \in DirsOf(dk) : ek[d] = dk[d]
  BY DEF Quiet, Target
<1>4. NewName(dk, o.dir, o.name) => NewName(ek, o.dir, o.name)
  BY <1>1 DEF NewName
<1>2. CASE o.kind = "rmdir"
  <2>1. /\ o.dir \in DirsOf(dk) /\ o.slot \in Slots /\ dk[o.dir][o.slot].kind = "dir"
        /\ o.old = dk[o.dir][o.slot].first /\ dk[o.dir] \notin Payloads
    BY <1>2 DEF Target, Sound
  <2>2. At(dk, o.dir, o.slot)
    BY <2>1 DEF At
  <2>3. o.old \in Clusters \cup {0}
    BY <2>1, <2>2, LengthFact DEF Sound
  <2>4. o.old \in DirsOf(dk)
    BY <2>1, <2>3, DirsUp, Volume
  <2> QED BY <1>1, <1>4, <2>4 DEF Target
<1>3. CASE o.kind # "rmdir"
  BY <1>1, <1>3, <1>4 DEF Target
<1> QED BY <1>2, <1>3

SameCall(o, p) ==
  /\ p.kind = o.kind /\ p.dir = o.dir /\ p.name = o.name /\ p.data = o.data
  /\ p.slot = o.slot /\ p.old = o.old /\ p.i = o.i

LEMMA BuildingKeep ==
  ASSUME NEW ft, NEW dk, NEW gt, NEW ek, Sound(ft, dk), Quiet(ft, dk, gt, ek),
         NEW o, NEW n, Building(ft, dk, o, n), NEW p, SameCall(o, p), NEW m,
         Chained(gt, ek, p.first, m), o.i <= m,
         \A k \in 1..o.i : ChainOf(gt, p.first)[k] = ChainOf(ft, o.first)[k],
         \A k \in 1..o.i : ek[ChainOf(ft, o.first)[k]] = dk[ChainOf(ft, o.first)[k]]
  PROVE  Building(gt, ek, p, m)
<1>1. Target(ek, o)
  BY TargetKeep DEF Building
<1>2. Target(ek, p)
  BY <1>1 DEF Target, SameCall
<1> QED BY <1>2 DEF Building, SameCall

LEMMA SpareFact ==
  ASSUME NEW ft, NEW dk, Sound(ft, dk), NEW first, NEW n, Chained(ft, dk, first, n),
         NEW c \in Clusters, ft[c] = FREE
  PROVE  c \notin LiveOf(ft, dk) /\ \A k \in 1..n : ChainOf(ft, first)[k] # c
<1>1. \A k \in 1..n : k = n \/ k \in 1..(n - 1)
  BY ChainedFact
<1>2. ASSUME NEW k \in 1..n PROVE ft[ChainOf(ft, first)[k]] # FREE
  <2>1. n > 0 /\ n \in Nat
    BY ChainedFact
  <2>2. k \in 1..(n - 1) => k + 1 \in 1..n
    BY <2>1
  <2> QED BY <1>1, <2>1, <2>2, ChainedFact, Volume
<1> QED BY <1>2 DEF Sound

LEMMA FromHintFact ==
  ASSUME Typed, FreeFromHint # {}
  PROVE  /\ FromHint(Min(FreeFromHint)) \in Clusters
         /\ fat[1][FromHint(Min(FreeFromHint))] = FREE
<1>1. FreeFromHint \subseteq Nat
  BY Volume DEF FreeFromHint
<1>2. PICK k : k = Min(FreeFromHint)
  OBVIOUS
<1>3. k \in FreeFromHint /\ k \in Nat
  BY <1>1, <1>2, MinFact
<1>4. hint \in Nat
  BY Volume DEF Typed
<1>5. FromHint(k) \in Clusters
  BY <1>3, <1>4, Volume DEF FromHint, Clusters
<1> QED BY <1>2, <1>3, <1>5 DEF FreeFromHint

(* How the call's record moves on.                                         *)
Onward(q, k) == [q EXCEPT !.cp = k]
Taken(o, c) == [o EXCEPT !.cur = c]
ToData(o, c) == [[o EXCEPT !.cur = c] EXCEPT !.pc = "data", !.first = c, !.prev = c]
ToLink(o, c) == [[o EXCEPT !.cur = c] EXCEPT !.pc = "link"]

LEMMA CpRange ==
  ASSUME NEW o, o \in OpsOf(o.before)
  PROVE  o.cp \in Nat /\ o.cp \in Copies /\ (o.cp # NumFats => o.cp + 1 \in Copies /\ o.cp + 1 > 1)
         /\ o.cp >= 1 /\ 1 \in Copies /\ NumFats \in Copies
<1>1. o.cp \in Copies
  BY DEF OpsOf
<1> QED BY <1>1, VolumeAssumption DEF VolumeAssumption, Copies

LEMMA IRange ==
  ASSUME NEW o, NEW b, o \in OpsOf(b) PROVE o.i \in Nat /\ o.i <= MaxLen /\ o.data \in Contents
<1>1. o.i \in 0..MaxLen /\ o.data \in Contents
  BY DEF OpsOf
<1> QED BY <1>1, Volume

LEMMA OnwardFact ==
  ASSUME NEW o, NEW b, o \in OpsOf(b), NEW k \in Copies, NEW p, p = Onward(o, k)
  PROVE  /\ p \in OpsOf(b) /\ p.before = o.before /\ SameCall(o, p) /\ p.cp = k /\ p.pc = o.pc
         /\ p.cur = o.cur /\ p.first = o.first /\ p.prev = o.prev /\ p.rel = o.rel /\ p.then = o.then
         /\ p.ret = o.ret /\ p.live = o.live
<1>1. p \in OpsOf(b)
  BY DEF OpsOf, Onward
<1>2. /\ p.before = o.before /\ SameCall(o, p) /\ p.cp = k /\ p.pc = o.pc
      /\ p.cur = o.cur /\ p.first = o.first /\ p.prev = o.prev /\ p.rel = o.rel /\ p.then = o.then
      /\ p.ret = o.ret /\ p.live = o.live
  BY DEF OpsOf, Onward, SameCall
<1> QED BY <1>1, <1>2

LEMMA TakenFact ==
  ASSUME NEW o, NEW b, o \in OpsOf(b), NEW c \in Nat, NEW p, p = Taken(o, c)
  PROVE  /\ p \in OpsOf(b) /\ p.before = o.before /\ SameCall(o, p) /\ p.cp = o.cp /\ p.pc = o.pc
         /\ p.cur = c /\ p.first = o.first /\ p.prev = o.prev /\ p.rel = o.rel /\ p.then = o.then
<1>1. p \in OpsOf(b)
  BY DEF OpsOf, Taken
<1>2. /\ p.before = o.before /\ SameCall(o, p) /\ p.cp = o.cp /\ p.pc = o.pc
      /\ p.cur = c /\ p.first = o.first /\ p.prev = o.prev /\ p.rel = o.rel /\ p.then = o.then
  BY DEF OpsOf, Taken, SameCall
<1> QED BY <1>1, <1>2

LEMMA ToDataFact ==
  ASSUME NEW o, NEW b, o \in OpsOf(b), NEW c \in Clusters, NEW p, p = ToData(o, c)
  PROVE  /\ p \in OpsOf(b) /\ p.before = o.before /\ SameCall(o, p) /\ p.pc = "data"
         /\ p.cur = c /\ p.first = c /\ p.prev = c
<1>1. p \in OpsOf(b)
  BY ZenonT(60), Volume DEF OpsOf, ToData
<1>2. /\ p.before = o.before /\ SameCall(o, p) /\ p.pc = "data"
      /\ p.cur = c /\ p.first = c /\ p.prev = c
  BY DEF OpsOf, ToData, SameCall
<1> QED BY <1>1, <1>2

LEMMA ToLinkFact ==
  ASSUME NEW o, NEW b, o \in OpsOf(b), NEW c \in Clusters, NEW p, p = ToLink(o, c)
  PROVE  /\ p \in OpsOf(b) /\ p.before = o.before /\ SameCall(o, p) /\ p.pc = "link"
         /\ p.cur = c /\ p.first = o.first /\ p.prev = o.prev
<1>1. p \in OpsOf(b)
  BY ZenonT(60), Volume DEF OpsOf, ToLink
<1>2. /\ p.before = o.before /\ SameCall(o, p) /\ p.pc = "link"
      /\ p.cur = c /\ p.first = o.first /\ p.prev = o.prev
  BY DEF OpsOf, ToLink, SameCall
<1> QED BY <1>1, <1>2
-----------------------------------------------------------------------------
(* Each step keeps the invariant.  All but the directory write and an      *)
(* overwrite in place are quiet.                                           *)

QuietStep == Quiet(fat[1], disk, fat'[1], disk')

LEMMA StillQuiet == ASSUME Sound(fat[1], disk), fat' = fat, disk' = disk PROVE QuietStep
BY DEF QuietStep, Quiet

(* A cluster that is free, or is the call's spare one, is marked.          *)
LEMMA MarkFact ==
  ASSUME NEW ft, NEW dk, Sound(ft, dk), NEW o, NEW n, Building(ft, dk, o, n), o.i \in Nat,
         NEW c \in Clusters \ LiveOf(ft, dk), \A k \in 1..n : ChainOf(ft, o.first)[k] # c,
         NEW gt \in Tables, \A x \in Clusters : x # c => gt[x] = ft[x]
  PROVE  /\ Sound(gt, dk) /\ Quiet(ft, dk, gt, dk) /\ LiveOf(gt, dk) = LiveOf(ft, dk)
         /\ Chained(gt, dk, o.first, n) /\ Building(gt, dk, o, n)
         /\ \A k \in 1..n : ChainOf(gt, o.first)[k] = ChainOf(ft, o.first)[k]
<1>1. \A x \in LiveOf(ft, dk) : gt[x] = ft[x]
  BY LiveUp
<1>2. Sound(gt, dk) /\ Quiet(ft, dk, gt, dk)
  BY <1>1, FatQuiet
<1>3. Chained(ft, dk, o.first, n) /\ \A k \in 1..n : ChainOf(ft, o.first)[k] \in Clusters
  BY ChainedFact DEF Building
<1>4. \A k \in 1..n : gt[ChainOf(ft, o.first)[k]] = ft[ChainOf(ft, o.first)[k]]
  BY <1>3
<1>5. Chained(gt, dk, o.first, n) /\ \A k \in 1..n : ChainOf(gt, o.first)[k] = ChainOf(ft, o.first)[k]
  BY <1>1, <1>3, <1>4, ChainedFat
<1>6. o.i <= n /\ \A k \in 1..o.i : k \in 1..n
  <2>1. n \in Nat
    BY <1>3 DEF Chained
  <2>2. o.i <= n
    BY DEF Building
  <2> QED BY <2>1, <2>2
<1>7. SameCall(o, o)
  BY DEF SameCall
<1>8. Building(gt, dk, o, n)
  BY <1>2, <1>5, <1>6, <1>7, BuildingKeep
<1> QED BY <1>2, <1>5, <1>8 DEF Quiet

LEMMA AllocStep == ASSUME IInv, Alloc PROVE IInv' /\ QuietStep
<1> PICK ft : ft = fat[1]
  OBVIOUS
<1> PICK dk : dk = disk
  OBVIOUS
<1> PICK o : o = op
  OBVIOUS
<1>1. /\ o \in OpsOf(o.before) /\ AllocOk(ft, dk, o) /\ Sound(ft, dk) /\ o.pc = "alloc"
      /\ fat \in [Copies -> Tables] /\ ft \in Tables
  BY Volume DEF IInv, Typed, CallOk, Alloc, Sound
<1>2. /\ Building(ft, dk, o, o.i) /\ o.i < Pieces(o) /\ Chained(ft, dk, o.first, o.i) /\ o.i \in Nat
      /\ o.kind \in {"write", "mkdir"} /\ (o.kind = "mkdir" => o.i = 0)
      /\ o.i > 0 => o.first \in Clusters /\ ChainOf(ft, o.first)[o.i] = o.prev
      /\ o.i = 0 => o.first = 0
  BY <1>1, ChainedFact DEF AllocOk, Building
<1>3. CASE op' = Failed(op) /\ UNCHANGED <<fat, disk, fsinfo, mounted, fsDone, hint, at>>
  <2>1. op' \in OpsOf(op'.before) /\ CallOk(ft, dk, op')
    BY <1>1, <1>2, <1>3, FailedMakes
  <2> QED BY <1>1, <1>3, <2>1, StillQuiet DEF IInv, Typed
<1>4. ASSUME ~(op' = Failed(op) /\ UNCHANGED <<fat, disk, fsinfo, mounted, fsDone, hint, at>>)
      PROVE  IInv' /\ QuietStep
  <2>0. op.cp > 1 \/ FreeFromHint # {}
    BY <1>4 DEF Alloc
  <2>1. PICK c : c = IF op.cp > 1 THEN op.cur ELSE FromHint(Min(FreeFromHint))
    OBVIOUS
  <2>2. c \in Clusters \ LiveOf(ft, dk) /\ \A k \in 1..o.i : ChainOf(ft, o.first)[k] # c
    <3>1. CASE op.cp > 1
      BY <1>1, <2>1, <3>1 DEF AllocOk, Spare
    <3>2. CASE ~(op.cp > 1)
      <4>1. c \in Clusters /\ ft[c] = FREE
        BY <2>0, <2>1, <3>2, FromHintFact DEF IInv
      <4> QED BY <1>1, <1>2, <4>1, SpareFact
    <3> QED BY <3>1, <3>2
  <2>3. op.cp > 1 => ft[c] = EOC
    BY <1>1, <2>1 DEF AllocOk, Spare
  <2> DEFINE mid == [op EXCEPT !.cur = c]
             ok == IF op.first = 0 THEN [mid EXCEPT !.pc = "data", !.first = c, !.prev = c]
                   ELSE [mid EXCEPT !.pc = "link"]
  <2>4. CASE UNCHANGED fat /\ op' = [Failed(op) EXCEPT !.cp = 1] /\ UNCHANGED <<disk, fsinfo, mounted, fsDone, at>> /\ hint' \in {c, hint}
    <3>1. op' = Rewound(Failed(o))
      BY <2>4 DEF Rewound
    <3>2. op' \in OpsOf(op'.before) /\ CallOk(ft, dk, op')
      BY <1>1, <1>2, <3>1, FailedMakes
    <3>3. hint' \in 0..NClusters
      BY <2>2, <2>4, Volume DEF IInv, Typed, Clusters
    <3> QED BY <1>1, <2>4, <3>2, <3>3, StillQuiet DEF IInv, Typed
  <2>5. CASE /\ fat' = WithEntry(fat, op.cp, c, EOC)
             /\ op' = IF op.cp = NumFats THEN [ok EXCEPT !.cp = 1] ELSE [mid EXCEPT !.cp = op.cp + 1]
             /\ UNCHANGED <<disk, fsinfo, mounted, fsDone, at>> /\ hint' \in {c, hint}
    <3>1. PICK gt : gt = fat'[1]
      OBVIOUS
    <3>2. /\ fat' \in [Copies -> Tables] /\ gt \in Tables /\ gt[c] = EOC
          /\ \A x \in Clusters : x # c => gt[x] = ft[x]
      <4>1. EOC \in {FREE, EOC} \cup Clusters /\ op.cp \in Copies /\ c \in Clusters
        BY <1>1, <2>2, CpRange
      <4>2. /\ fat' \in [Copies -> Tables] /\ fat'[1] \in Tables
            /\ op.cp = 1 => fat'[1][c] = EOC /\ \A k \in Clusters : k # c => fat'[1][k] = fat[1][k]
            /\ op.cp # 1 => fat'[1] = fat[1]
        BY <1>1, <2>5, <4>1, WithEntryFact
      <4>3. op.cp # 1 => op.cp > 1
        BY <1>1, CpRange
      <4> QED BY <2>3, <3>1, <4>2, <4>3
    <3>3. /\ Sound(gt, dk) /\ Quiet(ft, dk, gt, dk) /\ LiveOf(gt, dk) = LiveOf(ft, dk)
          /\ Chained(gt, dk, o.first, o.i) /\ Building(gt, dk, o, o.i)
          /\ \A k \in 1..o.i : ChainOf(gt, o.first)[k] = ChainOf(ft, o.first)[k]
      BY <1>1, <1>2, <2>2, <3>2, MarkFact
    <3>4. PICK p : p = op'
      OBVIOUS
    <3>5. QuietStep
      BY <2>5, <3>1, <3>3 DEF QuietStep
    <3>6. p \in OpsOf(p.before) /\ CallOk(gt, dk, p)
      <4>1. CASE op.cp # NumFats
        <5>1. p = Onward(Taken(o, c), o.cp + 1)
          BY <2>5, <3>4, <4>1 DEF Onward, Taken
        <5>2. PICK q : q = Taken(o, c)
          OBVIOUS
        <5>3. c \in Nat /\ o.cp + 1 \in Copies /\ o.cp + 1 > 1
          BY <1>1, <2>2, <4>1, CpRange, Volume
        <5>4. /\ q \in OpsOf(o.before) /\ q.before = o.before /\ SameCall(o, q) /\ q.pc = o.pc
              /\ q.cur = c /\ q.first = o.first /\ q.prev = o.prev
          BY <1>1, <5>2, <5>3, TakenFact
        <5>5. /\ p \in OpsOf(o.before) /\ p.before = q.before /\ SameCall(q, p) /\ p.cp = o.cp + 1 /\ p.pc = q.pc
              /\ p.cur = q.cur /\ p.first = q.first /\ p.prev = q.prev
          BY <5>1, <5>2, <5>3, <5>4, OnwardFact
        <5>6. SameCall(o, p) /\ p.first = o.first /\ p.prev = o.prev /\ p.pc = "alloc" /\ p.cur = c
          BY <1>1, <5>4, <5>5 DEF SameCall
        <5>7. Building(gt, dk, p, p.i) /\ p.i < Pieces(p)
          BY <1>2, <3>3, <5>6 DEF Building, Target, SameCall, Pieces
        <5>8. Spare(gt, dk, p)
          BY <2>2, <3>2, <3>3, <5>6 DEF Spare, SameCall
        <5>9. p.i > 0 => ChainOf(gt, p.first)[p.i] = p.prev
          <6>1. p.i = o.i /\ (o.i > 0 => o.i \in 1..o.i)
            BY <1>2, <5>6 DEF SameCall
          <6> QED BY <1>2, <3>3, <5>6, <6>1
        <5>10. AllocOk(gt, dk, p)
          BY <5>7, <5>8, <5>9 DEF AllocOk
        <5> QED BY <5>4, <5>5, <5>6, <5>10 DEF CallOk
      <4>2. CASE op.cp = NumFats /\ op.first = 0
        <5>1. p = Onward(ToData(o, c), 1)
          BY <2>5, <3>4, <4>2 DEF Onward, ToData
        <5>2. PICK q : q = ToData(o, c)
          OBVIOUS
        <5>3. /\ q \in OpsOf(o.before) /\ q.before = o.before /\ SameCall(o, q) /\ q.pc = "data"
              /\ q.cur = c /\ q.first = c /\ q.prev = c
          BY <1>1, <2>2, <5>2, ToDataFact
        <5>4. /\ p \in OpsOf(o.before) /\ p.before = q.before /\ SameCall(q, p) /\ p.pc = q.pc /\ p.cp = 1
              /\ p.cur = q.cur /\ p.first = q.first /\ p.prev = q.prev
          BY <5>1, <5>2, <5>3, OnwardFact, CpRange, <1>1
        <5>5. SameCall(o, p) /\ p.first = c /\ p.prev = c /\ p.cur = c /\ p.pc = "data"
          BY <5>3, <5>4 DEF SameCall
        <5>6. o.i = 0 /\ p.i = 0
          BY <1>2, <4>2, <5>5, Volume DEF SameCall
        <5>7. Chained(gt, dk, c, 1) /\ ChainOf(gt, c)[1] = c
          BY <2>2, <3>2, <3>3, ChainedOne
        <5>8. Building(gt, dk, p, 1)
          <6>1. Target(dk, p)
            BY <3>3, <5>5 DEF Building, Target, SameCall
          <6> QED BY <1>2, <5>5, <5>6, <5>7, <6>1 DEF Building, SameCall
        <5>9. p.i < Pieces(p)
          BY <1>2, <5>5 DEF Pieces, SameCall
        <5>10. DataOk(gt, dk, p)
          BY <5>4, <5>5, <5>6, <5>7, <5>8, <5>9 DEF DataOk
        <5> QED BY <5>3, <5>4, <5>5, <5>10 DEF CallOk
      <4>3. CASE op.cp = NumFats /\ op.first # 0
        <5>1. p = Onward(ToLink(o, c), 1)
          BY <2>5, <3>4, <4>3 DEF Onward, ToLink
        <5>2. PICK q : q = ToLink(o, c)
          OBVIOUS
        <5>3. /\ q \in OpsOf(o.before) /\ q.before = o.before /\ SameCall(o, q) /\ q.pc = "link"
              /\ q.cur = c /\ q.first = o.first /\ q.prev = o.prev
          BY <1>1, <2>2, <5>2, ToLinkFact
        <5>4. /\ p \in OpsOf(o.before) /\ p.before = q.before /\ SameCall(q, p) /\ p.pc = q.pc /\ p.cp = 1
              /\ p.cur = q.cur /\ p.first = q.first /\ p.prev = q.prev
          BY <5>1, <5>2, <5>3, OnwardFact, CpRange, <1>1
        <5>5. SameCall(o, p) /\ p.first = o.first /\ p.prev = o.prev /\ p.cur = c /\ p.pc = "link"
          BY <5>3, <5>4 DEF SameCall
        <5>6. o.i > 0 /\ o.kind = "write" /\ p.kind = "write" /\ p.i = o.i /\ o.i \in 1..o.i
          BY <1>2, <4>3, <5>5 DEF SameCall
        <5>7. Building(gt, dk, p, p.i) /\ p.i < Pieces(p)
          BY <1>2, <3>3, <5>5 DEF Building, Target, SameCall, Pieces
        <5>8. Spare(gt, dk, p)
          BY <2>2, <3>2, <3>3, <5>5 DEF Spare, SameCall
        <5>9. ChainOf(gt, p.first)[p.i] = p.prev
          BY <1>2, <3>3, <5>5, <5>6
        <5>10. LinkOk(gt, dk, p)
          BY <5>4, <5>6, <5>7, <5>8, <5>9 DEF LinkOk
        <5> QED BY <5>3, <5>4, <5>5, <5>10 DEF CallOk
      <4> QED BY <4>1, <4>2, <4>3
    <3>7. hint' \in 0..NClusters
      BY <2>2, <2>5, Volume DEF IInv, Typed, Clusters
    <3> QED BY <2>5, <3>1, <3>2, <3>3, <3>4, <3>5, <3>6, <3>7 DEF IInv, Typed
  <2>6. /\ \/ /\ fat' = WithEntry(fat, op.cp, c, EOC)
              /\ op' = IF op.cp = NumFats THEN [ok EXCEPT !.cp = 1] ELSE [mid EXCEPT !.cp = op.cp + 1]
           \/ UNCHANGED fat /\ op' = [Failed(op) EXCEPT !.cp = 1]
        /\ UNCHANGED <<disk, fsinfo, mounted, fsDone, at>> /\ hint' \in {c, hint}
    <3>1. FatPut(c, EOC, mid, ok, Failed(op)) /\ hint' \in {c, hint}
      BY <1>4, <2>1 DEF Alloc
    <3> QED BY <3>1 DEF FatPut, WithEntry
  <2> QED BY <2>4, <2>5, <2>6
<1> QED BY <1>3, <1>4

ToWrite(o) == [o EXCEPT !.pc = "data", !.prev = o.cur]
ToEntry(o) == [o EXCEPT !.pc = "entry"]
ToNext(o, c) == [o EXCEPT !.rel = c]
Wrote(o, pc) == [o EXCEPT !.i = @ + 1, !.pc = pc]

LEMMA ToWriteFact ==
  ASSUME NEW o, NEW b, o \in OpsOf(b), o.cur \in Clusters, NEW p, p = ToWrite(o)
  PROVE  /\ p \in OpsOf(b) /\ p.before = o.before /\ SameCall(o, p) /\ p.pc = "data"
         /\ p.cur = o.cur /\ p.first = o.first /\ p.prev = o.cur
<1>1. p \in OpsOf(b)
  BY DEF OpsOf, ToWrite
<1>2. /\ p.before = o.before /\ SameCall(o, p) /\ p.pc = "data"
      /\ p.cur = o.cur /\ p.first = o.first /\ p.prev = o.cur
  BY DEF OpsOf, ToWrite, SameCall
<1> QED BY <1>1, <1>2

LEMMA ToEntryFact ==
  ASSUME NEW o, NEW b, o \in OpsOf(b), NEW p, p = ToEntry(o)
  PROVE  /\ p \in OpsOf(b) /\ p.before = o.before /\ SameCall(o, p) /\ p.pc = "entry"
         /\ p.cur = o.cur /\ p.first = o.first /\ p.prev = o.prev /\ p.cp = o.cp
<1>1. p \in OpsOf(b)
  BY DEF OpsOf, ToEntry
<1>2. /\ p.before = o.before /\ SameCall(o, p) /\ p.pc = "entry"
      /\ p.cur = o.cur /\ p.first = o.first /\ p.prev = o.prev /\ p.cp = o.cp
  BY DEF OpsOf, ToEntry, SameCall
<1> QED BY <1>1, <1>2

LEMMA ToNextFact ==
  ASSUME NEW o, NEW b, o \in OpsOf(b), NEW c \in Clusters, NEW p, p = ToNext(o, c)
  PROVE  /\ p \in OpsOf(b) /\ p.before = o.before /\ SameCall(o, p) /\ p.pc = o.pc
         /\ p.rel = c /\ p.first = o.first /\ p.then = o.then
<1>1. p \in OpsOf(b)
  BY DEF OpsOf, ToNext
<1>2. /\ p.before = o.before /\ SameCall(o, p) /\ p.pc = o.pc
      /\ p.rel = c /\ p.first = o.first /\ p.then = o.then
  BY DEF OpsOf, ToNext, SameCall
<1> QED BY <1>1, <1>2

LEMMA WroteFact ==
  ASSUME NEW o, NEW b, o \in OpsOf(b), NEW pc \in {"alloc", "seal", "poke"}, o.i + 1 \in 0..MaxLen, NEW p, p = Wrote(o, pc)
  PROVE  /\ p \in OpsOf(b) /\ p.before = o.before /\ p.pc = pc /\ p.i = o.i + 1
         /\ p.kind = o.kind /\ p.dir = o.dir /\ p.name = o.name /\ p.data = o.data
         /\ p.slot = o.slot /\ p.old = o.old /\ p.first = o.first /\ p.prev = o.prev /\ p.cp = o.cp
<1>1. p \in OpsOf(b)
  BY DEF OpsOf, Wrote
<1>2. /\ p.before = o.before /\ p.pc = pc /\ p.i = o.i + 1
      /\ p.kind = o.kind /\ p.dir = o.dir /\ p.name = o.name /\ p.data = o.data
      /\ p.slot = o.slot /\ p.old = o.old /\ p.first = o.first /\ p.prev = o.prev /\ p.cp = o.cp
  BY DEF OpsOf, Wrote
<1> QED BY <1>1, <1>2

LEMMA LinkStep == ASSUME IInv, Link PROVE IInv' /\ QuietStep
<1> PICK ft : ft = fat[1]
  OBVIOUS
<1> PICK dk : dk = disk
  OBVIOUS
<1> PICK o : o = op
  OBVIOUS
<1>1. /\ o \in OpsOf(o.before) /\ LinkOk(ft, dk, o) /\ Sound(ft, dk) /\ o.pc = "link"
      /\ fat \in [Copies -> Tables] /\ ft \in Tables /\ o.cp \in Copies /\ (o.cp # 1 => o.cp > 1)
      /\ o.cp = 1 => ~(o.cp > 1)
  BY Volume, CpRange DEF IInv, Typed, CallOk, Link, Sound
<1>2. /\ o.kind = "write" /\ o.i \in Nat /\ 0 < o.i /\ o.i < Pieces(o) /\ ChainOf(ft, o.first)[o.i] = o.prev
      /\ o.i \in 1..o.i /\ o.i + 1 \in 1..(o.i + 1) /\ \A k \in 1..o.i : k \in 1..(o.i + 1)
  <2>1. o.i \in Nat
    BY <1>1, IRange
  <2> QED BY <1>1, <2>1 DEF LinkOk
<1> PICK X : X = {ChainOf(ft, o.first)[k] : k \in 1..o.i} \cup {o.cur}
  OBVIOUS
<1>3. o.cur \in Clusters \ LiveOf(ft, dk) /\ o.prev \in Clusters \ LiveOf(ft, dk) /\ o.cur # o.prev
  <2>1. CASE o.cp = 1
    <3>1. Chained(ft, dk, o.first, o.i) /\ Spare(ft, dk, o)
      BY <1>1, <2>1 DEF LinkOk, Building
    <3> QED BY <1>2, <3>1, ChainedFact DEF Spare
  <2>2. CASE o.cp # 1
    <3>1. Chained(ft, dk, o.first, o.i + 1) /\ ChainOf(ft, o.first)[o.i + 1] = o.cur
      BY <1>1, <2>2 DEF LinkOk, Building
    <3>2. o.i # o.i + 1 /\ Run(ft, o.first, o.i + 1)
      BY <1>2, <3>1, ChainedFact
    <3> QED BY <1>1, <1>2, <3>1, <3>2, ChainedFact, RunInjective
  <2> QED BY <2>1, <2>2
<1>4. Freeable(ft, dk, X) /\ o.first \in X
  <2>1. CASE o.cp = 1
    <3>1. Chained(ft, dk, o.first, o.i) /\ Spare(ft, dk, o)
      BY <1>1, <2>1 DEF LinkOk, Building
    <3>2. PICK Y : /\ Y = {ChainOf(ft, o.first)[k] : k \in 1..o.i}
                   /\ Freeable(ft, dk, Y) /\ o.first \in Y \cup {0}
      BY <1>1, <3>1, ChainFreeable
    <3>3. o.first \in Clusters
      BY <1>2, <3>1, ChainedFact
    <3> QED BY <3>1, <3>2, <3>3, Volume DEF Freeable, Spare
  <2>2. CASE o.cp # 1
    <3>1. Chained(ft, dk, o.first, o.i + 1) /\ ChainOf(ft, o.first)[o.i + 1] = o.cur
      BY <1>1, <2>2 DEF LinkOk, Building
    <3>2. PICK Y : /\ Y = {ChainOf(ft, o.first)[k] : k \in 1..(o.i + 1)}
                   /\ Freeable(ft, dk, Y) /\ o.first \in Y \cup {0}
      BY <1>1, <3>1, ChainFreeable
    <3>3. o.first \in Clusters
      BY <1>2, <3>1, ChainedFact
    <3>4. \A k \in 1..(o.i + 1) : k = o.i + 1 \/ k \in 1..o.i
      BY <1>2
    <3>5. X = Y
      BY <1>2, <3>1, <3>2, <3>4
    <3> QED BY <3>2, <3>3, <3>5, Volume
  <2> QED BY <2>1, <2>2
<1> DEFINE ok == [op EXCEPT !.pc = "data", !.prev = op.cur]
<1>5. /\ \/ /\ fat' = WithEntry(fat, op.cp, op.prev, op.cur)
            /\ op' = IF op.cp = NumFats THEN [ok EXCEPT !.cp = 1] ELSE [op EXCEPT !.cp = op.cp + 1]
         \/ UNCHANGED fat /\ op' = [Release(op, op.cur, "failed") EXCEPT !.cp = 1]
      /\ UNCHANGED <<disk, fsinfo, mounted, fsDone, at, hint>>
  BY DEF Link, FatPut, WithEntry
<1>6. CASE UNCHANGED fat /\ op' = [Release(op, op.cur, "failed") EXCEPT !.cp = 1]
  <2>1. op' = Rewound(Release(o, o.cur, "failed"))
    BY <1>6 DEF Rewound
  <2>3. o.cur \in X /\ o.first \in X \cup {0} /\ o.kind \in {"write", "delete", "mkdir", "rmdir"}
    BY <1>2, <1>4
  <2>4. PICK p : p = op'
    OBVIOUS
  <2>5. PICK w : w = "failed"
    OBVIOUS
  <2>6. /\ p = Release(o, o.cur, w) \/ p = Rewound(Release(o, o.cur, w))
        /\ w \in {"ok", "fail", "failed"} /\ (w = "failed" => o.first \in X \cup {0})
        /\ o.cur \in X \/ o.cur \notin Clusters
    BY <2>1, <2>3, <2>4, <2>5
  <2>7. o \in OpsOf(o.before) /\ Freeable(ft, dk, X) /\ o.kind \in {"write", "delete", "mkdir", "rmdir"}
    BY <1>1, <1>4, <2>3
  <2>8. p \in OpsOf(p.before) /\ CallOk(ft, dk, p)
    BY ONLY <2>6, <2>7, ReleaseMakes
  <2>2. op' \in OpsOf(op'.before) /\ CallOk(ft, dk, op')
    BY <2>4, <2>8
  <2> QED BY <1>1, <1>5, <1>6, <2>2, StillQuiet DEF IInv, Typed
<1>7. CASE /\ fat' = WithEntry(fat, op.cp, op.prev, op.cur)
           /\ op' = IF op.cp = NumFats THEN [ok EXCEPT !.cp = 1] ELSE [op EXCEPT !.cp = op.cp + 1]
  <2>1. PICK gt : gt = fat'[1]
    OBVIOUS
  <2>2. /\ fat' \in [Copies -> Tables] /\ gt \in Tables
        /\ o.cp = 1 => gt[o.prev] = o.cur /\ \A k \in Clusters : k # o.prev => gt[k] = ft[k]
        /\ o.cp # 1 => gt = ft
    BY <1>1, <1>3, <1>7, <2>1, WithEntryFact
  <2>3. /\ Sound(gt, dk) /\ Quiet(ft, dk, gt, dk) /\ Building(gt, dk, o, o.i + 1)
        /\ ChainOf(gt, o.first)[o.i + 1] = o.cur /\ ChainOf(gt, o.first)[o.i] = o.prev
    <3>1. CASE o.cp = 1
      <4>1. Building(ft, dk, o, o.i) /\ Chained(ft, dk, o.first, o.i) /\ Spare(ft, dk, o)
        BY <1>1, <3>1 DEF LinkOk, Building
      <4>2. /\ Chained(gt, dk, o.first, o.i + 1) /\ ChainOf(gt, o.first)[o.i + 1] = o.cur
            /\ \A k \in 1..o.i : ChainOf(gt, o.first)[k] = ChainOf(ft, o.first)[k]
        BY <1>1, <1>2, <1>3, <2>2, <3>1, <4>1, ChainedLink DEF Spare
      <4>3. \A x \in LiveOf(ft, dk) : gt[x] = ft[x]
        BY <1>3, <2>2, <3>1, LiveUp
      <4>4. Sound(gt, dk) /\ Quiet(ft, dk, gt, dk)
        BY <1>1, <2>2, <4>3, FatQuiet
      <4>5. SameCall(o, o) /\ o.i <= o.i + 1
        BY <1>2 DEF SameCall
      <4>6. Building(gt, dk, o, o.i + 1)
        BY <1>1, <4>1, <4>2, <4>4, <4>5, BuildingKeep
      <4> QED BY <1>2, <4>2, <4>4, <4>6
    <3>2. CASE o.cp # 1
      BY <1>1, <1>2, <2>2, <3>2, FatQuiet DEF LinkOk
    <3> QED BY <3>1, <3>2
  <2>4. QuietStep
    BY <1>5, <2>1, <2>3 DEF QuietStep
  <2>5. PICK p : p = op'
    OBVIOUS
  <2>6. p \in OpsOf(p.before) /\ CallOk(gt, dk, p)
    <3>1. CASE op.cp # NumFats
      <4>1. p = Onward(o, o.cp + 1) /\ o.cp + 1 \in Copies /\ o.cp + 1 > 1
        BY <1>1, <1>7, <2>5, <3>1, CpRange DEF Onward
      <4>2. /\ p \in OpsOf(o.before) /\ p.before = o.before /\ SameCall(o, p) /\ p.cp = o.cp + 1 /\ p.pc = o.pc
            /\ p.cur = o.cur /\ p.first = o.first /\ p.prev = o.prev
        BY SMTT(30), <1>1, <4>1, OnwardFact
      <4>3. Building(gt, dk, p, p.i + 1) /\ p.i = o.i /\ p.kind = o.kind /\ Pieces(p) = Pieces(o)
        BY <2>3, <4>2 DEF Building, Target, SameCall, Pieces
      <4>4. ~(p.cp = 1)
        BY <4>1, <4>2
      <4>5. LinkOk(gt, dk, p)
        BY <1>2, <2>3, <4>2, <4>3, <4>4 DEF LinkOk
      <4> QED BY <1>1, <4>2, <4>5 DEF CallOk
    <3>2. CASE op.cp = NumFats
      <4>1. p = Onward(ToWrite(o), 1) /\ 1 \in Copies
        BY <1>1, <1>7, <2>5, <3>2, CpRange DEF Onward, ToWrite
      <4>2. PICK q : q = ToWrite(o)
        OBVIOUS
      <4>3. /\ q \in OpsOf(o.before) /\ q.before = o.before /\ SameCall(o, q) /\ q.pc = "data"
            /\ q.cur = o.cur /\ q.first = o.first /\ q.prev = o.cur
        BY <1>1, <1>3, <4>2, ToWriteFact
      <4>4. /\ p \in OpsOf(o.before) /\ p.before = q.before /\ SameCall(q, p) /\ p.cp = 1 /\ p.pc = q.pc
            /\ p.cur = q.cur /\ p.first = q.first /\ p.prev = q.prev
        BY <4>1, <4>2, <4>3, OnwardFact
      <4>5. SameCall(o, p) /\ p.first = o.first /\ p.prev = o.cur /\ p.cur = o.cur /\ p.pc = "data"
        BY <4>3, <4>4 DEF SameCall
      <4>6. Building(gt, dk, p, p.i + 1) /\ p.i = o.i /\ Pieces(p) = Pieces(o)
        BY <2>3, <4>5 DEF Building, Target, SameCall, Pieces
      <4>7. DataOk(gt, dk, p)
        BY <1>2, <2>3, <4>4, <4>5, <4>6 DEF DataOk
      <4> QED BY <4>3, <4>4, <4>5, <4>7 DEF CallOk
    <3> QED BY <3>1, <3>2
  <2> QED BY <1>5, <2>1, <2>2, <2>3, <2>4, <2>5, <2>6 DEF IInv, Typed
<1> QED BY <1>5, <1>6, <1>7

LEMMA SealStep == ASSUME IInv, Seal PROVE IInv' /\ QuietStep
<1> PICK ft : ft = fat[1]
  OBVIOUS
<1> PICK dk : dk = disk
  OBVIOUS
<1> PICK o : o = op
  OBVIOUS
<1>1. /\ o \in OpsOf(o.before) /\ SealOk(ft, dk, o) /\ Sound(ft, dk) /\ o.pc = "seal"
      /\ fat \in [Copies -> Tables] /\ ft \in Tables /\ o.cp \in Copies /\ o.i \in Nat
  BY Volume, CpRange, IRange DEF IInv, Typed, CallOk, Seal, Sound
<1>2. /\ o.kind = "write" /\ Building(ft, dk, o, o.i) /\ Chained(ft, dk, o.first, o.i)
      /\ o.i > 0 /\ o.i = Pieces(o) /\ ChainOf(ft, o.first)[o.i] = o.prev
  BY <1>1 DEF SealOk, Building
<1>3. o.prev \in Clusters /\ ft[o.prev] = EOC
  <2>1. o.i \in 1..o.i
    BY <1>1, <1>2
  <2> QED BY <1>2, <2>1, ChainedFact
<1> DEFINE ok == [op EXCEPT !.pc = "entry"]
<1>4. /\ \/ /\ fat' = WithEntry(fat, op.cp, op.prev, EOC)
            /\ op' = IF op.cp = NumFats THEN [ok EXCEPT !.cp = 1] ELSE [op EXCEPT !.cp = op.cp + 1]
         \/ UNCHANGED fat /\ op' = [Failed(op) EXCEPT !.cp = 1]
      /\ UNCHANGED <<disk, fsinfo, mounted, fsDone, at, hint>>
  BY DEF Seal, FatPut, WithEntry
<1>5. CASE UNCHANGED fat /\ op' = [Failed(op) EXCEPT !.cp = 1]
  <2>1. op' = Rewound(Failed(o))
    BY <1>5 DEF Rewound
  <2>2. op' \in OpsOf(op'.before) /\ CallOk(ft, dk, op')
    BY <1>1, <1>2, <2>1, FailedMakes
  <2> QED BY <1>1, <1>4, <1>5, <2>2, StillQuiet DEF IInv, Typed
<1>6. CASE /\ fat' = WithEntry(fat, op.cp, op.prev, EOC)
           /\ op' = IF op.cp = NumFats THEN [ok EXCEPT !.cp = 1] ELSE [op EXCEPT !.cp = op.cp + 1]
  <2>1. PICK gt : gt = fat'[1]
    OBVIOUS
  <2>2. fat' \in [Copies -> Tables] /\ gt \in Tables /\ \A k \in Clusters : gt[k] = ft[k]
    <3>1. EOC \in {FREE, EOC} \cup Clusters
      OBVIOUS
    <3>2. /\ fat' \in [Copies -> Tables] /\ fat'[1] \in Tables
          /\ op.cp = 1 => fat'[1][op.prev] = EOC /\ \A k \in Clusters : k # op.prev => fat'[1][k] = fat[1][k]
          /\ op.cp # 1 => fat'[1] = fat[1]
      BY <1>1, <1>3, <1>6, <3>1, WithEntryFact
    <3> QED BY <1>3, <2>1, <3>2
  <2>3. gt = ft
    BY <1>1, <2>2 DEF Tables
  <2>4. Quiet(ft, dk, gt, dk)
    BY <2>3 DEF Quiet
  <2>5. PICK p : p = op'
    OBVIOUS
  <2>6. p \in OpsOf(p.before) /\ CallOk(ft, dk, p)
    <3>1. CASE op.cp # NumFats
      <4>1. p = Onward(o, o.cp + 1) /\ o.cp + 1 \in Copies
        BY <1>1, <1>6, <2>5, <3>1, CpRange DEF Onward
      <4>2. /\ p \in OpsOf(o.before) /\ p.before = o.before /\ SameCall(o, p) /\ p.pc = o.pc
            /\ p.first = o.first /\ p.prev = o.prev
        BY SMTT(30), <1>1, <4>1, OnwardFact
      <4>3. Building(ft, dk, p, p.i) /\ p.i = o.i /\ p.kind = o.kind /\ Pieces(p) = Pieces(o)
        BY <1>2, <4>2 DEF Building, Target, SameCall, Pieces
      <4>4. SealOk(ft, dk, p)
        BY <1>2, <4>2, <4>3 DEF SealOk
      <4> QED BY <1>1, <4>2, <4>4 DEF CallOk
    <3>2. CASE op.cp = NumFats
      <4>1. p = Onward(ToEntry(o), 1) /\ 1 \in Copies
        BY <1>1, <1>6, <2>5, <3>2, CpRange DEF Onward, ToEntry
      <4>2. PICK q : q = ToEntry(o)
        OBVIOUS
      <4>3. /\ q \in OpsOf(o.before) /\ q.before = o.before /\ SameCall(o, q) /\ q.pc = "entry"
            /\ q.first = o.first
        BY <1>1, <4>2, ToEntryFact
      <4>4. /\ p \in OpsOf(o.before) /\ p.before = q.before /\ SameCall(q, p) /\ p.pc = q.pc
            /\ p.first = q.first
        BY <4>1, <4>2, <4>3, OnwardFact
      <4>5. SameCall(o, p) /\ p.first = o.first /\ p.pc = "entry" /\ p.kind = "write"
        BY <1>2, <4>3, <4>4 DEF SameCall
      <4>6. Building(ft, dk, p, Pieces(p)) /\ p.i = Pieces(p) /\ Target(dk, p)
        BY <1>2, <4>5 DEF Building, Target, SameCall, Pieces
      <4>7. EntryOk(ft, dk, p)
        BY <4>5, <4>6 DEF EntryOk
      <4> QED BY <4>3, <4>4, <4>5, <4>7 DEF CallOk
    <3> QED BY <3>1, <3>2
  <2> QED BY <1>1, <1>4, <2>1, <2>2, <2>3, <2>4, <2>5, <2>6 DEF IInv, Typed, QuietStep
<1> QED BY <1>4, <1>5, <1>6

LEMMA FreeStep == ASSUME IInv, ReleaseStep PROVE IInv' /\ QuietStep
<1> PICK ft : ft = fat[1]
  OBVIOUS
<1> PICK dk : dk = disk
  OBVIOUS
<1> PICK o : o = op
  OBVIOUS
<1>1. /\ o \in OpsOf(o.before) /\ ReleaseOk(ft, dk, o) /\ Sound(ft, dk) /\ o.pc = "release"
      /\ fat \in [Copies -> Tables] /\ ft \in Tables /\ o.cp \in Copies /\ (o.cp # 1 => o.cp > 1)
      /\ o.kind \in {"write", "delete", "mkdir", "rmdir"} /\ o.then \in {"ok", "fail", "failed"} /\ o.cur \in Nat
      /\ ~(o.cp > 1) => o.cp = 1
  <2>1. /\ o \in OpsOf(o.before) /\ ReleaseOk(ft, dk, o) /\ Sound(ft, dk) /\ o.pc = "release"
        /\ fat \in [Copies -> Tables]
    BY DEF IInv, Typed, CallOk, ReleaseStep
  <2>2. o.cur \in Nat
    BY <2>1 DEF OpsOf
  <2>3. o.cp \in Copies /\ (o.cp # 1 => o.cp > 1) /\ (~(o.cp > 1) => o.cp = 1) /\ 1 \in Copies
    BY <2>1, CpRange
  <2>4. o.kind \in {"write", "delete", "mkdir", "rmdir"} /\ o.then \in {"ok", "fail", "failed"}
    BY <2>1 DEF ReleaseOk
  <2> QED BY <2>1, <2>2, <2>3, <2>4
<1>2. PICK X \in SUBSET Clusters :
        /\ Freeable(ft, dk, X) /\ o.rel \in X
        /\ o.then = "failed" => o.first \in X \cup {0}
        /\ o.cp > 1 /\ o.cur \in Clusters => o.cur \in X
  BY <1>1 DEF ReleaseOk
<1>3. o.rel \in Clusters \ LiveOf(ft, dk) /\ ft[o.rel] \in {FREE, EOC} \cup Clusters
  BY <1>1, <1>2 DEF Freeable, Tables
<1>4. PICK next \in IF op.cp > 1 THEN {op.cur}
                    ELSE {fat[1][op.rel]} \cup (IF ReadErrors THEN {EOC} ELSE {}) :
        FatPut(op.rel, FREE, [op EXCEPT !.cur = next],
               IF next \in Clusters THEN [op EXCEPT !.rel = next] ELSE AfterRelease(op, op.then),
               AfterRelease(op, op.then))
  BY DEF ReleaseStep
<1>5. next \in Nat /\ (next \in Clusters => next \in X)
  <2>1. CASE op.cp > 1
    BY <1>1, <1>2, <1>4, <2>1
  <2>2. CASE ~(op.cp > 1)
    <3>1. next = ft[o.rel] \/ next = EOC
      BY <1>4, <2>2
    <3>2. next \in {FREE, EOC} \cup Clusters
      BY <1>3, <3>1
    <3>3. next \in Nat
      BY <3>2, Volume
    <3>4. next \in Clusters => next = ft[o.rel]
      BY <3>1, Volume
    <3> QED BY <1>2, <3>3, <3>4 DEF Freeable
  <2> QED BY <2>1, <2>2
<1> DEFINE ok == IF next \in Clusters THEN [op EXCEPT !.rel = next] ELSE AfterRelease(op, op.then)
<1>6. /\ \/ /\ fat' = WithEntry(fat, op.cp, op.rel, FREE)
            /\ op' = IF op.cp = NumFats THEN [ok EXCEPT !.cp = 1] ELSE [[op EXCEPT !.cur = next] EXCEPT !.cp = op.cp + 1]
         \/ UNCHANGED fat /\ op' = [AfterRelease(op, op.then) EXCEPT !.cp = 1]
      /\ UNCHANGED <<disk, fsinfo, mounted, fsDone, at, hint>>
  BY <1>4 DEF ReleaseStep, FatPut, WithEntry
<1>7. PICK gt : gt = fat'[1]
  OBVIOUS
<1>8. /\ fat' \in [Copies -> Tables] /\ gt \in Tables /\ (gt[o.rel] = FREE \/ gt[o.rel] = ft[o.rel])
      /\ \A k \in Clusters : k # o.rel => gt[k] = ft[k]
  <2>1. CASE UNCHANGED fat
    BY <1>1, <1>7, <2>1
  <2>2. CASE fat' = WithEntry(fat, op.cp, op.rel, FREE)
    <3>1. FREE \in {FREE, EOC} \cup Clusters
      OBVIOUS
    <3>2. /\ fat' \in [Copies -> Tables] /\ fat'[1] \in Tables
          /\ op.cp = 1 => fat'[1][op.rel] = FREE /\ \A k \in Clusters : k # op.rel => fat'[1][k] = fat[1][k]
          /\ op.cp # 1 => fat'[1] = fat[1]
      BY <1>1, <1>3, <2>2, <3>1, WithEntryFact
    <3> QED BY <1>7, <3>2
  <2> QED BY <1>6, <2>1, <2>2
<1>9. Sound(gt, dk) /\ Quiet(ft, dk, gt, dk) /\ LiveOf(gt, dk) = LiveOf(ft, dk)
  <2>1. \A x \in LiveOf(ft, dk) : gt[x] = ft[x]
    BY <1>3, <1>8, LiveUp
  <2> QED BY <1>1, <1>8, <2>1, FatQuiet DEF Quiet
<1>10. Freeable(gt, dk, X)
  BY <1>2, <1>8, <1>9, Volume DEF Freeable
<1> PICK p : p = op'
  OBVIOUS
<1>11. ASSUME p = Rewound(AfterRelease(o, o.then)) PROVE p \in OpsOf(p.before) /\ CallOk(gt, dk, p)
  <2>1. p = Rewound(Release(o, 0, o.then)) /\ 0 \notin Clusters
    BY <1>11, Volume DEF Release
  <2> QED BY <1>1, <1>2, <1>10, <2>1, ReleaseMakes
<1>12. p \in OpsOf(p.before) /\ CallOk(gt, dk, p)
  <2>1. CASE UNCHANGED fat /\ op' = [AfterRelease(op, op.then) EXCEPT !.cp = 1]
    BY <1>11, <2>1 DEF Rewound
  <2>2. CASE op.cp = NumFats /\ next \notin Clusters /\ op' = [ok EXCEPT !.cp = 1]
    BY <1>11, <2>2 DEF Rewound
  <2>3. CASE op.cp = NumFats /\ next \in Clusters /\ op' = [ok EXCEPT !.cp = 1]
    <3>1. p = Onward(ToNext(o, next), 1) /\ 1 \in Copies
      BY <1>1, <2>3, CpRange DEF Onward, ToNext
    <3>2. PICK q : q = ToNext(o, next)
      OBVIOUS
    <3>3. /\ q \in OpsOf(o.before) /\ q.before = o.before /\ SameCall(o, q) /\ q.pc = o.pc
          /\ q.rel = next /\ q.first = o.first /\ q.then = o.then
      BY <1>1, <2>3, <3>2, ToNextFact
    <3>4. /\ p \in OpsOf(o.before) /\ p.before = q.before /\ SameCall(q, p) /\ p.pc = q.pc /\ p.cp = 1
          /\ p.rel = q.rel /\ p.first = q.first /\ p.then = q.then
      BY <3>1, <3>2, <3>3, OnwardFact
    <3>5. /\ p.kind = o.kind /\ p.pc = "release" /\ p.rel \in X /\ p.first = o.first /\ p.then = o.then
          /\ ~(p.cp > 1)
      BY <1>1, <1>5, <2>3, <3>3, <3>4 DEF SameCall
    <3>6. ReleaseOk(gt, dk, p)
      BY <1>1, <1>2, <1>10, <3>5 DEF ReleaseOk
    <3> QED BY <3>3, <3>4, <3>5, <3>6 DEF CallOk
  <2>4. CASE op.cp # NumFats /\ op' = [[op EXCEPT !.cur = next] EXCEPT !.cp = op.cp + 1]
    <3>1. p = Onward(Taken(o, next), o.cp + 1) /\ o.cp + 1 \in Copies
      BY <1>1, <2>4, CpRange DEF Onward, Taken
    <3>2. PICK q : q = Taken(o, next)
      OBVIOUS
    <3>3. /\ q \in OpsOf(o.before) /\ q.before = o.before /\ SameCall(o, q) /\ q.pc = o.pc
          /\ q.rel = o.rel /\ q.first = o.first /\ q.then = o.then /\ q.cur = next
      BY <1>1, <1>5, <3>2, TakenFact
    <3>4. /\ p \in OpsOf(o.before) /\ p.before = q.before /\ SameCall(q, p) /\ p.pc = q.pc
          /\ p.rel = q.rel /\ p.first = q.first /\ p.then = q.then /\ p.cur = q.cur
      BY <3>1, <3>2, <3>3, OnwardFact
    <3>5. /\ p.kind = o.kind /\ p.pc = "release" /\ p.rel \in X /\ p.first = o.first /\ p.then = o.then
          /\ p.cur \in Clusters => p.cur \in X
      BY <1>1, <1>2, <1>5, <3>3, <3>4 DEF SameCall
    <3>6. ReleaseOk(gt, dk, p)
      BY <1>1, <1>2, <1>10, <3>5 DEF ReleaseOk
    <3> QED BY <3>3, <3>4, <3>5, <3>6 DEF CallOk
  <2> QED BY <1>6, <2>1, <2>2, <2>3, <2>4
<1> QED BY <1>1, <1>6, <1>7, <1>8, <1>9, <1>12 DEF IInv, Typed, QuietStep

LEMMA DataFact ==
  ASSUME NEW x \in Contents
  PROVE  Len(x) \in Nat /\ Len(x) <= MaxLen /\ \A k \in 1..Len(x) : x[k] \in Payloads
<1>1. PICK n \in 0..MaxLen : x \in [1..n -> Payloads]
  BY DEF Contents
<1>2. n \in Nat /\ n <= MaxLen
  BY <1>1, Volume
<1>3. x \in Seq(Payloads) /\ Len(x) = n
  BY <1>1, <1>2
<1> QED BY <1>1, <1>2, <1>3

LEMMA DataStep == ASSUME IInv, WriteData PROVE IInv' /\ QuietStep
<1> PICK ft : ft = fat[1]
  OBVIOUS
<1> PICK dk : dk = disk
  OBVIOUS
<1> PICK o : o = op
  OBVIOUS
<1>1. /\ o \in OpsOf(o.before) /\ DataOk(ft, dk, o) /\ Sound(ft, dk) /\ o.pc = "data"
      /\ ft \in Tables /\ o.i \in Nat /\ o.data \in Contents /\ o.i <= MaxLen
  BY Volume, IRange DEF IInv, Typed, CallOk, WriteData, Sound
<1>2. /\ Building(ft, dk, o, o.i + 1) /\ o.i < Pieces(o) /\ ChainOf(ft, o.first)[o.i + 1] = o.cur
      /\ o.prev = o.cur /\ o.cp = 1 /\ Chained(ft, dk, o.first, o.i + 1) /\ o.kind \in {"write", "mkdir"}
      /\ o.kind = "mkdir" => o.i = 0
      /\ \A k \in 1..o.i : dk[ChainOf(ft, o.first)[k]] = o.data[k]
  BY <1>1 DEF DataOk, Building
<1>3. CASE op' = Failed(op) /\ UNCHANGED disk
  <2>1. op' \in OpsOf(op'.before) /\ CallOk(ft, dk, op')
    BY <1>1, <1>2, <1>3, FailedMakes
  <2> QED BY <1>1, <1>3, <2>1, StillQuiet DEF IInv, Typed, WriteData, memVars
<1>4. ASSUME ~(op' = Failed(op) /\ UNCHANGED disk) PROVE IInv' /\ QuietStep
  <2>1. PICK v : v = IF op.kind = "mkdir" THEN EmptyDir ELSE op.data[op.i + 1]
    OBVIOUS
  <2>2. v \in Payloads \cup DirSectors
    <3>1. CASE op.kind = "mkdir"
      BY <2>1, <3>1, NoEntryFact
    <3>2. CASE op.kind # "mkdir"
      <4>1. o.i + 1 \in 1..Len(o.data)
        BY <1>1, <1>2, <3>2, DataFact DEF Pieces
      <4> QED BY <1>1, <2>1, <3>2, <4>1, DataFact
    <3> QED BY <3>1, <3>2
  <2>3. PICK ek : ek = disk'
    OBVIOUS
  <2>4. /\ ek = With(dk, o.cur, v)
        /\ op' = IF op.kind = "mkdir" THEN [op EXCEPT !.pc = "entry"]
                 ELSE [op EXCEPT !.i = @ + 1, !.pc = IF op.i + 1 < Len(op.data) THEN "alloc" ELSE "seal"]
        /\ UNCHANGED <<fat, fsinfo, mounted, fsDone, hint, at>>
    BY <1>4, <2>1, <2>3 DEF WriteData, memVars, With
  <2>5. /\ o.i + 1 \in 1..(o.i + 1) /\ Run(ft, o.first, o.i + 1) /\ o.i + 1 > 0
        /\ \A k \in 1..o.i : k \in 1..(o.i + 1) /\ k # o.i + 1
    BY <1>1, <1>2, ChainedFact
  <2>6. o.cur \in Clusters \ LiveOf(ft, dk)
    BY <1>2, <2>5, ChainedFact
  <2>7. /\ ek \in Disks /\ Sound(ft, ek) /\ Quiet(ft, dk, ft, ek)
        /\ ek[o.cur] = v /\ \A x \in Clusters \cup {Root} : x # o.cur => ek[x] = dk[x]
    BY <1>1, <2>2, <2>4, <2>6, DiskQuiet
  <2>8. \A k \in 1..o.i : ek[ChainOf(ft, o.first)[k]] = dk[ChainOf(ft, o.first)[k]]
    <3>1. \A k \in 1..o.i : ChainOf(ft, o.first)[k] # o.cur
      BY <1>1, <1>2, <2>5, RunInjective
    <3>2. \A k \in 1..o.i : ChainOf(ft, o.first)[k] \in Clusters
      BY <1>2, <2>5, ChainedFact
    <3> QED BY <2>7, <3>1, <3>2
  <2>9. Chained(ft, ek, o.first, o.i + 1) /\ Target(ek, o)
    BY <1>1, <1>2, <2>7, ChainedDisk, TargetKeep DEF Quiet, Building
  <2>10. Building(ft, ek, o, o.i + 1)
    BY <1>1, <1>2, <2>8, <2>9 DEF Building
  <2> PICK p : p = op'
    OBVIOUS
  <2>11. p \in OpsOf(p.before) /\ CallOk(ft, ek, p)
    <3>1. CASE op.kind = "mkdir"
      <4>1. p = ToEntry(o)
        BY <2>4, <3>1 DEF ToEntry
      <4>2. /\ p \in OpsOf(o.before) /\ p.before = o.before /\ SameCall(o, p) /\ p.pc = "entry"
            /\ p.first = o.first /\ p.kind = "mkdir"
        BY <1>1, <3>1, <4>1, ToEntryFact DEF SameCall
      <4>3. Pieces(p) = 1 /\ o.i + 1 = 1
        BY <1>2, <3>1, <4>2 DEF Pieces
      <4>4. Building(ft, ek, p, Pieces(p)) /\ Target(ek, p)
        BY <2>10, <4>2, <4>3 DEF Building, Target, SameCall
      <4>5. ek[p.first] = EmptyDir
        <5>1. o.first = o.cur
          BY <1>2, <2>5, <4>3, ChainedFact
        <5> QED BY <2>1, <2>7, <3>1, <4>2, <5>1
      <4>6. EntryOk(ft, ek, p)
        BY <4>2, <4>4, <4>5 DEF EntryOk
      <4> QED BY <4>2, <4>6 DEF CallOk
    <3>2. CASE op.kind # "mkdir"
      <4>1. PICK pc : pc = IF op.i + 1 < Len(op.data) THEN "alloc" ELSE "seal"
        OBVIOUS
      <4>2. p = Wrote(o, pc) /\ pc \in {"alloc", "seal"}
        BY <2>4, <3>2, <4>1 DEF Wrote
      <4>3. Pieces(o) = Len(o.data) /\ Len(o.data) \in Nat /\ Len(o.data) <= MaxLen /\ o.kind = "write"
        BY <1>1, <1>2, <3>2, DataFact DEF Pieces
      <4>4. o.i + 1 \in 0..MaxLen /\ o.i + 1 <= Len(o.data)
        BY <1>1, <1>2, <4>3, Volume
      <4>5. /\ p \in OpsOf(o.before) /\ p.before = o.before /\ p.pc = pc /\ p.i = o.i + 1
            /\ p.kind = o.kind /\ p.dir = o.dir /\ p.name = o.name /\ p.data = o.data
            /\ p.slot = o.slot /\ p.old = o.old /\ p.first = o.first /\ p.prev = o.prev /\ p.cp = o.cp
        BY <1>1, <4>2, <4>4, WroteFact
      <4>6. \A k \in 1..p.i : ek[ChainOf(ft, p.first)[k]] = p.data[k]
        <5>1. \A k \in 1..(o.i + 1) : k = o.i + 1 \/ k \in 1..o.i
          BY <1>1
        <5>2. ek[ChainOf(ft, o.first)[o.i + 1]] = o.data[o.i + 1]
          BY <1>2, <2>1, <2>7, <3>2
        <5> QED BY <1>2, <2>8, <4>5, <5>1, <5>2
      <4>7. Target(ek, p) /\ Pieces(p) = Pieces(o)
        BY <2>9, <4>5 DEF Target, Pieces
      <4>8. Building(ft, ek, p, p.i)
        BY <1>1, <2>9, <4>3, <4>5, <4>6, <4>7 DEF Building
      <4>9. ChainOf(ft, p.first)[p.i] = p.prev /\ p.i > 0 /\ ~(p.cp > 1)
        BY <1>1, <1>2, <4>5
      <4>10. CASE pc = "alloc"
        <5>1. p.i < Pieces(p)
          BY <4>1, <4>3, <4>5, <4>7, <4>10
        <5>2. AllocOk(ft, ek, p)
          BY <4>8, <4>9, <5>1 DEF AllocOk
        <5> QED BY <4>5, <4>10, <5>2 DEF CallOk
      <4>11. CASE pc = "seal"
        <5>1. p.i = Pieces(p)
          BY <1>1, <4>1, <4>3, <4>4, <4>5, <4>7, <4>11
        <5>2. SealOk(ft, ek, p)
          BY <4>3, <4>5, <4>8, <4>9, <5>1 DEF SealOk
        <5> QED BY <4>5, <4>11, <5>2 DEF CallOk
      <4> QED BY <4>2, <4>10, <4>11
    <3> QED BY <3>1, <3>2
  <2>12. Typed'
    BY <2>3, <2>4, <2>7, <2>11 DEF IInv, Typed
  <2>13. QuietStep
    BY <2>3, <2>4, <2>7 DEF QuietStep
  <2> QED BY <2>3, <2>4, <2>7, <2>11, <2>12, <2>13 DEF IInv
<1> QED BY <1>3, <1>4
-----------------------------------------------------------------------------
(* The directory write.                                                    *)

EntryOf(o) ==
  CASE o.kind = "write" -> Entry("file", o.name, o.first, Len(o.data))
    [] o.kind = "mkdir" -> Entry("dir", o.name, o.first, 0)
    [] OTHER -> NoEntry
CellsOf(ft, e) == IF e.kind = "none" THEN {} ELSE Cells(ft, e)

LEMMA PutTwice ==
  ASSUME NEW dk \in Disks, NEW d \in Clusters \cup {Root}, dk[d] \notin Payloads, NEW s \in Slots,
         NEW e \in Entries, NEW f \in Entries
  PROVE  Put(Put(dk, d, s, f), d, s, e) = Put(dk, d, s, e)
<1> PICK mk : mk = Put(dk, d, s, f)
  OBVIOUS
<1> PICK ek : ek = Put(dk, d, s, e)
  OBVIOUS
<1> PICK hk : hk = Put(mk, d, s, e)
  OBVIOUS
<1>1. /\ mk \in Disks /\ \A x \in Clusters \cup {Root} : x # d => mk[x] = dk[x]
      /\ \A t \in Slots : t # s => mk[d][t] = dk[d][t]
      /\ \A x \in Clusters \cup {Root} : mk[x] \in Payloads <=> dk[x] \in Payloads
  BY PutFact
<1>2. /\ ek \in Disks /\ ek[d][s] = e /\ \A x \in Clusters \cup {Root} : x # d => ek[x] = dk[x]
      /\ \A t \in Slots : t # s => ek[d][t] = dk[d][t] /\ \A x \in Clusters \cup {Root} : ek[x] \in Payloads <=> dk[x] \in Payloads
  BY PutFact
<1>3. mk[d] \notin Payloads
  BY <1>1
<1>4. /\ hk \in Disks /\ hk[d][s] = e /\ \A x \in Clusters \cup {Root} : x # d => hk[x] = mk[x]
      /\ \A t \in Slots : t # s => hk[d][t] = mk[d][t]
      /\ \A x \in Clusters \cup {Root} : hk[x] \in Payloads <=> mk[x] \in Payloads
  BY <1>1, <1>3, PutFact
<1>5. ek[d] \in [Slots -> Entries] /\ hk[d] \in [Slots -> Entries]
  <2>1. ek[d] \notin Payloads /\ hk[d] \notin Payloads
    <3>1. ek[d] \in Payloads <=> dk[d] \in Payloads
      BY PutFact
    <3> QED BY <1>3, <1>4, <3>1
  <2> QED BY <1>2, <1>4, <2>1, SectorIs DEF Disks
<1>6. \A t \in Slots : hk[d][t] = ek[d][t]
  BY <1>1, <1>2, <1>4
<1>7. hk[d] = ek[d]
  BY <1>5, <1>6
<1>8. \A x \in Clusters \cup {Root} : hk[x] = ek[x]
  BY <1>1, <1>2, <1>4, <1>7
<1>9. hk = ek
  BY <1>2, <1>4, <1>8 DEF Disks
<1> QED BY <1>9

(* What the slot holds, and what it will.                                  *)
LEMMA EntryShape ==
  ASSUME NEW ft, NEW dk, Sound(ft, dk), NEW o, o \in OpsOf(o.before), EntryOk(ft, dk, o),
         NEW old, old = dk[o.dir][o.slot], NEW e, e = EntryOf(o)
  PROVE  /\ old \in Entries /\ e \in Entries /\ dk[o.dir] \notin Payloads
         /\ o.dir \in DirsOf(dk) /\ o.dir \in Clusters \cup {Root} /\ o.slot \in Slots
         /\ old.kind # "none" => At(dk, o.dir, o.slot) /\ o.old = old.first
         /\ old.kind = "none" => o.old = 0
         /\ old.kind = "dir" => o.kind = "rmdir" /\ dk[old.first] = EmptyDir
         /\ o.kind = "mkdir" => old.kind = "none"
         /\ old.kind = "none" => NewName(dk, o.dir, o.name)
         /\ old.kind # "none" => old.name = o.name
         /\ e.kind = "none" <=> o.kind \in {"delete", "rmdir"}
         /\ e.kind = "none" => e = NoEntry /\ old.kind # "none"
         /\ e.kind # "none" => /\ e.kind \in {"file", "dir"} /\ e.name = o.name /\ e.first = o.first
                               /\ Length(e) = Pieces(o) /\ Whole(ft, dk, e) /\ Length(e) \in Nat
                               /\ Cells(ft, e) \cap LiveOf(ft, dk) = {}
                               /\ Chained(ft, dk, o.first, Length(e))
         /\ e.kind = "dir" => /\ o.kind = "mkdir" /\ dk[e.first] = EmptyDir
                              /\ e.first \in Clusters \ LiveOf(ft, dk)
<1>1. Target(dk, o) /\ o.kind \in {"write", "delete", "mkdir", "rmdir"}
  BY DEF EntryOk, Target
<1>2. /\ dk[o.dir] \notin Payloads /\ o.dir \in DirsOf(dk) /\ o.dir \in Clusters \cup {Root} /\ o.slot \in Slots
      /\ dk \in Disks /\ ft \in Tables
  BY <1>1, DirsUp DEF Target, Sound
<1>3. old \in Entries /\ old.kind \in {"none", "file", "dir"}
  <2>1. dk[o.dir] \in [Slots -> Entries]
    BY <1>2, SectorIs DEF Disks
  <2>2. old \in Entries
    BY <1>2, <2>1
  <2> QED BY <2>2 DEF Entries
<1>4. /\ old.kind # "none" => At(dk, o.dir, o.slot) /\ o.old = old.first
      /\ old.kind = "none" => o.old = 0
      /\ old.kind = "dir" => o.kind = "rmdir" /\ dk[old.first] = EmptyDir
      /\ o.kind = "mkdir" => old.kind = "none"
      /\ old.kind = "none" => NewName(dk, o.dir, o.name)
      /\ old.kind # "none" => old.name = o.name
      /\ o.kind \in {"delete", "rmdir"} => old.kind # "none"
  BY <1>1, <1>2, <1>3 DEF Target, At
<1>5. CASE o.kind \in {"delete", "rmdir"}
  <2>1. e = NoEntry /\ e.kind = "none" /\ e \in Entries
    BY <1>5, NoEntryFact DEF EntryOf
  <2> QED BY <1>2, <1>3, <1>4, <1>5, <2>1
<1>6. CASE o.kind \in {"write", "mkdir"}
  <2> PICK n : n = Pieces(o)
    OBVIOUS
  <2>1. Building(ft, dk, o, n) /\ Chained(ft, dk, o.first, n) /\ n \in Nat
    BY <1>6, ChainedFact DEF EntryOk, Building
  <2>2. o.name \in Names \cup {""} /\ o.first \in Clusters \cup {0} /\ o.data \in Contents
    BY DEF OpsOf
  <2>3. /\ e.kind = (IF o.kind = "mkdir" THEN "dir" ELSE "file") /\ e.name = o.name /\ e.first = o.first
        /\ e.size = (IF o.kind = "mkdir" THEN 0 ELSE Len(o.data)) /\ e \in Entries
    <3>1. CASE o.kind = "write"
      <4>1. e = Entry("file", o.name, o.first, Len(o.data))
        BY <3>1 DEF EntryOf
      <4> PICK len : len = Len(o.data)
        OBVIOUS
      <4>2. len \in 0..MaxLen
        <5>1. len \in Nat /\ len <= MaxLen
          BY <2>2, DataFact
        <5> QED BY ONLY <5>1, Volume
      <4>3. e = [kind |-> "file", name |-> o.name, first |-> o.first, size |-> len]
        BY <4>1 DEF Entry
      <4>4. e \in Entries
        BY ONLY <2>2, <4>2, <4>3 DEF Entries
      <4> QED BY <3>1, <4>3, <4>4
    <3>2. CASE o.kind = "mkdir"
      <4>1. e = Entry("dir", o.name, o.first, 0) /\ 0 \in 0..MaxLen
        BY <3>2, Volume DEF EntryOf
      <4>3. e = [kind |-> "dir", name |-> o.name, first |-> o.first, size |-> 0]
        BY <4>1 DEF Entry
      <4> PICK z : z = 0
        OBVIOUS
      <4>4. z \in 0..MaxLen /\ e = [kind |-> "dir", name |-> o.name, first |-> o.first, size |-> z]
        BY <4>1, <4>3
      <4>5. e \in Entries
        BY ONLY <2>2, <4>4 DEF Entries
      <4> QED BY <3>2, <4>3, <4>5
    <3> QED BY <1>6, <3>1, <3>2
  <2>4. Length(e) = n
    BY <1>6, <2>3 DEF Length, Pieces
  <2>5. \A k \in 1..n : ChainOf(ft, e.first)[k] \in Clusters \ LiveOf(ft, dk)
    BY <2>1, <2>3, ChainedFact
  <2>6. Cells(ft, e) \cap LiveOf(ft, dk) = {}
    BY <2>4, <2>5 DEF Cells
  <2>7. Whole(ft, dk, e)
    <3>1. IF n = 0 THEN e.first = 0 ELSE Run(ft, e.first, n)
      BY <2>1, <2>3 DEF Chained
    <3>2. e.kind = "file" => \A k \in 1..e.size : dk[ChainOf(ft, e.first)[k]] \in Payloads
      <4> SUFFICES ASSUME e.kind = "file", NEW k \in 1..e.size
                   PROVE  dk[ChainOf(ft, e.first)[k]] \in Payloads
        OBVIOUS
      <4>1. o.kind = "write" /\ o.i = Len(o.data) /\ e.size = Len(o.data)
        BY <1>6, <2>3 DEF EntryOk, Pieces
      <4>2. dk[ChainOf(ft, e.first)[k]] = o.data[k]
        BY <2>1, <2>3, <4>1 DEF Building
      <4> QED BY <2>2, <4>1, <4>2, DataFact
    <3> QED BY <2>4, <3>1, <3>2 DEF Whole
  <2>8. e.kind = "dir" => o.kind = "mkdir" /\ dk[e.first] = EmptyDir /\ e.first \in Clusters \ LiveOf(ft, dk)
    <3> SUFFICES ASSUME e.kind = "dir" PROVE o.kind = "mkdir" /\ dk[e.first] = EmptyDir /\ e.first \in Clusters \ LiveOf(ft, dk)
      OBVIOUS
    <3>1. o.kind = "mkdir" /\ n = 1
      BY <2>3 DEF Pieces
    <3>2. 1 \in 1..n /\ ChainOf(ft, e.first)[1] = e.first
      BY <3>1, ChainStep
    <3>3. dk[e.first] = EmptyDir
      BY <2>3, <3>1 DEF EntryOk
    <3> QED BY <2>5, <3>1, <3>2, <3>3
  <2> QED BY <1>2, <1>3, <1>4, <1>6, <2>1, <2>3, <2>4, <2>6, <2>7, <2>8
<1> QED BY <1>1, <1>5, <1>6

LEMMA EntryPut ==
  ASSUME NEW ft, NEW dk, Sound(ft, dk), NEW o, o \in OpsOf(o.before), EntryOk(ft, dk, o),
         NEW old, old = dk[o.dir][o.slot], NEW e, e = EntryOf(o),
         NEW ek, ek = Put(dk, o.dir, o.slot, e)
  PROVE  /\ Sound(ft, ek)
         /\ LiveOf(ft, ek) = (LiveOf(ft, dk) \ CellsOf(ft, old)) \cup CellsOf(ft, e)
         /\ DirsOf(ek) = (DirsOf(dk) \ OwnDir(old)) \cup OwnDir(e)
<1> PICK d : d = o.dir
  OBVIOUS
<1> PICK s : s = o.slot
  OBVIOUS
<1>1. /\ old \in Entries /\ e \in Entries /\ dk[d] \notin Payloads
      /\ d \in DirsOf(dk) /\ d \in Clusters \cup {Root} /\ s \in Slots
      /\ old.kind # "none" => At(dk, d, s) /\ o.old = old.first
      /\ old.kind = "dir" => o.kind = "rmdir" /\ dk[old.first] = EmptyDir
      /\ o.kind = "mkdir" => old.kind = "none"
      /\ e.kind = "none" <=> o.kind \in {"delete", "rmdir"}
      /\ e.kind = "none" => e = NoEntry /\ old.kind # "none"
      /\ e.kind # "none" => /\ e.kind \in {"file", "dir"}
                            /\ Whole(ft, dk, e) /\ Length(e) \in Nat
                            /\ Cells(ft, e) \cap LiveOf(ft, dk) = {}
      /\ e.kind = "dir" => /\ o.kind = "mkdir" /\ dk[e.first] = EmptyDir
                           /\ e.first \in Clusters \ LiveOf(ft, dk)
  BY EntryShape
<1>2. dk \in Disks /\ ft \in Tables
  BY DEF Sound
<1>3. CASE old.kind = "none"
  <2>1. e.kind # "none" /\ CellsOf(ft, old) = {} /\ OwnDir(old) = {} /\ CellsOf(ft, e) = Cells(ft, e)
    BY <1>1, <1>3 DEF CellsOf, OwnDir
  <2>2. Sound(ft, ek) /\ LiveOf(ft, ek) = LiveOf(ft, dk) \cup Cells(ft, e)
    BY <1>1, <1>3, <2>1, AddFact
  <2>3. DirsOf(ek) = DirsOf(dk) \cup OwnDir(e)
    BY <1>1, <1>3, <2>1, AddDirs
  <2> QED BY <2>1, <2>2, <2>3
<1>4. CASE old.kind # "none" /\ e.kind = "none"
  <2>1. CellsOf(ft, e) = {} /\ OwnDir(e) = {} /\ CellsOf(ft, old) = Cells(ft, old)
    BY <1>4 DEF CellsOf, OwnDir
  <2>2. Sound(ft, ek) /\ LiveOf(ft, ek) = LiveOf(ft, dk) \ Cells(ft, old)
    BY <1>1, <1>4, RemoveFact
  <2>3. DirsOf(ek) = DirsOf(dk) \ OwnDir(old)
    BY <1>1, <1>4, RemoveDirs
  <2> QED BY <2>1, <2>2, <2>3
<1>5. CASE old.kind # "none" /\ e.kind # "none"
  <2>0. old.kind # "dir" /\ e.kind = "file" /\ OwnDir(old) = {} /\ OwnDir(e) = {}
    BY <1>1, <1>5 DEF OwnDir
  <2> PICK mk : mk = Put(dk, d, s, NoEntry)
    OBVIOUS
  <2>1. Sound(ft, mk) /\ LiveOf(ft, mk) = LiveOf(ft, dk) \ Cells(ft, old)
    BY <1>1, <1>5, RemoveFact
  <2>2. DirsOf(mk) = DirsOf(dk) /\ d \in DirsOf(mk)
    <3>1. DirsOf(mk) = DirsOf(dk) \ OwnDir(old) /\ d \in DirsOf(mk)
      BY <1>1, <1>5, RemoveDirs
    <3> QED BY <2>0, <3>1
  <2>3. /\ mk[d][s] = NoEntry
        /\ \A x \in Clusters \cup {Root} : mk[x] \in Payloads <=> dk[x] \in Payloads
    BY <1>1, <1>2, PutFact, NoEntryFact
  <2>4. Whole(ft, mk, e)
    <3>1. \A k \in 1..e.size : ChainOf(ft, e.first)[k] \in Clusters
      <4>1. Cells(ft, e) \subseteq Clusters /\ Length(e) = e.size
        BY <1>1, <1>2, <1>5, <2>0, CellsFact DEF Length
      <4> QED BY <4>1 DEF Cells
    <3> QED BY <1>1, <1>5, <2>3, <3>1 DEF Whole
  <2>5. Cells(ft, e) \cap LiveOf(ft, mk) = {}
    BY <1>1, <1>5, <2>1
  <2>6. ek = Put(mk, d, s, e)
    BY <1>1, <1>2, PutTwice, NoEntryFact
  <2>7. mk[d][s].kind = "none" /\ e.kind \in {"file", "dir"} /\ e.kind # "dir"
    BY <2>0, <2>3, NoEntryFact
  <2>8. Sound(ft, ek) /\ LiveOf(ft, ek) = LiveOf(ft, mk) \cup Cells(ft, e)
    BY <1>1, <2>1, <2>2, <2>4, <2>5, <2>6, <2>7, AddFact
  <2>9. DirsOf(ek) = DirsOf(mk) \cup OwnDir(e)
    BY <1>1, <2>1, <2>2, <2>6, <2>7, AddDirs
  <2> QED BY <1>5, <2>0, <2>1, <2>2, <2>8, <2>9 DEF CellsOf
<1> QED BY <1>3, <1>4, <1>5

LEMMA EntryStep == ASSUME IInv, WriteEntry PROVE IInv'
<1> PICK ft : ft = fat[1]
  OBVIOUS
<1> PICK dk : dk = disk
  OBVIOUS
<1> PICK o : o = op
  OBVIOUS
<1>1. /\ o \in OpsOf(o.before) /\ EntryOk(ft, dk, o) /\ Sound(ft, dk) /\ o.pc = "entry"
      /\ ft \in Tables /\ Target(dk, o)
  BY DEF IInv, Typed, CallOk, WriteEntry, Sound, EntryOk
<1>2. UNCHANGED <<fat, fsinfo, mounted, fsDone, hint, at>>
  BY DEF WriteEntry, memVars
<1> PICK p : p = op'
  OBVIOUS
<1>3. CASE p = Done(op, 0) /\ UNCHANGED disk
  <2>1. 0 \in 0..(MaxLen + 1)
    BY Volume
  <2>2. p \in OpsOf(p.before) /\ CallOk(ft, dk, p)
    BY <1>1, <1>3, <2>1, DoneFact, DoneOk
  <2> QED BY <1>1, <1>2, <1>3, <2>2 DEF IInv, Typed
<1>4. CASE p = Failed(op) /\ op.kind \in {"write", "mkdir"} /\ UNCHANGED disk
  <2>1. Chained(ft, dk, o.first, Pieces(o))
    BY <1>1, <1>4 DEF EntryOk, Building
  <2>2. p \in OpsOf(p.before) /\ CallOk(ft, dk, p)
    BY <1>1, <1>4, <2>1, FailedMakes
  <2> QED BY <1>1, <1>2, <1>4, <2>2 DEF IInv, Typed
<1>5. CASE disk' = [disk EXCEPT ![op.dir][op.slot] = NewEntry] /\ p = Release(op, op.old, "ok")
  <2> PICK old : old = dk[o.dir][o.slot]
    OBVIOUS
  <2> PICK e : e = EntryOf(o)
    OBVIOUS
  <2> PICK ek : ek = disk'
    OBVIOUS
  <2>1. ek = Put(dk, o.dir, o.slot, e)
    BY <1>5 DEF Put, NewEntry, EntryOf, FileEntry
  <2>2. /\ Sound(ft, ek)
        /\ LiveOf(ft, ek) = (LiveOf(ft, dk) \ CellsOf(ft, old)) \cup CellsOf(ft, e)
    BY <1>1, <2>1, EntryPut
  <2>3. /\ old.kind # "none" => At(dk, o.dir, o.slot) /\ o.old = old.first
        /\ old.kind = "none" => o.old = 0
        /\ e.kind # "none" => Cells(ft, e) \cap LiveOf(ft, dk) = {}
    BY <1>1, EntryShape
  <2> PICK X : X = CellsOf(ft, old)
    OBVIOUS
  <2>4. Freeable(ft, ek, X) /\ (o.old \in X \/ o.old \notin Clusters)
    <3>1. CASE old.kind = "none"
      BY <2>3, <3>1, Volume DEF CellsOf, Freeable
    <3>2. CASE old.kind # "none"
      <4>1. At(dk, o.dir, o.slot) /\ X = Cells(ft, old)
        BY <2>3, <3>2 DEF CellsOf
      <4>2. Whole(ft, dk, old) /\ Length(old) \in Nat /\ X \subseteq LiveOf(ft, dk)
        BY <1>1, <4>1, LengthFact, CellsLive DEF Sound
      <4>3. /\ X \subseteq Clusters /\ (old.first \in Clusters => old.first \in X)
            /\ \A c \in X : ft[c] \in Clusters => ft[c] \in X
        BY <1>1, <4>1, <4>2, CellsFact
      <4>4. CellsOf(ft, e) \cap LiveOf(ft, dk) = {}
        BY <2>3 DEF CellsOf
      <4>5. X \cap LiveOf(ft, ek) = {}
        BY <2>2, <4>2, <4>4
      <4> QED BY <2>3, <3>2, <4>3, <4>5 DEF Freeable
    <3> QED BY <3>1, <3>2
  <2>5. o.kind \in {"write", "delete", "mkdir", "rmdir"}
    BY <1>1 DEF Target
  <2> PICK w : w = "ok"
    OBVIOUS
  <2>6. /\ p = Release(o, o.old, w) /\ w \in {"ok", "fail", "failed"} /\ (w = "failed" => o.first \in X \cup {0})
        /\ o \in OpsOf(o.before)
    BY <1>1, <1>5
  <2>7. p \in OpsOf(p.before) /\ CallOk(ft, ek, p)
    BY ONLY <2>4, <2>5, <2>6, ReleaseMakes
  <2>8. ek \in Disks
    BY <2>2 DEF Sound
  <2>9. Typed'
    BY <1>2, <2>7, <2>8 DEF IInv, Typed
  <2> QED BY <1>2, <2>2, <2>7, <2>9 DEF IInv
<1>6. op.kind \in {"write", "delete", "mkdir", "rmdir"}
  BY <1>1 DEF Target
<1> QED BY <1>3, <1>4, <1>5, <1>6 DEF WriteEntry

(* fat_write_at goes on to the file's next cluster.                        *)
Poked(o, c) == [o EXCEPT !.i = @ + 1, !.cur = c]

LEMMA PokedFact ==
  ASSUME NEW o, NEW b, o \in OpsOf(b), o.i + 1 \in 0..MaxLen, NEW c \in Nat, NEW p, p = Poked(o, c)
  PROVE  /\ p \in OpsOf(b) /\ p.before = o.before /\ p.pc = o.pc /\ p.i = o.i + 1 /\ p.cur = c
         /\ p.kind = o.kind /\ p.dir = o.dir /\ p.name = o.name /\ p.data = o.data
<1>1. p \in OpsOf(b)
  BY DEF OpsOf, Poked
<1>2. /\ p.before = o.before /\ p.pc = o.pc /\ p.i = o.i + 1 /\ p.cur = c
      /\ p.kind = o.kind /\ p.dir = o.dir /\ p.name = o.name /\ p.data = o.data
  BY DEF OpsOf, Poked
<1> QED BY <1>1, <1>2

(* The cluster fat_write_at overwrites is the file's own and no folder.    *)
LEMMA PokePlace ==
  ASSUME NEW ft, NEW dk, Sound(ft, dk), NEW o, o \in OpsOf(o.before), PokeOk(ft, dk, o)
  PROVE  /\ o.cur \in Clusters /\ o.cur \in LiveOf(ft, dk) /\ dk[o.cur] \in Payloads
         /\ o.data[o.i + 1] \in Payloads /\ o.i + 1 \in 1..Len(o.data) /\ o.i + 1 \in 0..MaxLen
         /\ Len(o.data) \in Nat /\ Len(o.data) <= MaxLen /\ o.i \in Nat
<1>1. /\ o.i \in Nat /\ o.i <= MaxLen /\ o.data \in Contents /\ o.i < Len(o.data)
  BY IRange DEF PokeOk
<1>2. Len(o.data) \in Nat /\ Len(o.data) <= MaxLen /\ \A k \in 1..Len(o.data) : o.data[k] \in Payloads
  BY <1>1, DataFact
<1>3. o.i + 1 \in 1..Len(o.data) /\ o.i + 1 \in 0..MaxLen
  BY <1>1, <1>2, Volume
<1>4. PICK s \in Slots, k \in Nat \ {0} :
         /\ At(dk, o.dir, s) /\ dk[o.dir][s].kind = "file"
         /\ k + Len(o.data) - o.i <= dk[o.dir][s].size + 1
         /\ o.cur = ChainOf(ft, dk[o.dir][s].first)[k]
  BY DEF PokeOk
<1> PICK e : e = dk[o.dir][s]
  OBVIOUS
<1>5. Whole(ft, dk, e) /\ Length(e) = e.size /\ e.size \in Nat /\ e.kind = "file"
  BY <1>4, LengthFact DEF Sound, Length
<1>6. k + Len(o.data) - o.i <= e.size + 1 /\ o.cur = ChainOf(ft, e.first)[k]
  BY <1>4
<1>7. k \in 1..e.size
  BY <1>1, <1>2, <1>5, <1>6
<1>8. o.cur \in Cells(ft, e) /\ dk[o.cur] \in Payloads
  BY <1>5, <1>6, <1>7 DEF Cells, Whole
<1>9. o.cur \in LiveOf(ft, dk)
  BY <1>4, <1>8, CellsLive
<1> QED BY <1>1, <1>2, <1>3, <1>8, <1>9, LiveUp

LEMMA PokePut ==
  ASSUME NEW ft, NEW dk, Sound(ft, dk), NEW c \in LiveOf(ft, dk), dk[c] \in Payloads,
         NEW v \in Payloads, NEW ek, ek = With(dk, c, v)
  PROVE  /\ ek \in Disks /\ Sound(ft, ek) /\ DirsOf(ek) = DirsOf(dk) /\ LiveOf(ft, ek) = LiveOf(ft, dk)
         /\ \A d, s : At(ek, d, s) <=> At(dk, d, s)
         /\ \A d, s : At(dk, d, s) => ek[d][s] = dk[d][s]
         /\ \A d \in DirsOf(dk) : ek[d] = dk[d]
<1>1. c \in Clusters /\ dk \in Disks /\ c \notin DirsOf(dk)
  BY LiveUp DEF Sound
<1>2. ek \in Disks /\ ek[c] = v /\ \A x \in Clusters \cup {Root} : x # c => ek[x] = dk[x]
  BY <1>1 DEF Disks, With
<1>3. \A d \in DirsOf(dk) : ek[d] = dk[d]
  BY <1>1, <1>2, DirsUp
<1>4. \A x \in LiveOf(ft, dk) : dk[x] \in Payloads => ek[x] \in Payloads
  BY <1>2, LiveUp
<1> QED BY <1>2, <1>3, <1>4, DiskOff

LEMMA PokeStep == ASSUME IInv, Poke PROVE IInv'
<1> PICK ft : ft = fat[1]
  OBVIOUS
<1> PICK dk : dk = disk
  OBVIOUS
<1> PICK o : o = op
  OBVIOUS
<1> PICK p : p = op'
  OBVIOUS
<1> PICK ek : ek = disk'
  OBVIOUS
<1>1. /\ o \in OpsOf(o.before) /\ PokeOk(ft, dk, o) /\ Sound(ft, dk) /\ o.pc = "poke" /\ ft \in Tables
  BY DEF IInv, Typed, CallOk, Poke, Sound
<1>2. UNCHANGED <<fat, fsinfo, mounted, fsDone, hint, at>>
  BY DEF Poke, memVars
<1>3. /\ o.cur \in Clusters /\ o.cur \in LiveOf(ft, dk) /\ dk[o.cur] \in Payloads
      /\ o.data[o.i + 1] \in Payloads /\ o.i + 1 \in 1..Len(o.data) /\ o.i + 1 \in 0..MaxLen
      /\ Len(o.data) \in Nat /\ Len(o.data) <= MaxLen /\ o.i \in Nat
  BY <1>1, PokePlace
<1>4. o.i \in 0..(MaxLen + 1) /\ o.i + 1 \in 0..(MaxLen + 1)
  BY <1>3, Volume
<1>5. CASE p = Done(o, o.i) /\ disk' = disk
  <2>1. p \in OpsOf(p.before) /\ CallOk(ft, dk, p)
    BY <1>1, <1>4, <1>5, DoneFact, DoneOk
  <2> QED BY <1>1, <1>2, <1>5, <2>1 DEF IInv, Typed
<1>6. CASE /\ ek = With(dk, o.cur, o.data[o.i + 1])
           /\ \E next \in {ft[o.cur], EOC} :
                p = IF o.i + 1 < Len(o.data) /\ next \in Clusters
                    THEN Poked(o, next) ELSE Done(o, o.i + 1)
  <2>1. /\ ek \in Disks /\ Sound(ft, ek) /\ DirsOf(ek) = DirsOf(dk) /\ LiveOf(ft, ek) = LiveOf(ft, dk)
        /\ \A d, s : At(ek, d, s) <=> At(dk, d, s)
        /\ \A d, s : At(dk, d, s) => ek[d][s] = dk[d][s]
    BY <1>1, <1>3, <1>6, PokePut
  <2>2. PICK next \in {ft[o.cur], EOC} :
             p = IF o.i + 1 < Len(o.data) /\ next \in Clusters
                 THEN Poked(o, next) ELSE Done(o, o.i + 1)
    BY <1>6
  <2>3. CASE ~(o.i + 1 < Len(o.data) /\ next \in Clusters)
    <3>1. p = Done(o, o.i + 1)
      BY <2>2, <2>3
    <3>2. p \in OpsOf(p.before) /\ CallOk(ft, ek, p)
      BY <1>1, <1>4, <3>1, DoneFact, DoneOk
    <3> QED BY <1>1, <1>2, <2>1, <3>2 DEF IInv, Typed
  <2>4. CASE o.i + 1 < Len(o.data) /\ next \in Clusters
    <3>1. p = Poked(o, next) /\ next = ft[o.cur] /\ next \in Nat
      BY <2>2, <2>4, Volume
    <3>2. /\ p \in OpsOf(o.before) /\ p.before = o.before /\ p.pc = "poke" /\ p.i = o.i + 1 /\ p.cur = next
          /\ p.kind = o.kind /\ p.dir = o.dir /\ p.name = o.name /\ p.data = o.data
      BY <1>1, <1>3, <3>1, PokedFact
    <3>3. PICK s \in Slots, k \in Nat \ {0} :
             /\ At(dk, o.dir, s) /\ dk[o.dir][s].kind = "file" /\ dk[o.dir][s].name = o.name
             /\ k + Len(o.data) - o.i <= dk[o.dir][s].size + 1
             /\ o.cur = ChainOf(ft, dk[o.dir][s].first)[k]
      BY <1>1 DEF PokeOk
    <3> PICK e : e = dk[o.dir][s]
      OBVIOUS
    <3>4. /\ Whole(ft, dk, e) /\ Length(e) = e.size /\ e.size \in Nat
          /\ k + Len(o.data) - o.i <= e.size + 1 /\ o.cur = ChainOf(ft, e.first)[k]
      BY <1>1, <3>3, LengthFact DEF Sound, Length
    <3>5. k \in 1..(e.size - 1) /\ k + 1 \in Nat \ {0} /\ k + 1 + Len(o.data) - (o.i + 1) <= e.size + 1
      <4>1. PICK i \in Nat, n \in Nat, z \in Nat : i = o.i /\ n = Len(o.data) /\ z = e.size
        BY <1>3, <3>4
      <4>2. i + 1 < n /\ k + n - i <= z + 1 /\ k \in Nat \ {0} /\ i \in Nat /\ n \in Nat /\ z \in Nat
        BY <2>4, <3>4, <4>1
      <4>3. k \in 1..(z - 1) /\ k + 1 \in Nat \ {0} /\ k + 1 + n - (i + 1) <= z + 1
        BY ONLY <4>2
      <4> QED BY <4>1, <4>3
    <3>6. Run(ft, e.first, e.size)
      <4>1. Length(e) # 0
        BY <3>4, <3>5
      <4>2. Run(ft, e.first, Length(e))
        BY ONLY <3>4, <4>1 DEF Whole
      <4> QED BY ONLY <3>4, <4>2
    <3>7. next = ChainOf(ft, e.first)[k + 1]
      <4>1. \A j \in 1..(e.size - 1) : ft[ChainOf(ft, e.first)[j]] = ChainOf(ft, e.first)[j + 1]
        BY ONLY <3>6, RunStep
      <4>2. ft[ChainOf(ft, e.first)[k]] = ChainOf(ft, e.first)[k + 1]
        BY <3>5, <4>1
      <4> QED BY <3>1, <3>4, <4>2
    <3>8. ek[o.dir][s] = e /\ At(ek, p.dir, s)
      BY <2>1, <3>2, <3>3
    <3> PICK m : m = k + 1
      OBVIOUS
    <3>9. /\ At(ek, p.dir, s) /\ ek[p.dir][s].kind = "file" /\ ek[p.dir][s].name = p.name
          /\ m \in Nat \ {0} /\ m + Len(p.data) - p.i <= ek[p.dir][s].size + 1
          /\ p.cur = ChainOf(ft, ek[p.dir][s].first)[m] /\ s \in Slots
      BY <3>2, <3>3, <3>5, <3>7, <3>8
    <3>10. p.kind = "writeat" /\ p.i < Len(p.data) /\ p.name \in Names
      BY <1>1, <2>4, <3>2 DEF PokeOk
    <3>11. PokeOk(ft, ek, p)
      BY <3>9, <3>10 DEF PokeOk
    <3>12. CallOk(ft, ek, p)
      BY <3>2, <3>11 DEF CallOk
    <3> QED BY <1>1, <1>2, <2>1, <3>2, <3>12 DEF IInv, Typed
  <2> QED BY <2>3, <2>4
<1>7. CASE ~(p = Done(o, o.i) /\ disk' = disk)
  <2>1. /\ ek = With(dk, o.cur, o.data[o.i + 1])
        /\ \E next \in {fat[1][op.cur]} \cup (IF ReadErrors THEN {EOC} ELSE {}) :
             p = IF op.i + 1 < Len(op.data) /\ next \in Clusters
                 THEN [op EXCEPT !.i = @ + 1, !.cur = next] ELSE Done(op, op.i + 1)
    BY <1>7 DEF Poke, With
  <2>2. PICK next \in {fat[1][op.cur]} \cup (IF ReadErrors THEN {EOC} ELSE {}) :
             p = IF op.i + 1 < Len(op.data) /\ next \in Clusters
                 THEN [op EXCEPT !.i = @ + 1, !.cur = next] ELSE Done(op, op.i + 1)
    BY <2>1
  <2>3. next \in {ft[o.cur], EOC}
    BY <2>2
  <2>4. p = IF o.i + 1 < Len(o.data) /\ next \in Clusters THEN Poked(o, next) ELSE Done(o, o.i + 1)
    BY <2>2 DEF Poked
  <2> QED BY <1>6, <2>1, <2>3, <2>4
<1> QED BY <1>5, <1>7
-----------------------------------------------------------------------------
(* fat_recover, and the steps that touch neither FAT nor data.             *)

ToRow(o, pc, c) == [o EXCEPT !.cp = 1, !.pc = pc, !.cur = c]

LEMMA ToRowFact ==
  ASSUME NEW o, NEW b, o \in OpsOf(b), NEW pc \in {"row", "fsinfo"}, NEW c \in Nat, NEW p, p = ToRow(o, pc, c)
  PROVE  /\ p \in OpsOf(b) /\ p.before = o.before /\ p.pc = pc /\ p.live = o.live /\ p.cp = 1 /\ p.cur = c
         /\ p.kind = o.kind
<1>0. 1 \in Copies
  BY Volume
<1>1. p \in OpsOf(b)
  BY <1>0 DEF OpsOf, ToRow
<1>2. p.before = o.before /\ p.pc = pc /\ p.live = o.live /\ p.cp = 1 /\ p.cur = c /\ p.kind = o.kind
  BY DEF OpsOf, ToRow
<1> QED BY <1>1, <1>2

LEMMA RowsFact ==
  /\ Rows \subseteq Nat /\ Min(Rows) \in Rows /\ \A r \in Rows : Min(Rows) <= r
  /\ \A c \in Clusters : Row[c] \in Rows
<1>1. Row \in [Clusters -> Nat] /\ 1 \in Clusters
  BY VolumeAssumption DEF VolumeAssumption, Clusters
<1>2. Rows \subseteq Nat /\ \A c \in Clusters : Row[c] \in Rows
  BY <1>1 DEF Rows
<1>3. Rows # {}
  BY <1>1, <1>2
<1> QED BY <1>2, <1>3, MinFact

(* The rows are taken in rising order, each once.                          *)
LEMMA NextRowFact ==
  ASSUME NEW o, o = op, NEW b, o \in OpsOf(b), NEW p, p = NextRow
  PROVE  /\ p \in OpsOf(b) /\ p.before = o.before /\ p.live = o.live /\ p.cp = 1 /\ p.kind = o.kind
         /\ p.pc \in {"row", "fsinfo"}
         /\ p.pc = "row" => p.cur \in Rows /\ p.cur > o.cur /\ \A r \in Rows : r > o.cur => p.cur <= r
         /\ p.pc = "fsinfo" => \A r \in Rows : ~(r > o.cur)
<1> PICK later : later = {r \in Rows : r > op.cur}
  OBVIOUS
<1>1. later \subseteq Nat
  BY RowsFact
<1>2. CASE later = {}
  <2>1. p = ToRow(o, "fsinfo", 0)
    BY <1>2 DEF NextRow, ToRow
  <2>2. 0 \in Nat /\ \A r \in Rows : ~(r > o.cur)
    BY <1>2
  <2> PICK w : w = "fsinfo"
    OBVIOUS
  <2>3. p = ToRow(o, w, 0) /\ w \in {"row", "fsinfo"} /\ w = "fsinfo"
    BY <2>1
  <2>4. /\ p \in OpsOf(b) /\ p.before = o.before /\ p.pc = w /\ p.live = o.live /\ p.cp = 1 /\ p.kind = o.kind
    BY ONLY <2>2, <2>3, o \in OpsOf(b), ToRowFact
  <2>5. p.pc = "fsinfo" /\ "fsinfo" # "row"
    BY <2>3, <2>4
  <2> QED BY <2>2, <2>4, <2>5
<1>3. CASE later # {}
  <2> PICK m : m = Min(later)
    OBVIOUS
  <2>1. m \in later /\ m \in Nat /\ \A r \in later : m <= r
    BY <1>1, <1>3, MinFact
  <2>2. p = ToRow(o, "row", m)
    BY <1>3 DEF NextRow, ToRow
  <2> PICK w : w = "row"
    OBVIOUS
  <2>3. p = ToRow(o, w, m) /\ w \in {"row", "fsinfo"} /\ w = "row" /\ m \in Nat
    BY <2>1, <2>2
  <2>4. /\ p \in OpsOf(b) /\ p.before = o.before /\ p.pc = w /\ p.live = o.live /\ p.cp = 1 /\ p.kind = o.kind
        /\ p.cur = m
    BY ONLY <2>3, o \in OpsOf(b), ToRowFact
  <2>5. p.pc = "row" /\ "fsinfo" # "row"
    BY <2>3, <2>4
  <2>6. p.cur \in Rows /\ p.cur > o.cur /\ \A r \in Rows : r > o.cur => p.cur <= r
    BY <2>1, <2>4
  <2> QED BY <2>4, <2>5, <2>6
<1> QED BY <1>2, <1>3

(* One sector of one copy, with what no entry reaches freed.               *)
Mended(f, cp, r, live) ==
  [f EXCEPT ![cp] = [c \in Clusters |-> IF Row[c] = r THEN (IF c \in live THEN f[1][c] ELSE FREE) ELSE @[c]]]

LEMMA MendedFact ==
  ASSUME NEW f \in [Copies -> Tables], NEW cp \in Copies, NEW r, NEW live, NEW g, g = Mended(f, cp, r, live)
  PROVE  /\ g \in [Copies -> Tables] /\ g[1] \in Tables /\ f[1] \in Tables /\ f[cp] \in Tables
         /\ \A k \in Copies : k # cp => g[k] = f[k]
         /\ \A c \in Clusters : g[cp][c] = IF Row[c] = r THEN (IF c \in live THEN f[1][c] ELSE FREE) ELSE f[cp][c]
         /\ \A c \in Clusters \cap live : g[1][c] = f[1][c]
<1>1. PICK t : t = [c \in Clusters |-> IF Row[c] = r THEN (IF c \in live THEN f[1][c] ELSE FREE) ELSE f[cp][c]]
  OBVIOUS
<1>2. f[1] \in Tables /\ f[cp] \in Tables /\ 1 \in Copies
  BY Volume
<1>3. t \in Tables
  BY <1>1, <1>2 DEF Tables
<1>4. g = [f EXCEPT ![cp] = t]
  BY <1>1 DEF Mended
<1>5. g \in [Copies -> Tables] /\ g[cp] = t /\ \A k \in Copies : k # cp => g[k] = f[k]
  BY <1>3, <1>4
<1>6. \A c \in Clusters \cap live : g[1][c] = f[1][c]
  <2>1. CASE cp = 1
    BY <1>1, <1>5, <2>1
  <2>2. CASE cp # 1
    BY <1>2, <1>5, <2>2
  <2> QED BY <2>1, <2>2
<1> QED BY <1>1, <1>2, <1>5, <1>6

LEMMA RepairStep == ASSUME IInv, RepairRow PROVE IInv' /\ QuietStep
<1> PICK ft : ft = fat[1]
  OBVIOUS
<1> PICK dk : dk = disk
  OBVIOUS
<1> PICK o : o = op
  OBVIOUS
<1> PICK p : p = op'
  OBVIOUS
<1> PICK gt : gt = fat'[1]
  OBVIOUS
<1>1. /\ o \in OpsOf(o.before) /\ o.live = LiveOf(ft, dk) /\ Sound(ft, dk) /\ o.pc = "row" /\ ft \in Tables
      /\ o.cp \in Copies /\ fat \in [Copies -> Tables] /\ disk' = dk
      /\ UNCHANGED <<disk, fsinfo, mounted, fsDone, hint, at>>
  BY CpRange DEF IInv, Typed, CallOk, RepairRow, Sound, memVars
<1>2. /\ p.before = o.before /\ p \in OpsOf(p.before)
      /\ \/ p.pc \in {"row", "fsinfo"} /\ p.live = o.live
         \/ p.pc = "done"
  <2>1. CASE p = NextRow
    BY <1>1, <2>1, NextRowFact
  <2>2. CASE p = Done(op, 0)
    <3>1. 0 \in 0..(MaxLen + 1)
      BY Volume
    <3> QED BY <1>1, <2>2, <3>1, DoneFact
  <2>3. CASE op.cp < NumFats /\ p = [op EXCEPT !.cp = @ + 1]
    <3>1. o.cp + 1 \in Copies
      BY <1>1, <2>3, CpRange, Volume
    <3>2. p = Onward(o, o.cp + 1)
      BY <2>3 DEF Onward
    <3> QED BY <1>1, <3>1, <3>2, OnwardFact
  <2> QED BY <2>1, <2>2, <2>3 DEF RepairRow
<1>3. /\ fat' \in [Copies -> Tables] /\ gt \in Tables /\ \A c \in LiveOf(ft, dk) : gt[c] = ft[c]
  <2>1. CASE fat' = fat
    BY <1>1, <2>1
  <2>2. CASE fat' = Mended(fat, o.cp, o.cur, o.live)
    <3>1. LiveOf(ft, dk) \subseteq Clusters
      BY LiveUp
    <3> QED BY <1>1, <2>2, <3>1, MendedFact
  <2> QED BY <2>1, <2>2 DEF RepairRow, Mended, Repaired
<1>4. Sound(gt, dk) /\ Quiet(ft, dk, gt, dk) /\ LiveOf(gt, dk) = LiveOf(ft, dk)
  BY <1>1, <1>3, FatQuiet DEF Quiet
<1>5. CallOk(gt, dk, p)
  BY <1>1, <1>2, <1>4 DEF CallOk
<1>6. Typed'
  BY <1>1, <1>2, <1>3 DEF IInv, Typed
<1>7. QuietStep
  BY <1>1, <1>4 DEF QuietStep
<1> QED BY <1>1, <1>4, <1>5, <1>6, <1>7 DEF IInv

LEMMA FreeCountRange == ASSUME NEW X, X \subseteq Clusters PROVE Cardinality(X) \in 0..NClusters
<1>1. IsFiniteSet(Clusters) /\ Cardinality(Clusters) = NClusters
  BY FS_Interval, Volume DEF Clusters
<1>2. Cardinality(X) \in Nat /\ Cardinality(X) <= NClusters
  BY <1>1, FS_Subset, FS_CardinalityType
<1> QED BY <1>2, Volume

LEMMA FinishStep == ASSUME IInv, FinishRepair PROVE IInv' /\ QuietStep
<1> PICK o : o = op
  OBVIOUS
<1>1. FreeCount \in 0..NClusters
  BY FreeCountRange DEF FreeCount
<1>2. 1 \in 0..(MaxLen + 1)
  BY Volume
<1>3. o \in OpsOf(o.before) /\ op' = Done(o, 1) /\ UNCHANGED <<fat, disk, mounted, hint, at>> /\ Sound(fat[1], disk)
  BY DEF IInv, Typed, FinishRepair
<1>4. op' \in OpsOf(op'.before) /\ CallOk(fat[1], disk, op')
  BY <1>2, <1>3, DoneFact, DoneOk
<1>5. fsinfo' \in 0..NClusters \cup {Unknown} /\ fsDone' \in BOOLEAN
  BY <1>1 DEF FinishRepair, IInv, Typed
<1> QED BY <1>3, <1>4, <1>5, StillQuiet DEF IInv, Typed

(* A step that leaves FAT, data and call alone.                            *)
LEMMA StillStep ==
  ASSUME IInv, UNCHANGED <<fat, disk, op>>, Typed' PROVE IInv' /\ QuietStep
BY StillQuiet DEF IInv

LEMMA UnknownStep == ASSUME IInv, MarkUnknown PROVE IInv' /\ QuietStep
<1>1. UNCHANGED <<fat, disk, op, mounted, hint, at>> /\ Typed'
  BY DEF MarkUnknown, IInv, Typed
<1> QED BY <1>1, StillStep

LEMMA NoAtFact == NoAt \in [first: Clusters \cup {0}, index: Nat, cluster: Clusters \cup {0}]
BY Volume DEF NoAt

LEMMA RefusedStep == ASSUME IInv, Refused PROVE IInv' /\ QuietStep
<1>1. UNCHANGED <<fat, disk, op, fsinfo, mounted, hint, fsDone>> /\ at' = NoAt
  BY DEF Refused, diskVars
<1>2. Typed'
  BY <1>1, NoAtFact DEF IInv, Typed
<1> QED BY <1>1, <1>2, StillStep

(* The power failing, and a call returning.                                *)
LEMMA NoOpStep ==
  ASSUME IInv, op' = NoOp, UNCHANGED diskVars, mounted' \in BOOLEAN, fsDone' \in BOOLEAN, hint' \in 0..NClusters,
         at' \in [first: Clusters \cup {0}, index: Nat, cluster: Clusters \cup {0}]
  PROVE  IInv' /\ QuietStep
<1>1. op' \in OpsOf(op'.before) /\ op'.pc = "idle"
  <2>1. NoOp \in OpsOf(<<>>) /\ NoOp.pc = "idle"
    BY NoOpFact
  <2>2. NoOp \in OpsOf(NoOp.before)
    BY <2>1 DEF OpsOf
  <2> QED BY <2>1, <2>2
<1>2. CallOk(fat[1], disk, op')
  BY <1>1, DoneOk
<1>3. UNCHANGED <<fat, disk, fsinfo>> /\ Sound(fat[1], disk)
  BY DEF diskVars, IInv
<1> QED BY <1>1, <1>2, <1>3, StillQuiet DEF IInv, Typed

LEMMA ReturnStep == ASSUME IInv, Return PROVE IInv' /\ QuietStep
<1>1. /\ op' = NoOp /\ UNCHANGED diskVars /\ UNCHANGED <<mounted, fsDone, hint, at>>
  BY DEF Return, memVars
<1>2. /\ mounted' \in BOOLEAN /\ fsDone' \in BOOLEAN /\ hint' \in 0..NClusters
      /\ at' \in [first: Clusters \cup {0}, index: Nat, cluster: Clusters \cup {0}]
  BY <1>1 DEF IInv, Typed
<1> QED BY <1>1, <1>2, NoOpStep

LEMMA CutStep == ASSUME IInv, PowerCut PROVE IInv' /\ QuietStep
<1>1. 0 \in 0..NClusters
  BY Volume
<1> QED BY <1>1, NoAtFact, NoOpStep DEF PowerCut
-----------------------------------------------------------------------------
(* Looking a name up.                                                      *)

LEMMA SlotFact ==
  ASSUME NEW d, NEW n, NEW s, s = SlotOf(d, n)
  PROVE  /\ s \in Slots \cup {0}
         /\ s # 0 => disk[d][s].kind # "none" /\ disk[d][s].name = n
         /\ s # 0 => \A t \in Slots : disk[d][t].kind # "none" /\ disk[d][t].name = n => s <= t
         /\ s = 0 => \A t \in Slots : ~(disk[d][t].kind # "none" /\ disk[d][t].name = n)
<1> PICK hits : hits = {t \in Slots : disk[d][t].kind # "none" /\ disk[d][t].name = n}
  OBVIOUS
<1>1. s = IF hits = {} THEN 0 ELSE Min(hits)
  BY DEF SlotOf, FirstSlot
<1>2. hits \subseteq Nat /\ hits \subseteq Slots /\ 0 \notin Slots
  BY Volume
<1>3. CASE hits = {}
  BY <1>1, <1>3
<1>4. CASE hits # {}
  <2>1. s \in hits /\ \A t \in hits : s <= t
    BY <1>1, <1>2, <1>4, MinFact
  <2> QED BY <1>2, <2>1
<1> QED BY <1>3, <1>4

LEMMA FreeSlotFact ==
  ASSUME NEW d, NEW s, s = FreeSlot(d), s # 0
  PROVE  s \in Slots /\ disk[d][s].kind = "none"
<1> PICK hits : hits = {t \in Slots : disk[d][t].kind = "none"}
  OBVIOUS
<1>1. s = IF hits = {} THEN 0 ELSE Min(hits)
  BY DEF FreeSlot, FirstSlot
<1>2. hits \subseteq Nat /\ hits \subseteq Slots
  BY Volume
<1>3. s \in hits
  BY <1>1, <1>2, MinFact
<1> QED BY <1>2, <1>3

LEMMA FindNone == ASSUME NEW d, NEW n, 0 \in Find(d, n) PROVE NewName(disk, d, n)
<1>1. CASE ReadErrors
  BY <1>1 DEF NewName
<1>2. CASE ~ReadErrors
  <2>1. 0 = SlotOf(d, n)
    BY <1>2 DEF Find
  <2> QED BY <2>1, SlotFact DEF NewName
<1> QED BY <1>1, <1>2

LEMMA FindFact ==
  ASSUME NEW d, NEW n, NEW s \in Find(d, n), s # 0
  PROVE  s = SlotOf(d, n) /\ s \in Slots /\ disk[d][s].kind # "none" /\ disk[d][s].name = n
<1>1. s = SlotOf(d, n)
  BY DEF Find
<1> QED BY <1>1, SlotFact
-----------------------------------------------------------------------------
(* A call starts.                                                          *)

(* The record of a call that has just started, and of what its caller sees. *)
IsFresh(q, kind, d, n, data, slot, old, cur, pc) ==
  /\ q \in OpsOf(<<>>) /\ q.kind = kind /\ q.dir = d /\ q.name = n /\ q.data = data
  /\ q.slot = slot /\ q.old = old /\ q.cur = cur /\ q.pc = pc
  /\ q.first = 0 /\ q.prev = 0 /\ q.i = 0 /\ q.cp = 1
Before(q, b) == [q EXCEPT !.before = b]

LEMMA FreshFact ==
  ASSUME NEW kind, NEW d, NEW n, NEW data, NEW slot, NEW old, NEW cur, NEW pc, NEW b,
         NEW q, IsFresh(q, kind, d, n, data, slot, old, cur, pc), NEW p, p = Before(q, b)
  PROVE  /\ p \in OpsOf(b) /\ p.before = b /\ p.kind = kind /\ p.dir = d /\ p.name = n /\ p.data = data
         /\ p.slot = slot /\ p.old = old /\ p.cur = cur /\ p.pc = pc
         /\ p.first = 0 /\ p.prev = 0 /\ p.i = 0 /\ p.cp = 1
<1>1. /\ q.kind = kind /\ q.dir = d /\ q.name = n /\ q.data = data
      /\ q.slot = slot /\ q.old = old /\ q.cur = cur /\ q.pc = pc
      /\ q.first = 0 /\ q.prev = 0 /\ q.i = 0 /\ q.cp = 1 /\ q \in OpsOf(<<>>)
  BY DEF IsFresh
<1>2. p \in OpsOf(b)
  BY ONLY <1>1, p = Before(q, b) DEF OpsOf, Before
<1>3. /\ p.before = b /\ p.kind = q.kind /\ p.dir = q.dir /\ p.name = q.name /\ p.data = q.data
      /\ p.slot = q.slot /\ p.old = q.old /\ p.cur = q.cur /\ p.pc = q.pc
      /\ p.first = q.first /\ p.prev = q.prev /\ p.i = q.i /\ p.cp = q.cp
  BY ONLY <1>1, p = Before(q, b) DEF OpsOf, Before
<1> QED BY <1>1, <1>2, <1>3

LEMMA CallFact ==
  ASSUME NEW kind \in {"write", "writeat", "delete", "mkdir", "rmdir"}, NEW d \in Clusters \cup {Root},
         NEW n \in Names, NEW q, q = Call(kind, d, n)
  PROVE  IsFresh(q, kind, d, n, <<>>, 0, 0, 0, "idle")
<1> PICK z : z = NoOp
  OBVIOUS
<1>1. /\ z \in OpsOf(<<>>) /\ z.first = 0 /\ z.prev = 0 /\ z.i = 0 /\ z.cp = 1
      /\ z.data = <<>> /\ z.slot = 0 /\ z.old = 0 /\ z.cur = 0 /\ z.pc = "idle"
  <2>1. /\ z.first = 0 /\ z.prev = 0 /\ z.i = 0 /\ z.cp = 1
        /\ z.data = <<>> /\ z.slot = 0 /\ z.old = 0 /\ z.cur = 0 /\ z.pc = "idle"
    BY DEF NoOp
  <2> QED BY <2>1, NoOpFact
<1>2. q = [z EXCEPT !.kind = kind, !.dir = d, !.name = n]
  BY DEF Call
<1>3. kind \in {"none", "write", "writeat", "delete", "mkdir", "rmdir", "mount"} /\ n \in Names \cup {""}
  OBVIOUS
<1>4. q \in OpsOf(<<>>)
  BY ONLY <1>1, <1>2, <1>3, d \in Clusters \cup {Root} DEF OpsOf
<1>5. /\ q.kind = kind /\ q.dir = d /\ q.name = n
      /\ q.first = z.first /\ q.prev = z.prev /\ q.i = z.i /\ q.cp = z.cp
      /\ q.data = z.data /\ q.slot = z.slot /\ q.old = z.old /\ q.cur = z.cur /\ q.pc = z.pc
  BY ONLY <1>1, <1>2 DEF OpsOf
<1> QED BY <1>1, <1>4, <1>5 DEF IsFresh

(* What every call start has in common: it notes what the caller sees of  *)
(* the name, and changes nothing on the disk.                              *)
Begun ==
  /\ UNCHANGED <<fat, disk, fsinfo, mounted, fsDone>>
  /\ op'.pc \in {"alloc", "entry", "poke", "done"} /\ op'.cp = 1 /\ op'.first = 0
  /\ op'.pc \in {"poke", "done"} <=> op'.kind = "writeat"
  /\ op'.before = NodeAt(op'.dir, op'.name)

LEMMA BeginFact ==
  ASSUME IInv, NEW q, Begin(q), NEW p, p = Before(q, NodeAt(q.dir, q.name)), CallOk(fat[1], disk, p),
         NEW kind, NEW d, NEW n, NEW data, NEW slot, NEW old, NEW cur,
         NEW pc \in {"alloc", "entry", "poke", "done"}, IsFresh(q, kind, d, n, data, slot, old, cur, pc),
         pc \in {"poke", "done"} <=> kind = "writeat"
  PROVE  IInv' /\ QuietStep /\ Begun
<1>1. /\ op' = p /\ at' = NoAt /\ UNCHANGED <<fat, disk, fsinfo, mounted, fsDone, hint>>
      /\ Sound(fat[1], disk)
  BY DEF Begin, Before, diskVars, IInv
<1> PICK b : b = NodeAt(q.dir, q.name)
  OBVIOUS
<1>2. /\ p \in OpsOf(b) /\ p.before = b /\ p.kind = kind /\ p.dir = d /\ p.name = n
      /\ p.pc = pc /\ p.first = 0 /\ p.cp = 1
  <2>1. p = Before(q, b) /\ IsFresh(q, kind, d, n, data, slot, old, cur, pc)
    OBVIOUS
  <2> QED BY ONLY <2>1, FreshFact
<1>3. q.dir = d /\ q.name = n
  BY DEF IsFresh
<1>4. IInv' /\ QuietStep
  BY <1>1, <1>2, NoAtFact, StillQuiet DEF IInv, Typed
<1>5. Begun
  <2>1. p.before = NodeAt(p.dir, p.name)
    BY <1>2, <1>3
  <2> QED BY <1>1, <1>2, <2>1 DEF Begun
<1> QED BY <1>4, <1>5

LEMMA FoldersFact ==
  ASSUME NEW d \in Folders
  PROVE  d \in DirsOf(disk) /\ disk[d] \notin Payloads /\ d \in Clusters \cup {Root}
BY ReachIs, DirsUp DEF Folders, IsFolder

LEMMA EntryIn ==
  ASSUME IInv, NEW d \in Folders, NEW s \in Slots
  PROVE  /\ disk[d][s] \in Entries /\ disk[d][s].first \in Clusters \cup {0}
         /\ disk[d][s].size \in Nat /\ disk[d][s].kind \in {"none", "file", "dir"}
         /\ disk[d][s].kind # "none" => At(disk, d, s)
<1>1. disk[d] \in [Slots -> Entries]
  BY FoldersFact, SectorIs DEF IInv, Typed, Disks
<1> PICK e : e = disk[d][s]
  OBVIOUS
<1>2. e \in Entries
  BY <1>1
<1>3. /\ e.first \in Clusters \cup {0} /\ e.size \in 0..MaxLen /\ e.kind \in {"none", "file", "dir"}
  BY <1>2 DEF Entries
<1>4. e.size \in Nat
  BY <1>3, Volume
<1>5. e.kind # "none" => At(disk, d, s)
  BY <1>3, FoldersFact DEF At
<1> QED BY <1>2, <1>3, <1>4, <1>5

(* A call that is to build a chain, or to write its entry at once.         *)
LEMMA StartBuild ==
  ASSUME NEW ft, NEW dk, NEW p, p \in OpsOf(p.before), Target(dk, p), p.kind \in {"write", "mkdir"},
         p.first = 0, p.i = 0, p.cp = 1,
         p.pc = IF Pieces(p) = 0 THEN "entry" ELSE "alloc"
  PROVE  CallOk(ft, dk, p)
<1>1. Pieces(p) \in Nat
  BY IRange, DataFact DEF Pieces
<1>2. \A k \in 1..0 : FALSE
  OBVIOUS
<1>3. Chained(ft, dk, p.first, 0)
  BY <1>2 DEF Chained
<1>4. Building(ft, dk, p, 0)
  BY <1>2, <1>3 DEF Building
<1>5. CASE Pieces(p) = 0
  <2>1. p.kind = "write" /\ p.pc = "entry"
    BY <1>5 DEF Pieces
  <2>2. EntryOk(ft, dk, p)
    BY <1>4, <1>5, <2>1 DEF EntryOk
  <2> QED BY <2>1, <2>2 DEF CallOk
<1>6. CASE Pieces(p) # 0
  <2>1. AllocOk(ft, dk, p) /\ p.pc = "alloc"
    BY <1>1, <1>4, <1>6 DEF AllocOk
  <2> QED BY <2>1 DEF CallOk
<1> QED BY <1>5, <1>6

LEMMA DataEmpty == <<>> \in Contents /\ \A x \in Contents : x = <<>> <=> Len(x) = 0
<1>1. <<>> \in Contents
  BY NoOpFact DEF NoOp, OpsOf
<1>2. ASSUME NEW x \in Contents PROVE x = <<>> <=> Len(x) = 0
  <2>1. PICK k \in 0..MaxLen : x \in [1..k -> Payloads]
    BY DEF Contents
  <2>2. k \in Nat
    BY Volume
  <2>3. x \in Seq(Payloads)
    BY <2>1, <2>2
  <2> QED BY <2>3
<1> QED BY <1>1, <1>2

LEMMA WriteStart ==
  ASSUME IInv, NEW d \in Folders, NEW n \in Names, NEW data \in Written, NEW replace, WriteFile(d, n, data, replace)
  PROVE  IInv' /\ QuietStep /\ Begun
<1>1. PICK s \in Find(d, n) :
        LET old == IF s = 0 THEN NoEntry ELSE disk[d][s]
            slot == IF s = 0 THEN FreeSlot(d) ELSE s
        IN  /\ slot # 0
            /\ s # 0 => replace /\ old.kind = "file"
            /\ Begin([Call("write", d, n) EXCEPT
                       !.data = data, !.slot = slot, !.old = old.first,
                       !.pc = IF data = <<>> THEN "entry" ELSE "alloc"])
  BY DEF WriteFile
<1> PICK old : old = IF s = 0 THEN NoEntry ELSE disk[d][s]
  OBVIOUS
<1> PICK slot : slot = IF s = 0 THEN FreeSlot(d) ELSE s
  OBVIOUS
<1> PICK pc : pc = IF data = <<>> THEN "entry" ELSE "alloc"
  OBVIOUS
<1> PICK first : first = old.first
  OBVIOUS
<1> PICK q : q = [Call("write", d, n) EXCEPT !.data = data, !.slot = slot, !.old = first, !.pc = pc]
  OBVIOUS
<1>2. slot # 0 /\ (s # 0 => old.kind = "file") /\ Begin(q)
  BY <1>1
<1>4. /\ slot \in Slots /\ disk[d][slot].kind = old.kind /\ first \in Clusters \cup {0}
      /\ old.kind = "none" => first = 0
      /\ old.kind \in {"none", "file"}
      /\ IF old.kind = "none" THEN NewName(disk, d, n)
         ELSE old = disk[d][slot] /\ disk[d][slot].name = n
  <2>1. CASE s = 0
    <3>1. NewName(disk, d, n)
      BY <2>1, FindNone
    <3> QED BY <1>2, <2>1, <3>1, FreeSlotFact, NoEntryFact
  <2>2. CASE s # 0
    BY <1>2, <2>2, FindFact, EntryIn
  <2> QED BY <2>1, <2>2
<1>5. data \in Contents /\ 0 \in Nat
  BY Volume
<1>3. IsFresh(q, "write", d, n, data, slot, first, 0, pc)
  <2> PICK k : k = "write"
    OBVIOUS
  <2>1. k \in {"write", "writeat", "delete", "mkdir", "rmdir"} /\ d \in Clusters \cup {Root}
    BY FoldersFact
  <2> PICK c : c = Call(k, d, n)
    OBVIOUS
  <2>2. IsFresh(c, k, d, n, <<>>, 0, 0, 0, "idle")
    BY ONLY <2>1, n \in Names, c = Call(k, d, n), CallFact
  <2>3. q = [c EXCEPT !.data = data, !.slot = slot, !.old = first, !.pc = pc]
    OBVIOUS
  <2>4. data \in Contents /\ slot \in Slots \cup {0} /\ first \in Clusters \cup {0} /\ pc \in {"idle", "alloc", "link", "data", "seal", "entry", "poke", "release", "row", "fsinfo", "done"}
    BY <1>4, <1>5
  <2>5. q \in OpsOf(<<>>)
    BY ONLY <2>2, <2>3, <2>4 DEF OpsOf, IsFresh
  <2>6. /\ q.first = c.first /\ q.prev = c.prev /\ q.i = c.i /\ q.cp = c.cp /\ q.kind = c.kind /\ q.dir = c.dir /\ q.name = c.name
        /\ q.data = data /\ q.slot = slot /\ q.old = first /\ q.cur = c.cur /\ q.pc = pc
    BY ONLY <2>2, <2>3 DEF OpsOf, IsFresh
  <2>7. c.kind = k /\ c.dir = d /\ c.name = n /\ c.first = 0 /\ c.prev = 0 /\ c.i = 0 /\ c.cp = 1
        /\ c.data = <<>> /\ c.slot = 0 /\ c.old = 0 /\ c.cur = 0
    BY <2>2 DEF IsFresh
  <2> QED BY <2>5, <2>6, <2>7 DEF IsFresh
<1> PICK w : w = "write"
  OBVIOUS
<1> PICK b : b = NodeAt(q.dir, q.name)
  OBVIOUS
<1> PICK p : p = Before(q, b)
  OBVIOUS
<1>6. d \in DirsOf(disk) /\ d \in Clusters \cup {Root}
  BY FoldersFact
<1>7. /\ p \in OpsOf(b) /\ p.before = b /\ p.kind = w /\ p.dir = d /\ p.name = n /\ p.data = data
      /\ p.slot = slot /\ p.old = first /\ p.pc = pc /\ p.first = 0 /\ p.i = 0 /\ p.cp = 1
  <2>2. IsFresh(q, w, d, n, data, slot, first, 0, pc) /\ p = Before(q, b)
    BY <1>3
  <2> QED BY ONLY <2>2, FreshFact
<1>8. Target(disk, p)
  <2>1. \/ p.kind \in {"write", "mkdir"} /\ disk[d][slot].kind = "none" /\ p.old = 0
        \/ p.kind \in {"write", "delete"} /\ disk[d][slot].kind = "file" /\ p.old = disk[d][slot].first
    BY <1>4, <1>7
  <2> PICK x : x = disk[d][slot]
    OBVIOUS
  <2>2. /\ \/ p.kind \in {"write", "mkdir"} /\ x.kind = "none" /\ p.old = 0
           \/ p.kind \in {"write", "delete"} /\ x.kind = "file" /\ p.old = x.first
        /\ IF x.kind = "none" THEN NewName(disk, p.dir, p.name) ELSE x.name = p.name
    BY <1>4, <1>7, <2>1
  <2>3. p.dir \in DirsOf(disk) /\ p.slot \in Slots /\ p.name \in Names /\ x = disk[p.dir][p.slot]
    BY <1>4, <1>6, <1>7
  <2> QED BY ZenonT(60), <2>2, <2>3 DEF Target
<1>9. p.pc = IF Pieces(p) = 0 THEN "entry" ELSE "alloc"
  <2>1. data = <<>> <=> Len(data) = 0
    BY <1>5, DataEmpty
  <2> QED BY <1>7, <2>1 DEF Pieces
<1>10. CallOk(fat[1], disk, p)
  BY <1>7, <1>8, <1>9, StartBuild
<1> QED
  <2>1. Before(q, NodeAt(q.dir, q.name)) = p /\ pc \in {"alloc", "entry", "poke"} /\ pc # "poke"
    OBVIOUS
  <2> QED BY <1>2, <1>3, <1>10, <2>1, BeginFact

LEMMA PokeStart ==
  ASSUME IInv, NEW d \in Folders, NEW n \in Names, NEW i \in 0..(MaxLen - 1), NEW data \in Written \ {<<>>},
         \E s \in Find(d, n) \ {0} :
           /\ disk[d][s].kind = "file"
           /\ i + Len(data) <= disk[d][s].size
           /\ Begin([Call("writeat", d, n) EXCEPT
                       !.data = data, !.cur = Chain(disk[d][s].first)[i + 1], !.pc = "poke"])
  PROVE  IInv' /\ QuietStep /\ Begun
<1> PICK cur : cur = Chain(disk[d][SlotOf(d, n)].first)[i + 1]
  OBVIOUS
<1>1. PICK s \in Find(d, n) \ {0} :
       /\ disk[d][s].kind = "file"
       /\ i + Len(data) <= disk[d][s].size
       /\ Begin([Call("writeat", d, n) EXCEPT
                   !.data = data, !.cur = Chain(disk[d][s].first)[i + 1], !.pc = "poke"])
  OBVIOUS
<1>2. s = SlotOf(d, n) /\ s \in Slots /\ disk[d][s].kind = "file" /\ disk[d][s].name = n
  BY <1>1, FindFact
<1> PICK e : e = disk[d][s]
  OBVIOUS
<1> PICK q : q = [Call("writeat", d, n) EXCEPT !.data = data, !.cur = cur, !.pc = "poke"]
  OBVIOUS
<1>3. Begin(q)
  BY <1>1, <1>2
<1>4. At(disk, d, s) /\ e.size \in Nat /\ e.kind = "file" /\ e.name = n /\ i + Len(data) <= e.size
  BY <1>1, <1>2, EntryIn
<1>5. data \in Contents /\ Len(data) \in Nat /\ Len(data) # 0 /\ i \in Nat /\ i + 1 \in Nat \ {0}
  BY Volume, DataFact, DataEmpty
<1>6. cur = ChainOf(fat[1], e.first)[i + 1]
  BY <1>2, ChainIs
<1>7. cur \in Nat
  <2>1. Length(e) = e.size /\ Whole(fat[1], disk, e)
    BY <1>4 DEF Length, IInv, Sound
  <2>2. Run(fat[1], e.first, e.size) /\ i + 1 \in 1..e.size
    BY <1>4, <1>5, <2>1 DEF Whole
  <2>3. cur \in Clusters
    BY <1>6, <2>2 DEF Run
  <2> QED BY <2>3, Volume
<1>12. IsFresh(q, "writeat", d, n, data, 0, 0, cur, "poke")
  <2> PICK k : k = "writeat"
    OBVIOUS
  <2>1. k \in {"write", "writeat", "delete", "mkdir", "rmdir"} /\ d \in Clusters \cup {Root}
    BY FoldersFact
  <2> PICK c : c = Call(k, d, n)
    OBVIOUS
  <2>2. IsFresh(c, k, d, n, <<>>, 0, 0, 0, "idle")
    BY ONLY <2>1, n \in Names, c = Call(k, d, n), CallFact
  <2>3. q = [c EXCEPT !.data = data, !.cur = cur, !.pc = "poke"]
    OBVIOUS
  <2>4. data \in Contents /\ cur \in Nat /\ "poke" \in {"idle", "alloc", "link", "data", "seal", "entry", "poke", "release", "row", "fsinfo", "done"}
    BY <1>5, <1>7
  <2>5. q \in OpsOf(<<>>)
    BY ONLY <2>2, <2>3, <2>4 DEF OpsOf, IsFresh
  <2>6. /\ q.first = c.first /\ q.prev = c.prev /\ q.i = c.i /\ q.cp = c.cp /\ q.kind = c.kind /\ q.dir = c.dir /\ q.name = c.name
        /\ q.data = data /\ q.slot = c.slot /\ q.old = c.old /\ q.cur = cur /\ q.pc = "poke"
    BY ONLY <2>2, <2>3 DEF OpsOf, IsFresh
  <2>7. c.kind = k /\ c.dir = d /\ c.name = n /\ c.first = 0 /\ c.prev = 0 /\ c.i = 0 /\ c.cp = 1
        /\ c.data = <<>> /\ c.slot = 0 /\ c.old = 0 /\ c.cur = 0
    BY <2>2 DEF IsFresh
  <2> QED BY <2>5, <2>6, <2>7 DEF IsFresh
<1> PICK b : b = NodeAt(q.dir, q.name)
  OBVIOUS
<1> PICK p : p = Before(q, b)
  OBVIOUS
<1> PICK w : w = "writeat"
  OBVIOUS
<1> PICK pc : pc = "poke"
  OBVIOUS
<1>8. /\ p \in OpsOf(b) /\ p.before = b /\ p.kind = w /\ p.dir = d /\ p.name = n /\ p.data = data
      /\ p.cur = cur /\ p.pc = pc /\ p.i = 0
  <2>2. IsFresh(q, w, d, n, data, 0, 0, cur, pc) /\ p = Before(q, b)
    BY <1>12
  <2> QED BY ONLY <2>2, FreshFact
<1> PICK k : k = i + 1
  OBVIOUS
<1>9. k + Len(data) - 0 <= e.size + 1
  BY <1>4, <1>5
<1>10. PokeOk(fat[1], disk, p)
  <2>1. p.kind = "writeat" /\ p.i < Len(p.data) /\ p.name \in Names
    BY <1>5, <1>8
  <2>2. /\ At(disk, p.dir, s) /\ disk[p.dir][s].kind = "file" /\ disk[p.dir][s].name = p.name
        /\ k + Len(p.data) - p.i <= disk[p.dir][s].size + 1
        /\ p.cur = ChainOf(fat[1], disk[p.dir][s].first)[k] /\ k \in Nat \ {0}
    BY <1>4, <1>5, <1>6, <1>8, <1>9
  <2> QED BY <1>2, <2>1, <2>2 DEF PokeOk
<1>11. CallOk(fat[1], disk, p)
  BY <1>8, <1>10 DEF CallOk
<1> QED BY <1>3, <1>12, <1>11, BeginFact

(* The walk to the cluster meets a FAT sector that cannot be read.         *)
LEMMA PokeRefused ==
  ASSUME IInv, NEW d \in Folders, NEW n \in Names, Begin([Call("writeat", d, n) EXCEPT !.pc = "done"])
  PROVE  IInv' /\ QuietStep /\ Begun
<1> PICK k : k = "writeat"
  OBVIOUS
<1> PICK c : c = Call(k, d, n)
  OBVIOUS
<1> PICK pc : pc = "done"
  OBVIOUS
<1> PICK q : q = [c EXCEPT !.pc = pc]
  OBVIOUS
<1> PICK b : b = NodeAt(q.dir, q.name)
  OBVIOUS
<1> PICK p : p = Before(q, b)
  OBVIOUS
<1> PICK data : data = <<>>
  OBVIOUS
<1>1. k \in {"write", "writeat", "delete", "mkdir", "rmdir"} /\ d \in Clusters \cup {Root}
  BY FoldersFact
<1>2. IsFresh(c, k, d, n, data, 0, 0, 0, "idle")
  BY ONLY <1>1, n \in Names, c = Call(k, d, n), data = <<>>, CallFact
<1>3. IsFresh(q, k, d, n, data, 0, 0, 0, pc)
  <2>1. q = [c EXCEPT !.pc = pc]
    OBVIOUS
  <2>2. pc \in {"idle", "alloc", "link", "data", "seal", "entry", "poke", "release", "row", "fsinfo", "done"}
    OBVIOUS
  <2>3. q \in OpsOf(<<>>)
    BY ONLY <1>2, <2>1, <2>2 DEF OpsOf, IsFresh
  <2>4. /\ q.first = c.first /\ q.prev = c.prev /\ q.i = c.i /\ q.cp = c.cp /\ q.kind = c.kind /\ q.dir = c.dir /\ q.name = c.name
        /\ q.data = c.data /\ q.slot = c.slot /\ q.old = c.old /\ q.cur = c.cur /\ q.pc = pc
    BY ONLY <1>2, <2>1 DEF OpsOf, IsFresh
  <2> QED BY <1>2, <2>3, <2>4 DEF IsFresh
<1>4. p.pc = pc
  <2>1. p = Before(q, b)
    OBVIOUS
  <2> QED BY ONLY <1>3, <2>1, FreshFact
<1>5. CallOk(fat[1], disk, p)
  BY <1>4, DoneOk
<1> QED BY <1>3, <1>5, BeginFact

LEMMA WriteAtStart ==
  ASSUME IInv, NEW d \in Folders, NEW n \in Names, NEW i \in 0..(MaxLen - 1), NEW data \in Written \ {<<>>},
         WriteAt(d, n, i, data)
  PROVE  IInv' /\ QuietStep /\ Begun
<1>1. CASE Begin([Call("writeat", d, n) EXCEPT !.pc = "done"])
  BY <1>1, PokeRefused
<1>2. CASE ~Begin([Call("writeat", d, n) EXCEPT !.pc = "done"])
  <2>1. \E s \in Find(d, n) \ {0} :
          /\ disk[d][s].kind = "file"
          /\ i + Len(data) <= disk[d][s].size
          /\ Begin([Call("writeat", d, n) EXCEPT
                      !.data = data, !.cur = Chain(disk[d][s].first)[i + 1], !.pc = "poke"])
    BY <1>2 DEF WriteAt
  <2> QED BY <2>1, PokeStart
<1> QED BY <1>1, <1>2

(* fat_delete and fat_rmdir.                                               *)
LEMMA RemoveStart ==
  ASSUME IInv, NEW d \in Folders, NEW n \in Names, NEW s \in Slots, disk[d][s].name = n, NEW kind, NEW old, old = disk[d][s].first,
         \/ kind = "delete" /\ disk[d][s].kind = "file"
         \/ kind = "rmdir" /\ disk[d][s].kind = "dir" /\ disk[disk[d][s].first] = EmptyDir,
         NEW q, IsFresh(q, kind, d, n, <<>>, s, old, 0, "entry"), Begin(q)
  PROVE  IInv' /\ QuietStep /\ Begun
<1>2. old \in Clusters \cup {0}
  BY EntryIn
<1>3. <<>> \in Contents /\ 0 \in Nat /\ d \in DirsOf(disk) /\ d \in Clusters \cup {Root}
  BY FoldersFact, NoOpFact, DataEmpty
<1> PICK b : b = NodeAt(q.dir, q.name)
  OBVIOUS
<1> PICK p : p = Before(q, b)
  OBVIOUS
<1> PICK pc : pc = "entry"
  OBVIOUS
<1> PICK data : data = <<>>
  OBVIOUS
<1>4. /\ p \in OpsOf(b) /\ p.before = b /\ p.kind = kind /\ p.dir = d /\ p.name = n
      /\ p.slot = s /\ p.old = old /\ p.pc = pc
  <2>2. IsFresh(q, kind, d, n, data, s, old, 0, pc) /\ p = Before(q, b)
    OBVIOUS
  <2> QED BY ONLY <2>2, FreshFact
<1>5. Target(disk, p)
  BY <1>3, <1>4 DEF Target
<1>6. EntryOk(fat[1], disk, p) /\ p.pc = "entry"
  BY <1>4, <1>5 DEF EntryOk
<1>7. CallOk(fat[1], disk, p)
  BY <1>6 DEF CallOk
<1> QED BY <1>7, BeginFact

LEMMA DeleteStart ==
  ASSUME IInv, NEW d \in Folders, NEW n \in Names, DeleteFile(d, n) PROVE IInv' /\ QuietStep /\ Begun
<1>1. PICK s \in {FileSlotOf(d, n)} \ {0} :
       Begin([Call("delete", d, n) EXCEPT !.slot = s, !.old = disk[d][s].first, !.pc = "entry"])
  BY DEF DeleteFile
<1>4. s \in Slots /\ disk[d][s].kind = "file" /\ disk[d][s].name = n
  <2> PICK hits : hits = {t \in Slots : disk[d][t].kind = "file" /\ disk[d][t].name = n}
    OBVIOUS
  <2>1. s = IF hits = {} THEN 0 ELSE Min(hits)
    BY <1>1 DEF FileSlotOf, FirstSlot
  <2>2. hits # {} /\ hits \subseteq Slots /\ hits \subseteq Nat
    BY <1>1, <2>1, Volume
  <2>3. s \in hits
    BY <2>1, <2>2, MinFact
  <2> QED BY <2>3
<1> PICK old : old = disk[d][s].first
  OBVIOUS
<1> PICK q : q = [Call("delete", d, n) EXCEPT !.slot = s, !.old = old, !.pc = "entry"]
  OBVIOUS
<1>2. IsFresh(q, "delete", d, n, <<>>, s, old, 0, "entry")
  <2> PICK k : k = "delete"
    OBVIOUS
  <2>1. k \in {"write", "writeat", "delete", "mkdir", "rmdir"} /\ d \in Clusters \cup {Root}
    BY FoldersFact
  <2> PICK c : c = Call(k, d, n)
    OBVIOUS
  <2>2. IsFresh(c, k, d, n, <<>>, 0, 0, 0, "idle")
    BY ONLY <2>1, n \in Names, c = Call(k, d, n), CallFact
  <2>3. q = [c EXCEPT !.slot = s, !.old = old, !.pc = "entry"]
    OBVIOUS
  <2>4. s \in Slots \cup {0} /\ old \in Clusters \cup {0} /\ "entry" \in {"idle", "alloc", "link", "data", "seal", "entry", "poke", "release", "row", "fsinfo", "done"}
    BY <1>4, EntryIn
  <2>5. q \in OpsOf(<<>>)
    BY ONLY <2>2, <2>3, <2>4 DEF OpsOf, IsFresh
  <2>6. /\ q.first = c.first /\ q.prev = c.prev /\ q.i = c.i /\ q.cp = c.cp /\ q.kind = c.kind /\ q.dir = c.dir /\ q.name = c.name
        /\ q.data = c.data /\ q.slot = s /\ q.old = old /\ q.cur = c.cur /\ q.pc = "entry"
    BY ONLY <2>2, <2>3 DEF OpsOf, IsFresh
  <2>7. c.kind = k /\ c.dir = d /\ c.name = n /\ c.first = 0 /\ c.prev = 0 /\ c.i = 0 /\ c.cp = 1
        /\ c.data = <<>> /\ c.slot = 0 /\ c.old = 0 /\ c.cur = 0
    BY <2>2 DEF IsFresh
  <2> QED BY <2>5, <2>6, <2>7 DEF IsFresh
<1>3. Begin(q)
  BY <1>1
<1> QED BY <1>2, <1>3, <1>4, RemoveStart

LEMMA RemoveDirStart ==
  ASSUME IInv, NEW d \in Folders, NEW n \in Names, RemoveDir(d, n) PROVE IInv' /\ QuietStep /\ Begun
<1>1. PICK s \in Find(d, n) \ {0} :
       /\ disk[d][s].kind = "dir"
       /\ IsEmptyFolder(disk[d][s].first)
       /\ Begin([Call("rmdir", d, n) EXCEPT !.slot = s, !.old = disk[d][s].first, !.pc = "entry"])
  BY DEF RemoveDir
<1> PICK old : old = disk[d][s].first
  OBVIOUS
<1> PICK q : q = [Call("rmdir", d, n) EXCEPT !.slot = s, !.old = old, !.pc = "entry"]
  OBVIOUS
<1>2. IsFresh(q, "rmdir", d, n, <<>>, s, old, 0, "entry")
  <2> PICK k : k = "rmdir"
    OBVIOUS
  <2>1. k \in {"write", "writeat", "delete", "mkdir", "rmdir"} /\ d \in Clusters \cup {Root}
    BY FoldersFact
  <2> PICK c : c = Call(k, d, n)
    OBVIOUS
  <2>2. IsFresh(c, k, d, n, <<>>, 0, 0, 0, "idle")
    BY ONLY <2>1, n \in Names, c = Call(k, d, n), CallFact
  <2>3. q = [c EXCEPT !.slot = s, !.old = old, !.pc = "entry"]
    OBVIOUS
  <2>4. s \in Slots \cup {0} /\ old \in Clusters \cup {0} /\ "entry" \in {"idle", "alloc", "link", "data", "seal", "entry", "poke", "release", "row", "fsinfo", "done"}
    BY <1>1, FindFact, EntryIn
  <2>5. q \in OpsOf(<<>>)
    BY ONLY <2>2, <2>3, <2>4 DEF OpsOf, IsFresh
  <2>6. /\ q.first = c.first /\ q.prev = c.prev /\ q.i = c.i /\ q.cp = c.cp /\ q.kind = c.kind /\ q.dir = c.dir /\ q.name = c.name
        /\ q.data = c.data /\ q.slot = s /\ q.old = old /\ q.cur = c.cur /\ q.pc = "entry"
    BY ONLY <2>2, <2>3 DEF OpsOf, IsFresh
  <2>7. c.kind = k /\ c.dir = d /\ c.name = n /\ c.first = 0 /\ c.prev = 0 /\ c.i = 0 /\ c.cp = 1
        /\ c.data = <<>> /\ c.slot = 0 /\ c.old = 0 /\ c.cur = 0
    BY <2>2 DEF IsFresh
  <2> QED BY <2>5, <2>6, <2>7 DEF IsFresh
<1>3. Begin(q) /\ disk[d][s].kind = "dir" /\ disk[disk[d][s].first] = EmptyDir /\ s \in Slots /\ disk[d][s].name = n
  BY <1>1, FindFact DEF IsEmptyFolder
<1> QED BY <1>2, <1>3, RemoveStart

LEMMA MakeDirStart ==
  ASSUME IInv, NEW d \in Folders, NEW n \in Names, MakeDir(d, n) PROVE IInv' /\ QuietStep /\ Begun
<1> PICK slot : slot = FreeSlot(d)
  OBVIOUS
<1> PICK q : q = [Call("mkdir", d, n) EXCEPT !.slot = slot, !.pc = "alloc"]
  OBVIOUS
<1>1. Begin(q) /\ slot # 0
  BY DEF MakeDir
<1>2. slot \in Slots /\ disk[d][slot].kind = "none" /\ NewName(disk, d, n)
  BY <1>1, FreeSlotFact, FindNone DEF MakeDir
<1>8. IsFresh(q, "mkdir", d, n, <<>>, slot, 0, 0, "alloc")
  <2> PICK k : k = "mkdir"
    OBVIOUS
  <2>1. k \in {"write", "writeat", "delete", "mkdir", "rmdir"} /\ d \in Clusters \cup {Root}
    BY FoldersFact
  <2> PICK c : c = Call(k, d, n)
    OBVIOUS
  <2>2. IsFresh(c, k, d, n, <<>>, 0, 0, 0, "idle")
    BY ONLY <2>1, n \in Names, c = Call(k, d, n), CallFact
  <2>3. q = [c EXCEPT !.slot = slot, !.pc = "alloc"]
    OBVIOUS
  <2>4. slot \in Slots \cup {0} /\ "alloc" \in {"idle", "alloc", "link", "data", "seal", "entry", "poke", "release", "row", "fsinfo", "done"}
    BY <1>2
  <2>5. q \in OpsOf(<<>>)
    BY ONLY <2>2, <2>3, <2>4 DEF OpsOf, IsFresh
  <2>6. /\ q.first = c.first /\ q.prev = c.prev /\ q.i = c.i /\ q.cp = c.cp /\ q.kind = c.kind /\ q.dir = c.dir /\ q.name = c.name
        /\ q.data = c.data /\ q.slot = slot /\ q.old = c.old /\ q.cur = c.cur /\ q.pc = "alloc"
    BY ONLY <2>2, <2>3 DEF OpsOf, IsFresh
  <2>7. c.kind = k /\ c.dir = d /\ c.name = n /\ c.first = 0 /\ c.prev = 0 /\ c.i = 0 /\ c.cp = 1
        /\ c.data = <<>> /\ c.slot = 0 /\ c.old = 0 /\ c.cur = 0
    BY <2>2 DEF IsFresh
  <2> QED BY <2>5, <2>6, <2>7 DEF IsFresh
<1>3. <<>> \in Contents /\ 0 \in Nat /\ d \in DirsOf(disk) /\ d \in Clusters \cup {Root} /\ 0 \in Clusters \cup {0}
  BY FoldersFact, DataEmpty
<1> PICK b : b = NodeAt(q.dir, q.name)
  OBVIOUS
<1> PICK p : p = Before(q, b)
  OBVIOUS
<1> PICK kind : kind = "mkdir"
  OBVIOUS
<1> PICK pc : pc = "alloc"
  OBVIOUS
<1> PICK data : data = <<>>
  OBVIOUS
<1>4. /\ p \in OpsOf(b) /\ p.before = b /\ p.kind = kind /\ p.dir = d /\ p.name = n
      /\ p.slot = slot /\ p.old = 0 /\ p.pc = pc /\ p.first = 0 /\ p.i = 0 /\ p.cp = 1
  <2>2. IsFresh(q, kind, d, n, data, slot, 0, 0, pc) /\ p = Before(q, b)
    BY <1>8
  <2> QED BY ONLY <2>2, FreshFact
<1>5. Target(disk, p)
  BY <1>2, <1>3, <1>4 DEF Target
<1>6. p.pc = IF Pieces(p) = 0 THEN "entry" ELSE "alloc"
  BY <1>4 DEF Pieces
<1>7. CallOk(fat[1], disk, p)
  BY <1>4, <1>5, <1>6, StartBuild
<1> QED
  <2>1. IsFresh(q, kind, d, n, data, slot, 0, 0, pc) /\ p = Before(q, NodeAt(q.dir, q.name)) /\ pc \in {"alloc", "entry", "poke"}
        /\ pc # "poke" /\ kind # "writeat" /\ Begin(q)
    BY <1>1, <1>8
  <2> QED BY <1>7, <2>1, BeginFact

LEMMA ReadStart ==
  ASSUME IInv, NEW d \in Folders, NEW n \in Names, NEW want \in 0..(MaxLen - 1), ReadAt(d, n, want)
  PROVE  IInv' /\ QuietStep
<1>1. UNCHANGED <<fat, disk, op, fsinfo, mounted, hint, fsDone>>
  BY DEF ReadAt, diskVars
<1> PICK s \in Find(d, n) \ {0} :
      \E cluster \in Clusters : at' = [first |-> disk[d][s].first, index |-> want, cluster |-> cluster]
  BY DEF ReadAt
<1>2. disk[d][s].first \in Clusters \cup {0}
  BY FindFact, EntryIn
<1>3. want \in Nat
  BY Volume
<1>4. at' \in [first: Clusters \cup {0}, index: Nat, cluster: Clusters \cup {0}]
  BY <1>2, <1>3
<1>5. Typed'
  BY <1>1, <1>4 DEF IInv, Typed
<1> QED BY <1>1, <1>5, StillStep

ToScan(z, r, live) == [z EXCEPT !.kind = "mount", !.pc = "row", !.cur = r, !.live = live]

LEMMA ToScanFact ==
  ASSUME NEW z, z \in OpsOf(<<>>), NEW r \in Nat, NEW live \in SUBSET Clusters, NEW p, p = ToScan(z, r, live)
  PROVE  /\ p \in OpsOf(<<>>) /\ p.pc = "row" /\ p.live = live /\ p.cur = r /\ p.cp = z.cp /\ p.before = <<>>
         /\ p.kind = "mount"
<1>1. p \in OpsOf(<<>>)
  BY DEF OpsOf, ToScan
<1>2. p.pc = "row" /\ p.live = live /\ p.cur = r /\ p.cp = z.cp /\ p.kind = "mount"
  BY DEF OpsOf, ToScan
<1>3. p.before = <<>>
  BY <1>1 DEF OpsOf
<1> QED BY <1>1, <1>2, <1>3

LEMMA MountStep == ASSUME IInv, Mount PROVE IInv' /\ QuietStep
<1>1. /\ UNCHANGED <<fat, disk, fsinfo>> /\ mounted' = TRUE /\ fsDone' = FALSE /\ hint' = 0 /\ at' = NoAt
      /\ Sound(fat[1], disk)
  BY DEF Mount, diskVars, IInv
<1>2. 0 \in 0..NClusters /\ 0 \in 0..(MaxLen + 1)
  BY Volume
<1> PICK z : z = NoOp
  OBVIOUS
<1>3. z \in OpsOf(<<>>) /\ z.before = <<>>
  <2>1. z \in OpsOf(<<>>)
    BY NoOpFact
  <2> QED BY <2>1 DEF OpsOf
<1> PICK p : p = op'
  OBVIOUS
<1>4. p \in OpsOf(p.before) /\ CallOk(fat[1], disk, p)
  <2>1. CASE p = ToScan(z, Min(Rows), Live)
    <3>1. Live = LiveOf(fat[1], disk) /\ Live \in SUBSET Clusters /\ Min(Rows) \in Nat
      BY ReachIs, LiveUp, RowsFact
    <3>2. p \in OpsOf(<<>>) /\ p.pc = "row" /\ p.live = Live /\ p.before = <<>>
      BY <1>3, <2>1, <3>1, ToScanFact
    <3>3. CallOk(fat[1], disk, p)
      BY <3>1, <3>2 DEF CallOk
    <3> QED BY <3>2, <3>3
  <2>2. CASE \E o : o = [z EXCEPT !.kind = "mount"] /\ p = Done(o, 0)
    <3>1. PICK o : o = [z EXCEPT !.kind = "mount"] /\ p = Done(o, 0)
      BY <2>2
    <3>2. o \in OpsOf(<<>>) /\ o.before = z.before
      <4>1. "mount" \in {"none", "write", "writeat", "delete", "mkdir", "rmdir", "mount"} /\ o = [z EXCEPT !.kind = "mount"]
        BY <3>1
      <4>2. o \in OpsOf(<<>>)
        BY ONLY <1>3, <4>1 DEF OpsOf
      <4>3. o.before = z.before
        BY ONLY <1>3, <4>1 DEF OpsOf
      <4> QED BY <4>2, <4>3
    <3>3. o \in OpsOf(o.before)
      BY <1>3, <3>2
    <3> PICK x : x = 0
      OBVIOUS
    <3>4. p = Done(o, x) /\ x \in 0..(MaxLen + 1)
      BY <1>2, <3>1
    <3>5. p \in OpsOf(o.before) /\ p.pc = "done" /\ p.before = o.before
      BY ONLY <3>3, <3>4, DoneFact
    <3> QED BY <3>5, DoneOk
  <2> QED BY <2>1, <2>2 DEF Mount, ToScan
<1> QED BY <1>1, <1>2, <1>4, NoAtFact, StillQuiet DEF IInv, Typed
-----------------------------------------------------------------------------
(* A freshly formatted volume is sound.                                    *)

LEMMA InitFact == Init => IInv
<1> SUFFICES ASSUME Init PROVE IInv
  OBVIOUS
<1> PICK ft : ft = fat[1]
  OBVIOUS
<1>1. fat \in [Copies -> Tables] /\ ft \in Tables /\ \A c \in Clusters : ft[c] = FREE
  BY Volume DEF Init, Tables
<1>2. Blank \in Payloads
  BY Volume DEF Blank
<1>3. disk \in Disks /\ disk[Root] = EmptyDir /\ disk[Root] \notin Payloads
  BY <1>2, NoEntryFact, Volume DEF Init, Disks
<1>4. \A s \in Slots : disk[Root][s].kind = "none"
  BY <1>3, NoEntryFact DEF EmptyDir
<1>5. DirsOf(disk) = {Root}
  <2>1. FirstsIn(disk, Root, {"dir"}) = {}
    BY <1>4 DEF FirstsIn
  <2>2. DirsClosed(disk, {Root})
    BY <2>1 DEF DirsClosed
  <2>3. {Root} \in SUBSET (Clusters \cup {Root})
    OBVIOUS
  <2>4. DirsOf(disk) \subseteq {Root}
    BY <2>2, <2>3 DEF DirsOf
  <2> QED BY <2>4, DirsUp
<1>6. \A d, s : ~At(disk, d, s)
  BY <1>4, <1>5 DEF At
<1>7. LiveOf(ft, disk) = {}
  <2>1. NamedIn(disk) = {}
    BY <1>4, <1>5 DEF NamedIn, FirstsIn
  <2>2. LiveClosed(ft, disk, {})
    BY <2>1 DEF LiveClosed
  <2> QED BY <2>2 DEF LiveOf
<1>8. Sound(ft, disk)
  BY <1>1, <1>3, <1>5, <1>6, <1>7 DEF Sound, OneOwner
<1>9. op \in OpsOf(op.before) /\ CallOk(ft, disk, op)
  <2> PICK z : z = NoOp
    OBVIOUS
  <2>1. z \in OpsOf(<<>>) /\ z.pc = "idle" /\ op = z
    BY NoOpFact DEF Init
  <2>2. z.before = <<>>
    BY <2>1 DEF OpsOf
  <2> QED BY <2>1, <2>2, DoneOk
<1>10. 0 \in 0..NClusters /\ NClusters \in 0..NClusters
  BY Volume
<1> QED BY <1>1, <1>3, <1>8, <1>9, <1>10, NoAtFact DEF IInv, Typed, Init
-----------------------------------------------------------------------------
(* Every step keeps the inductive invariant.                               *)

LEMMA NextFact == IInv /\ [Next]_vars => IInv'
<1> SUFFICES ASSUME IInv, [Next]_vars PROVE IInv'
  OBVIOUS
<1>1. CASE UNCHANGED vars
  BY <1>1 DEF vars, IInv, Typed
<1>2. CASE Step
  BY <1>2, UnknownStep, AllocStep, LinkStep, SealStep, FreeStep, DataStep, EntryStep, PokeStep,
     RepairStep, FinishStep, ReturnStep DEF Step
<1>3. CASE Start
  BY <1>3, WriteStart, WriteAtStart, DeleteStart, MakeDirStart, RemoveDirStart, ReadStart DEF Start
<1>4. CASE Refused \/ Mount \/ PowerCut
  BY <1>4, RefusedStep, MountStep, CutStep
<1> QED BY <1>1, <1>2, <1>3, <1>4 DEF Next

(* The inductive invariant: what is in the FAT, the folders and the call in *)
(* progress goes together before and after every sector write, power cuts   *)
(* and errors included.  IInv is defined with its parts above.              *)
THEOREM Invariant == Spec => []IInv
<1>1. Init => IInv
  BY InitFact
<1>2. IInv /\ [Next]_vars => IInv'
  BY NextFact
<1> QED BY <1>1, <1>2, PTL DEF Spec

(* The history of what the mount left alone.                               *)

LEMMA LeftKept ==
  ASSUME \/ UNCHANGED vars \/ MarkUnknown \/ Alloc \/ Link \/ Seal \/ ReleaseStep \/ WriteData \/ WriteEntry
         \/ Poke \/ FinishRepair \/ Return \/ Refused \/ Start \/ (RepairRow /\ ~ReadErrors)
  PROVE  left' = left
<1>1. CASE UNCHANGED vars \/ MarkUnknown \/ WriteData \/ WriteEntry \/ Poke \/ FinishRepair \/ Return \/ Refused
  BY <1>1 DEF vars, MarkUnknown, WriteData, WriteEntry, Poke, FinishRepair, Return, Refused, memVars
<1>2. CASE Alloc
  BY <1>2 DEF Alloc, FatPut
<1>3. CASE Link \/ Seal \/ ReleaseStep
  BY <1>3 DEF Link, Seal, ReleaseStep, FatPut
<1>4. CASE Start
  <2>1. PICK d \in Folders, n \in Names :
          \/ \E data \in Written, replace \in BOOLEAN : WriteFile(d, n, data, replace)
          \/ \E i \in 0..(MaxLen - 1), data \in Written \ {<<>>} : WriteAt(d, n, i, data)
          \/ DeleteFile(d, n)
          \/ MakeDir(d, n)
          \/ RemoveDir(d, n)
          \/ \E want \in 0..(MaxLen - 1) : ReadAt(d, n, want)
    BY <1>4 DEF Start
  <2>2. ASSUME NEW o, Begin(o) PROVE left' = left
    BY <2>2 DEF Begin
  <2>3. CASE \E data \in Written, replace \in BOOLEAN : WriteFile(d, n, data, replace)
    BY <2>2, <2>3 DEF WriteFile
  <2>4. CASE \E i \in 0..(MaxLen - 1), data \in Written \ {<<>>} : WriteAt(d, n, i, data)
    BY <2>2, <2>4 DEF WriteAt
  <2>5. CASE DeleteFile(d, n) \/ MakeDir(d, n) \/ RemoveDir(d, n)
    BY <2>2, <2>5 DEF DeleteFile, MakeDir, RemoveDir
  <2>6. CASE \E want \in 0..(MaxLen - 1) : ReadAt(d, n, want)
    BY <2>6 DEF ReadAt
  <2> QED BY <2>1, <2>3, <2>4, <2>5, <2>6
<1>5. CASE RepairRow /\ ~ReadErrors
  BY <1>5 DEF RepairRow
<1> QED BY <1>1, <1>2, <1>3, <1>4, <1>5

LEMMA LeftStep == LeftIs /\ [Next]_vars => LeftIs'
<1> SUFFICES ASSUME LeftIs, [Next]_vars PROVE LeftIs'
  OBVIOUS
<1>1. Leftover \in [lost: SUBSET Clusters, rows: SUBSET Rows] /\ NothingLeft \in [lost: SUBSET Clusters, rows: SUBSET Rows]
  BY DEF Leftover, NothingLeft, Used, Rows
<1>2. CASE Mount
  BY <1>1, <1>2 DEF Mount, LeftIs
<1>3. CASE PowerCut
  BY <1>1, <1>3 DEF PowerCut, LeftIs
<1>4. CASE RepairRow
  BY <1>1, <1>4 DEF RepairRow, LeftIs
<1> QED BY <1>2, <1>3, <1>4, LeftKept DEF Next, Step, LeftIs

LEMMA LeftInit == Init => LeftIs
BY DEF Init, LeftIs, NothingLeft

(* No step, failed or not, leaves a cluster number off the volume in the   *)
(* FAT, in a folder or in the call in progress.                            *)
THEOREM TypeCorrect == Spec => []TypeOK
<1>1. IInv /\ LeftIs => TypeOK
  BY TypedFact DEF IInv
<1> QED BY <1>1, LeftInit, LeftStep, Invariant, PTL DEF Spec
-----------------------------------------------------------------------------
(* What a sound volume shows a caller.                                     *)

LEMMA DanglingFact == Sound(fat[1], disk) => NoDangling
BY ReachIs DEF Sound, NoDangling

LEMMA WholeFact == Sound(fat[1], disk) => WholeChains
<1> SUFFICES ASSUME Sound(fat[1], disk), NEW d \in LiveDirs
             PROVE  /\ IsFolder(d)
                    /\ \A s \in Slots : disk[d][s].kind = "file" =>
                         LET e == disk[d][s]
                             ch == Chain(e.first)
                         IN  IF e.size = 0 THEN e.first = 0
                             ELSE /\ \A k \in 1..e.size : ch[k] \in Clusters /\ disk[ch[k]] \in Payloads
                                  /\ fat[1][ch[e.size]] = EOC
  BY DEF WholeChains
<1> PICK ft : ft = fat[1]
  OBVIOUS
<1>1. d \in DirsOf(disk) /\ disk[d] \notin Payloads
  BY ReachIs DEF Sound
<1>2. ASSUME NEW s \in Slots, NEW e, e = disk[d][s], e.kind = "file"
      PROVE  IF e.size = 0 THEN e.first = 0
             ELSE /\ \A k \in 1..e.size : ChainOf(ft, e.first)[k] \in Clusters /\ disk[ChainOf(ft, e.first)[k]] \in Payloads
                  /\ ft[ChainOf(ft, e.first)[e.size]] = EOC
  <2>1. At(disk, d, s)
    BY <1>1, <1>2 DEF At
  <2>2. Whole(ft, disk, e) /\ Length(e) = e.size
    BY <1>2, <2>1 DEF Sound, Length
  <2> QED BY <1>2, <2>2 DEF Whole, Run
<1>3. \A first : Chain(first) = ChainOf(ft, first)
  BY ChainIs
<1> QED BY <1>1, <1>2, <1>3 DEF IsFolder

(* Who leads to a cluster: the operator NoCrossLink counts with.           *)
Owners(folders, live, c) ==
  {o \in folders \X Slots : disk[o[1]][o[2]].kind # "none" /\ disk[o[1]][o[2]].first = c}
  \cup {<<x>> : x \in {y \in live : fat[1][y] = c}}

LEMMA OwnersFact ==
  ASSUME Sound(fat[1], disk), NEW c, NEW o
  PROVE  o \in Owners(Folders, Live, c) <=>
           \/ \E d, s : o = <<d, s>> /\ At(disk, d, s) /\ disk[d][s].first = c
           \/ \E x \in LiveOf(fat[1], disk) : o = <<x>> /\ fat[1][x] = c
<1>1. \A d, s : d \in Folders /\ s \in Slots /\ disk[d][s].kind # "none" <=> At(disk, d, s)
  <2>1. ASSUME NEW d, NEW s, d \in DirsOf(disk), s \in Slots PROVE disk[d][s].kind \in {"none", "file", "dir"}
    <3>1. disk[d] \in [Slots -> Entries]
      BY <2>1, DirsUp, SectorIs DEF Sound, Disks
    <3>2. disk[d][s] \in Entries
      BY <2>1, <3>1
    <3> QED BY <3>2 DEF Entries
  <2>2. \A d : d \in Folders <=> d \in DirsOf(disk) /\ disk[d] \notin Payloads
    BY ReachIs DEF Folders, IsFolder
  <2> QED BY <2>1, <2>2 DEF At
<1>2. o \in {p \in Folders \X Slots : disk[p[1]][p[2]].kind # "none" /\ disk[p[1]][p[2]].first = c}
        <=> \E d, s : o = <<d, s>> /\ At(disk, d, s) /\ disk[d][s].first = c
  BY <1>1
<1>3. Live = LiveOf(fat[1], disk)
  BY ReachIs
<1> QED BY <1>2, <1>3 DEF Owners

LEMMA OwnerExists ==
  ASSUME NEW ft, NEW dk, Sound(ft, dk), NEW c \in LiveOf(ft, dk)
  PROVE  (\E d, s : At(dk, d, s) /\ dk[d][s].first = c) \/ (\E x \in LiveOf(ft, dk) : ft[x] = c)
<1> SUFFICES ASSUME \A d, s : At(dk, d, s) => dk[d][s].first # c, \A x \in LiveOf(ft, dk) : ft[x] # c
             PROVE  FALSE
  OBVIOUS
<1> PICK X : X = LiveOf(ft, dk) \ {c}
  OBVIOUS
<1>1. \A d, s : At(dk, d, s) /\ dk[d][s].first \in Clusters => dk[d][s].first \in X
  BY LiveUp
<1>2. \A x \in LiveOf(ft, dk) \cap X : ft[x] \in Clusters => ft[x] \in X
  BY LiveUp
<1>3. LiveOf(ft, dk) \subseteq X
  BY <1>1, <1>2, LiveDown
<1> QED BY <1>3

LEMMA CrossLinkFact == Sound(fat[1], disk) => NoCrossLink
<1> SUFFICES ASSUME Sound(fat[1], disk), NEW c \in Live
             PROVE  Cardinality(Owners(Folders, Live, c)) = 1
  BY DEF NoCrossLink, Owners
<1>1. c \in LiveOf(fat[1], disk) /\ c \in Clusters
  BY ReachIs, LiveUp
<1>2. PICK w : w \in Owners(Folders, Live, c)
  <2>1. CASE \E d, s : At(disk, d, s) /\ disk[d][s].first = c
    <3>1. PICK d, s : At(disk, d, s) /\ disk[d][s].first = c
      BY <2>1
    <3>2. <<d, s>> \in Owners(Folders, Live, c)
      BY <3>1, OwnersFact
    <3> QED BY <3>2
  <2>2. CASE \E x \in LiveOf(fat[1], disk) : fat[1][x] = c
    <3>1. PICK x \in LiveOf(fat[1], disk) : fat[1][x] = c
      BY <2>2
    <3>2. <<x>> \in Owners(Folders, Live, c)
      BY <3>1, OwnersFact
    <3> QED BY <3>2
  <2> QED BY <1>1, <2>1, <2>2, OwnerExists
<1>3. ASSUME NEW o \in Owners(Folders, Live, c) PROVE o = w
  <2>1. CASE \E d, s : w = <<d, s>> /\ At(disk, d, s) /\ disk[d][s].first = c
    <3>1. PICK d, s : w = <<d, s>> /\ At(disk, d, s) /\ disk[d][s].first = c
      BY <2>1
    <3>2. CASE \E e, t : o = <<e, t>> /\ At(disk, e, t) /\ disk[e][t].first = c
      BY <1>1, <3>1, <3>2 DEF Sound, OneOwner
    <3>3. CASE \E x \in LiveOf(fat[1], disk) : o = <<x>> /\ fat[1][x] = c
      BY <1>1, <3>1, <3>3 DEF Sound, OneOwner
    <3> QED BY <3>2, <3>3, OwnersFact
  <2>2. CASE \E x \in LiveOf(fat[1], disk) : w = <<x>> /\ fat[1][x] = c
    <3>1. PICK x \in LiveOf(fat[1], disk) : w = <<x>> /\ fat[1][x] = c
      BY <2>2
    <3>2. CASE \E e, t : o = <<e, t>> /\ At(disk, e, t) /\ disk[e][t].first = c
      BY <1>1, <3>1, <3>2 DEF Sound, OneOwner
    <3>3. CASE \E y \in LiveOf(fat[1], disk) : o = <<y>> /\ fat[1][y] = c
      BY <1>1, <3>1, <3>3 DEF Sound, OneOwner
    <3> QED BY <3>2, <3>3, OwnersFact
  <2> QED BY <1>2, <2>1, <2>2, OwnersFact
<1>4. Owners(Folders, Live, c) = {w}
  BY <1>2, <1>3
<1> QED BY <1>4, FS_Singleton

(* At every instant, whatever the disk failed to read or write and wherever *)
(* the power was cut: what a caller can reach is marked used, owned once,   *)
(* and each file's chain is as long as its entry says and ends there.       *)
THEOREM ChainsAreSound == Spec => []ChainsSound
<1>1. IInv => ChainsSound
  BY DanglingFact, CrossLinkFact, WholeFact DEF IInv, ChainsSound
<1> QED BY <1>1, Invariant, PTL
-----------------------------------------------------------------------------
(* No name twice.                                                          *)

LEMMA EntryHow ==
  ASSUME IInv, WriteEntry
  PROVE  /\ op \in OpsOf(op.before) /\ EntryOk(fat[1], disk, op) /\ Sound(fat[1], disk) /\ fat' = fat
         /\ op.kind \in {"write", "delete", "mkdir", "rmdir"}
         /\ \/ disk' = disk /\ op' \in {Done(op, 0), Failed(op)}
            \/ disk' = Put(disk, op.dir, op.slot, EntryOf(op)) /\ op' = Release(op, op.old, "ok")
<1>1. op \in OpsOf(op.before) /\ EntryOk(fat[1], disk, op) /\ Sound(fat[1], disk) /\ fat' = fat
  BY DEF IInv, Typed, CallOk, WriteEntry
<1>2. op.kind \in {"write", "delete", "mkdir", "rmdir"}
  BY <1>1 DEF EntryOk, Target
<1>3. CASE disk' = [disk EXCEPT ![op.dir][op.slot] = NewEntry] /\ op' = Release(op, op.old, "ok")
  <2>1. disk' = Put(disk, op.dir, op.slot, EntryOf(op))
    BY <1>3 DEF Put, NewEntry, EntryOf, FileEntry
  <2> QED BY <1>1, <1>2, <1>3, <2>1
<1>4. CASE disk' = disk /\ op' \in {Done(op, 0), Failed(op)}
  BY <1>1, <1>2, <1>4
<1> QED BY <1>3, <1>4 DEF WriteEntry

(* What every folder holds once the entry is written.                      *)
LEMMA EntryFolders ==
  ASSUME NEW ft, NEW dk, Sound(ft, dk), NEW o, o \in OpsOf(o.before), EntryOk(ft, dk, o),
         NEW old, old = dk[o.dir][o.slot], NEW e, e = EntryOf(o),
         NEW ek, ek = Put(dk, o.dir, o.slot, e)
  PROVE  /\ DirsOf(ek) = (DirsOf(dk) \ OwnDir(old)) \cup OwnDir(e)
         /\ \A d \in OwnDir(e) : ek[d] = EmptyDir /\ d \notin DirsOf(dk) /\ d # o.dir
         /\ \A d \in DirsOf(dk) : d # o.dir => ek[d] = dk[d]
         /\ ek[o.dir][o.slot] = e /\ \A t \in Slots : t # o.slot => ek[o.dir][t] = dk[o.dir][t]
         /\ o.dir \in DirsOf(ek) /\ o.dir \in DirsOf(dk) /\ o.slot \in Slots
<1>1. DirsOf(ek) = (DirsOf(dk) \ OwnDir(old)) \cup OwnDir(e)
  BY EntryPut
<1>2. /\ old \in Entries /\ e \in Entries /\ dk[o.dir] \notin Payloads /\ dk \in Disks
      /\ o.dir \in DirsOf(dk) /\ o.dir \in Clusters \cup {Root} /\ o.slot \in Slots
      /\ old.kind # "none" => At(dk, o.dir, o.slot)
      /\ old.kind = "dir" => o.kind = "rmdir" /\ dk[old.first] = EmptyDir
      /\ e.kind = "dir" => dk[e.first] = EmptyDir /\ e.first \in Clusters \ LiveOf(ft, dk)
  BY EntryShape DEF Sound
<1>3. /\ ek[o.dir][o.slot] = e
      /\ \A x \in Clusters \cup {Root} : x # o.dir => ek[x] = dk[x]
      /\ \A t \in Slots : t # o.slot => ek[o.dir][t] = dk[o.dir][t]
  BY <1>2, PutFact
<1>4. ASSUME NEW d \in OwnDir(e) PROVE ek[d] = EmptyDir /\ d \notin DirsOf(dk) /\ d # o.dir
  <2>1. e.kind = "dir" /\ d = e.first
    BY DEF OwnDir
  <2>2. d \in Clusters /\ d \notin DirsOf(dk)
    BY <1>2, <2>1, DirsLive, Volume
  <2> QED BY <1>2, <1>3, <2>1, <2>2
<1>5. o.dir \notin OwnDir(old)
  <2>1. CASE old.kind = "dir"
    <3>1. dk[o.dir][o.slot].kind = "dir" /\ o.slot \in Slots
      BY <1>2, <2>1
    <3>2. dk[o.dir] # EmptyDir
      BY <3>1, NoEntryFact
    <3> QED BY <1>2, <2>1, <3>2 DEF OwnDir
  <2>2. CASE old.kind # "dir"
    BY <2>2 DEF OwnDir
  <2> QED BY <2>1, <2>2
<1>6. \A d \in DirsOf(dk) : d # o.dir => ek[d] = dk[d]
  BY <1>3, DirsUp
<1> QED BY <1>1, <1>2, <1>3, <1>4, <1>5, <1>6

NamesOnce(dk) ==
  ReadErrors \/ \A d, s, t : At(dk, d, s) /\ At(dk, d, t) /\ dk[d][s].name = dk[d][t].name => s = t

LEMMA NamesFact == Sound(fat[1], disk) /\ ~ReadErrors => (NamesOnce(disk) <=> UniqueNames)
<1> SUFFICES ASSUME Sound(fat[1], disk), ~ReadErrors PROVE NamesOnce(disk) <=> UniqueNames
  OBVIOUS
<1>1. \A d, s : d \in Folders /\ s \in Slots /\ disk[d][s].kind # "none" <=> At(disk, d, s)
  <2>1. ASSUME NEW d, NEW s, d \in DirsOf(disk), s \in Slots PROVE disk[d][s].kind \in {"none", "file", "dir"}
    <3>1. disk[d] \in [Slots -> Entries]
      BY <2>1, DirsUp, SectorIs DEF Sound, Disks
    <3>2. disk[d][s] \in Entries
      BY <2>1, <3>1
    <3> QED BY <3>2 DEF Entries
  <2>2. \A d : d \in Folders <=> d \in DirsOf(disk) /\ disk[d] \notin Payloads
    BY ReachIs DEF Folders, IsFolder
  <2> QED BY <2>1, <2>2 DEF At
<1> QED BY <1>1 DEF NamesOnce, UniqueNames

LEMMA NamesKeep ==
  ASSUME NEW dk, NEW ek, DirsOf(ek) = DirsOf(dk), \A d \in DirsOf(dk) : ek[d] = dk[d], NamesOnce(dk)
  PROVE  NamesOnce(ek)
BY DEF NamesOnce, At

LEMMA NamesEntry ==
  ASSUME NEW ft, NEW dk, Sound(ft, dk), NEW o, o \in OpsOf(o.before), EntryOk(ft, dk, o), NamesOnce(dk),
         NEW ek, ek = Put(dk, o.dir, o.slot, EntryOf(o))
  PROVE  NamesOnce(ek)
<1> SUFFICES ASSUME ~ReadErrors, NEW d, NEW s, NEW t, At(ek, d, s), At(ek, d, t), ek[d][s].name = ek[d][t].name, s # t
             PROVE  FALSE
  BY DEF NamesOnce
<1> PICK old : old = dk[o.dir][o.slot]
  OBVIOUS
<1> PICK e : e = EntryOf(o)
  OBVIOUS
<1>1. /\ DirsOf(ek) = (DirsOf(dk) \ OwnDir(old)) \cup OwnDir(e)
      /\ \A x \in OwnDir(e) : ek[x] = EmptyDir
      /\ \A x \in DirsOf(dk) : x # o.dir => ek[x] = dk[x]
      /\ ek[o.dir][o.slot] = e /\ \A x \in Slots : x # o.slot => ek[o.dir][x] = dk[o.dir][x]
      /\ o.dir \in DirsOf(dk) /\ o.slot \in Slots
  BY EntryFolders
<1>2. /\ old.kind # "none" => At(dk, o.dir, o.slot) /\ old.name = o.name
      /\ old.kind = "none" => NewName(dk, o.dir, o.name)
      /\ e.kind # "none" => e.name = o.name
      /\ dk[o.dir] \notin Payloads
  BY EntryShape
<1>3. s \in Slots /\ t \in Slots /\ d \in DirsOf(ek) /\ ek[d][s].kind # "none" /\ ek[d][t].kind # "none"
  BY DEF At
<1>4. d \notin OwnDir(e) /\ d \in DirsOf(dk)
  BY <1>1, <1>3, NoEntryFact
<1>5. d = o.dir
  <2>1. CASE d # o.dir
    <3>1. At(dk, d, s) /\ At(dk, d, t)
      BY <1>1, <1>4, <2>1 DEF At
    <3> QED BY <1>1, <1>4, <2>1, <3>1 DEF NamesOnce
  <2> QED BY <2>1
<1>6. ASSUME NEW x \in Slots, x # o.slot, ek[o.dir][x].kind \in {"file", "dir"}, ek[o.dir][x].name = o.name,
             e.kind # "none"
      PROVE  FALSE
  <2>1. At(dk, o.dir, x) /\ dk[o.dir][x].name = o.name
    BY <1>1, <1>2, <1>6 DEF At
  <2>2. CASE old.kind = "none"
    BY <1>2, <2>1, <2>2 DEF NewName, At
  <2>3. CASE old.kind # "none"
    BY <1>2, <1>6, <2>1, <2>3 DEF NamesOnce
  <2> QED BY <2>2, <2>3
<1>7. ek[o.dir][s].kind \in {"file", "dir"} /\ ek[o.dir][t].kind \in {"file", "dir"}
  BY <1>5 DEF At
<1>8. CASE s = o.slot
  <2>1. ek[o.dir][t].name = o.name /\ e.kind # "none"
    BY <1>1, <1>2, <1>3, <1>5, <1>8
  <2> QED BY <1>3, <1>6, <1>7, <1>8, <2>1
<1>9. CASE t = o.slot
  <2>1. ek[o.dir][s].name = o.name /\ e.kind # "none"
    BY <1>1, <1>2, <1>3, <1>5, <1>9
  <2> QED BY <1>3, <1>6, <1>7, <1>9, <2>1
<1>10. CASE s # o.slot /\ t # o.slot
  <2>1. At(dk, d, s) /\ At(dk, d, t) /\ dk[d][s].name = dk[d][t].name
    BY <1>1, <1>2, <1>3, <1>5, <1>7, <1>10 DEF At
  <2> QED BY <2>1 DEF NamesOnce
<1> QED BY <1>8, <1>9, <1>10

(* Every step but the entry's leaves every folder as it is.                *)
LEMMA PokeFolders ==
  ASSUME IInv, Poke
  PROVE  /\ fat' = fat /\ DirsOf(disk') = DirsOf(disk) /\ \A d \in DirsOf(disk) : disk'[d] = disk[d]
         /\ \/ disk' = disk
            \/ disk' = With(disk, op.cur, op.data[op.i + 1])
<1>1. op \in OpsOf(op.before) /\ PokeOk(fat[1], disk, op) /\ Sound(fat[1], disk) /\ fat' = fat
  BY DEF IInv, Typed, CallOk, Poke
<1>2. disk' = disk \/ disk' = With(disk, op.cur, op.data[op.i + 1])
  BY DEF Poke, With
<1>3. CASE disk' = disk
  BY <1>1, <1>3
<1>4. CASE disk' = With(disk, op.cur, op.data[op.i + 1])
  <2>1. op.cur \in LiveOf(fat[1], disk) /\ disk[op.cur] \in Payloads /\ op.data[op.i + 1] \in Payloads
    BY <1>1, PokePlace
  <2> QED BY <1>1, <1>4, <2>1, PokePut
<1> QED BY <1>2, <1>3, <1>4

LEMMA QuietOr ==
  ASSUME IInv, [Next]_vars PROVE QuietStep \/ WriteEntry \/ Poke
<1>1. CASE UNCHANGED vars
  BY <1>1, StillQuiet DEF vars, IInv
<1>2. CASE Step
  BY <1>2, UnknownStep, AllocStep, LinkStep, SealStep, FreeStep, DataStep,
     RepairStep, FinishStep, ReturnStep DEF Step
<1>3. CASE Start
  BY <1>3, WriteStart, WriteAtStart, DeleteStart, MakeDirStart, RemoveDirStart, ReadStart DEF Start
<1>4. CASE Refused \/ Mount \/ PowerCut
  BY <1>4, RefusedStep, MountStep, CutStep
<1> QED BY <1>1, <1>2, <1>3, <1>4 DEF Next

LEMMA NamesStep == IInv /\ NamesOnce(disk) /\ [Next]_vars => NamesOnce(disk')
<1> SUFFICES ASSUME IInv, NamesOnce(disk), [Next]_vars PROVE NamesOnce(disk')
  OBVIOUS
<1>1. CASE QuietStep
  BY <1>1, NamesKeep DEF QuietStep, Quiet
<1>2. CASE Poke
  BY <1>2, PokeFolders, NamesKeep
<1>3. CASE WriteEntry
  BY <1>3, EntryHow, NamesEntry
<1> QED BY <1>1, <1>2, <1>3, QuietOr

LEMMA NamesInit == Init => NamesOnce(disk)
<1> SUFFICES ASSUME Init PROVE NamesOnce(disk)
  OBVIOUS
<1>1. disk[Root] = EmptyDir /\ \A d \in Clusters : disk[d] \in Payloads
  BY Volume DEF Init, Blank
<1>2. \A d, s : ~At(disk, d, s)
  BY <1>1, NoEntryFact, DirsUp DEF At
<1> QED BY <1>2 DEF NamesOnce

(* With a disk whose sectors can be read, a name is never in a folder      *)
(* twice, wherever the power was cut and whatever write failed.            *)
THEOREM NamesAreUnique == ASSUME ~ReadErrors PROVE Spec => []UniqueNames
<1>1. Init => NamesOnce(disk)
  BY NamesInit
<1>2. IInv /\ NamesOnce(disk) /\ [Next]_vars => NamesOnce(disk)'
  BY NamesStep
<1>3. IInv /\ NamesOnce(disk) => UniqueNames
  BY NamesFact DEF IInv
<1> QED BY <1>1, <1>2, <1>3, Invariant, PTL DEF Spec

(* What the runs check of a disk that reads: the volume is whole, owned    *)
(* once, typed, and no name is doubled.                                    *)
THEOREM VolumeIsSound == ASSUME ~ReadErrors PROVE Spec => []VolumeSound
<1>1. TypeOK /\ ChainsSound /\ UniqueNames => VolumeSound
  BY DEF VolumeSound
<1> QED BY <1>1, TypeCorrect, ChainsAreSound, NamesAreUnique, PTL
-----------------------------------------------------------------------------
(* The read cursor.                                                        *)

CursorOk ==
  at # NoAt => /\ op.pc = "idle" /\ at.index + 1 \in 1..NClusters
               /\ ChainOf(fat[1], at.first)[at.index + 1] = at.cluster

LEMMA StepBusy == ASSUME Step PROVE op.pc # "idle" /\ at' = at
<1>1. CASE FatNext /\ op.cp = 1 /\ MarkUnknown
  BY <1>1 DEF FatNext, MarkUnknown
<1>2. CASE Alloc \/ Link \/ Seal \/ ReleaseStep
  BY <1>2 DEF Alloc, Link, Seal, ReleaseStep, FatPut
<1>3. CASE WriteData \/ WriteEntry \/ Poke \/ RepairRow \/ FinishRepair \/ Return
  BY <1>3 DEF WriteData, WriteEntry, Poke, RepairRow, FinishRepair, Return, memVars
<1> QED BY <1>1, <1>2, <1>3 DEF Step

(* The walk from the cursor reaches what the walk from the start would.    *)
LEMMA CursorRead ==
  ASSUME IInv, CursorOk, NEW d \in Folders, NEW n \in Names, NEW want \in 0..(MaxLen - 1), ReadAt(d, n, want)
  PROVE  CursorOk'
<1> PICK ft : ft = fat[1]
  OBVIOUS
<1> PICK s : /\ s \in Find(d, n) \ {0}
             /\ LET e == disk[d][s]
                    from == IF CursorServes(e.first, want) THEN at.cluster ELSE e.first
                    skip == IF CursorServes(e.first, want) THEN at.index ELSE 0
                    cluster == Chain(from)[want - skip + 1]
                IN  /\ e.kind = "file"
                    /\ want < e.size
                    /\ cluster \in Clusters
                    /\ at' = [first |-> e.first, index |-> want, cluster |-> cluster]
  BY DEF ReadAt
<1> PICK e : e = disk[d][s]
  OBVIOUS
<1> PICK from : from = IF CursorServes(e.first, want) THEN at.cluster ELSE e.first
  OBVIOUS
<1> PICK skip : skip = IF CursorServes(e.first, want) THEN at.index ELSE 0
  OBVIOUS
<1> PICK cluster : cluster = ChainOf(ft, from)[want - skip + 1]
  OBVIOUS
<1>1. /\ e.kind = "file" /\ want < e.size
      /\ at' = [first |-> e.first, index |-> want, cluster |-> cluster]
  BY ChainIs
<1>2. fat' = fat /\ op' = op /\ op.pc = "idle"
  BY DEF ReadAt, diskVars, Idle
<1>3. want \in Nat /\ want + 1 \in 1..NClusters
  <2>1. At(disk, d, s) /\ e.size \in Nat
    BY <1>1, FindFact, EntryIn
  <2>2. Whole(ft, disk, e) /\ Length(e) = e.size
    BY <1>1, <2>1 DEF IInv, Sound, Length
  <2>3. want \in Nat
    BY Volume
  <2>4. e.size \in 1..NClusters
    BY <1>1, <2>1, <2>2, <2>3 DEF Whole, Run
  <2>5. e.size <= NClusters /\ NClusters \in Nat
    BY <2>4, Volume
  <2> QED BY <1>1, <2>1, <2>3, <2>5
<1>4. ChainOf(ft, e.first)[want + 1] = cluster
  <2>1. CASE CursorServes(e.first, want)
    <3>1. at # NoAt /\ at.first = e.first /\ at.index <= want /\ from = at.cluster /\ skip = at.index
      BY <2>1 DEF CursorServes
    <3>2. at.index + 1 \in 1..NClusters /\ ChainOf(ft, e.first)[at.index + 1] = from
      BY <3>1 DEF CursorOk
    <3> PICK m : m = at.index + 1
      OBVIOUS
    <3> PICK k : k = want - skip + 1
      OBVIOUS
    <3>3. at.index \in Nat /\ NClusters \in Nat
      BY Volume DEF IInv, Typed
    <3>4. m \in 1..NClusters /\ k \in 1..(NClusters + 1 - m) /\ m + k - 1 = want + 1
      BY <1>3, <3>1, <3>3
    <3>5. ChainOf(ft, ChainOf(ft, e.first)[m])[k] = ChainOf(ft, e.first)[m + k - 1]
      BY <3>4, ChainShift
    <3> QED BY <3>2, <3>4, <3>5
  <2>2. CASE ~CursorServes(e.first, want)
    <3>1. from = e.first /\ skip = 0 /\ want - 0 + 1 = want + 1
      BY <1>3, <2>2
    <3> QED BY <3>1
  <2> QED BY <2>1, <2>2
<1>5. at'.first = e.first /\ at'.index = want /\ at'.cluster = cluster /\ op'.pc = "idle" /\ fat'[1] = ft
  BY <1>1, <1>2
<1> QED BY <1>3, <1>4, <1>5 DEF CursorOk

LEMMA CursorStep == IInv /\ CursorOk /\ [Next]_vars => CursorOk'
<1> SUFFICES ASSUME IInv, CursorOk, [Next]_vars PROVE CursorOk'
  OBVIOUS
<1>1. CASE UNCHANGED vars
  BY <1>1 DEF vars, CursorOk
<1>2. CASE Step
  <2>1. at = NoAt /\ at' = NoAt
    BY <1>2, StepBusy DEF CursorOk
  <2> QED BY <2>1 DEF CursorOk, NoAt
<1>3. CASE at' = NoAt
  BY <1>3 DEF CursorOk, NoAt
<1>4. CASE Start
  <2>1. PICK d \in Folders, n \in Names :
          \/ \E data \in Written, replace \in BOOLEAN : WriteFile(d, n, data, replace)
          \/ \E i \in 0..(MaxLen - 1), data \in Written \ {<<>>} : WriteAt(d, n, i, data)
          \/ DeleteFile(d, n)
          \/ MakeDir(d, n)
          \/ RemoveDir(d, n)
          \/ \E want \in 0..(MaxLen - 1) : ReadAt(d, n, want)
    BY <1>4 DEF Start
  <2>2. CASE \E want \in 0..(MaxLen - 1) : ReadAt(d, n, want)
    BY <2>2, CursorRead
  <2>3. CASE ~\E want \in 0..(MaxLen - 1) : ReadAt(d, n, want)
    BY <1>3, <2>1, <2>3 DEF WriteFile, WriteAt, DeleteFile, MakeDir, RemoveDir, Begin
  <2> QED BY <2>2, <2>3
<1>5. CASE Refused \/ Mount \/ PowerCut
  BY <1>3, <1>5 DEF Refused, Mount, PowerCut
<1> QED BY <1>1, <1>2, <1>4, <1>5 DEF Next

(* Whatever failed, the remembered read position is where a walk from the  *)
(* start of the file would be: no reused cluster is read as the old file's. *)
THEOREM CursorIsRight == Spec => []CursorRight
<1>1. Init => CursorOk
  BY DEF Init, CursorOk
<1>2. IInv /\ CursorOk /\ [Next]_vars => CursorOk'
  BY CursorStep
<1>3. CursorOk => CursorRight
  BY ChainIs DEF CursorOk, CursorRight
<1> QED BY <1>1, <1>2, <1>3, Invariant, PTL DEF Spec
-----------------------------------------------------------------------------
(* How each step moves the call on.                                        *)

Keeps(o, p) ==
  /\ p.kind = o.kind /\ p.dir = o.dir /\ p.name = o.name /\ p.data = o.data /\ p.before = o.before

LEMMA KeepsFact == ASSUME NEW o, NEW p, SameCall(o, p), p.before = o.before PROVE Keeps(o, p)
BY DEF SameCall, Keeps

(* The call failed: what it built is released, and 0 returned.             *)
Ended(o, p) ==
  /\ Keeps(o, p) /\ p.cp = 1
  /\ \/ p.pc = "release" /\ p.then = "fail" /\ p.rel = o.first /\ p.first = o.first /\ o.first \in Clusters
     \/ p.pc = "done" /\ p.ret = 0 /\ o.first \notin Clusters

LEMMA EndedFact ==
  ASSUME NEW o, o \in OpsOf(o.before), NEW p, p = Failed(o) \/ p = Rewound(Failed(o))
  PROVE  Ended(o, p)
<1> PICK w : w = "fail"
  OBVIOUS
<1>1. (p = Release(o, o.first, w) \/ p = Rewound(Release(o, o.first, w))) /\ w \in {"ok", "fail", "failed"}
      /\ w # "failed" /\ w # "ok" /\ w = "fail"
  BY DEF Failed
<1>2. /\ p.before = o.before /\ p.cp = 1
      /\ p.kind = o.kind /\ p.dir = o.dir /\ p.name = o.name /\ p.data = o.data
      /\ \/ p.pc = "release" /\ p.rel = o.first /\ p.then = w /\ p.first = o.first /\ o.first \in Clusters
         \/ /\ p.pc = "release" /\ p.rel = o.first /\ p.then = "fail" /\ w = "failed"
            /\ o.first \in Clusters /\ o.first \notin Clusters
         \/ /\ p.pc = "done" /\ p.ret = (IF w = "ok" THEN 1 ELSE 0) /\ o.first \notin Clusters
            /\ w = "failed" => o.first = 0
  BY ONLY <1>1, o \in OpsOf(o.before), ReleaseFact
<1> QED BY <1>1, <1>2 DEF Ended, Keeps

(* release_chain is through.                                               *)
Through(o, p) ==
  /\ Keeps(o, p) /\ p.cp = 1
  /\ \/ p.pc = "release" /\ p.then = "fail" /\ p.rel = o.first /\ o.then = "failed" /\ o.first \in Clusters
     \/ p.pc = "done" /\ p.ret = (IF o.then = "ok" THEN 1 ELSE 0)

LEMMA ThroughFact ==
  ASSUME NEW o, o \in OpsOf(o.before), o.then \in {"ok", "fail", "failed"},
         NEW p, p = AfterRelease(o, o.then) \/ p = Rewound(AfterRelease(o, o.then))
  PROVE  Through(o, p)
BY AfterReleaseFact DEF Through, Keeps

Took(o, p, c) ==
  /\ SameCall(o, p) /\ p.before = o.before /\ p.cur = c
  /\ IF o.cp # NumFats
     THEN p.pc = "alloc" /\ p.cp = o.cp + 1 /\ p.first = o.first /\ p.prev = o.prev
     ELSE /\ p.cp = 1
          /\ IF o.first = 0 THEN p.pc = "data" /\ p.first = c /\ p.prev = c
             ELSE p.pc = "link" /\ p.first = o.first /\ p.prev = o.prev

LEMMA TookFact ==
  ASSUME NEW o, o \in OpsOf(o.before), o.pc = "alloc", NEW c \in Clusters, NEW p,
         \/ o.cp # NumFats /\ p = Onward(Taken(o, c), o.cp + 1)
         \/ o.cp = NumFats /\ o.first = 0 /\ p = Onward(ToData(o, c), 1)
         \/ o.cp = NumFats /\ o.first # 0 /\ p = Onward(ToLink(o, c), 1)
  PROVE  Took(o, p, c)
<1>1. CASE o.cp # NumFats /\ p = Onward(Taken(o, c), o.cp + 1)
  <2> PICK q : q = Taken(o, c)
    OBVIOUS
  <2>1. c \in Nat /\ o.cp + 1 \in Copies /\ p = Onward(q, o.cp + 1)
    BY <1>1, CpRange, Volume
  <2>2. /\ q \in OpsOf(o.before) /\ q.before = o.before /\ SameCall(o, q) /\ q.pc = o.pc
        /\ q.cur = c /\ q.first = o.first /\ q.prev = o.prev
    BY <2>1, TakenFact
  <2>3. /\ p.before = q.before /\ SameCall(q, p) /\ p.cp = o.cp + 1 /\ p.pc = q.pc
        /\ p.cur = q.cur /\ p.first = q.first /\ p.prev = q.prev
    BY ONLY <2>1, <2>2, OnwardFact
  <2> QED BY <1>1, <2>2, <2>3 DEF Took, SameCall
<1>2. CASE o.cp = NumFats /\ o.first = 0 /\ p = Onward(ToData(o, c), 1)
  <2> PICK q : q = ToData(o, c)
    OBVIOUS
  <2>1. 1 \in Copies /\ p = Onward(q, 1)
    BY <1>2, Volume
  <2>2. /\ q \in OpsOf(o.before) /\ q.before = o.before /\ SameCall(o, q) /\ q.pc = "data"
        /\ q.cur = c /\ q.first = c /\ q.prev = c
    BY ToDataFact
  <2>3. /\ p.before = q.before /\ SameCall(q, p) /\ p.cp = 1 /\ p.pc = q.pc
        /\ p.cur = q.cur /\ p.first = q.first /\ p.prev = q.prev
    BY ONLY <2>1, <2>2, OnwardFact
  <2> QED BY <1>2, <2>2, <2>3 DEF Took, SameCall
<1>3. CASE o.cp = NumFats /\ o.first # 0 /\ p = Onward(ToLink(o, c), 1)
  <2> PICK q : q = ToLink(o, c)
    OBVIOUS
  <2>1. 1 \in Copies /\ p = Onward(q, 1)
    BY <1>3, Volume
  <2>2. /\ q \in OpsOf(o.before) /\ q.before = o.before /\ SameCall(o, q) /\ q.pc = "link"
        /\ q.cur = c /\ q.first = o.first /\ q.prev = o.prev
    BY ToLinkFact
  <2>3. /\ p.before = q.before /\ SameCall(q, p) /\ p.cp = 1 /\ p.pc = q.pc
        /\ p.cur = q.cur /\ p.first = q.first /\ p.prev = q.prev
    BY ONLY <2>1, <2>2, OnwardFact
  <2> QED BY <1>3, <2>2, <2>3 DEF Took, SameCall
<1> QED BY <1>1, <1>2, <1>3

LEMMA AllocHow ==
  ASSUME IInv, Alloc
  PROVE  /\ op \in OpsOf(op.before) /\ AllocOk(fat[1], disk, op) /\ Sound(fat[1], disk)
         /\ UNCHANGED <<disk, fsinfo, mounted, fsDone, at>>
         /\ \/ fat' = fat /\ Ended(op, op') /\ (op.cp = 1 \/ ReadErrors \/ WriteErrors)
            \/ /\ ~NeedsUnknown
               /\ \E c \in Clusters : /\ fat' = WithEntry(fat, op.cp, c, EOC) /\ Took(op, op', c)
                                      /\ op.cp > 1 => c = op.cur
                                      /\ ~(op.cp > 1) => fat[1][c] = FREE
<1> PICK o : o = op
  OBVIOUS
<1> PICK p : p = op'
  OBVIOUS
<1>1. o \in OpsOf(o.before) /\ AllocOk(fat[1], disk, o) /\ o.pc = "alloc" /\ Sound(fat[1], disk)
  BY DEF IInv, Typed, CallOk, Alloc
<1>2. CASE op.cp = 1 /\ op' = Failed(op) /\ UNCHANGED <<fat, disk, fsinfo, mounted, fsDone, hint, at>>
  BY <1>1, <1>2, EndedFact
<1>3. ASSUME ~(op.cp = 1 /\ op' = Failed(op) /\ UNCHANGED <<fat, disk, fsinfo, mounted, fsDone, hint, at>>)
      PROVE  /\ UNCHANGED <<disk, fsinfo, mounted, fsDone, at>>
             /\ \/ fat' = fat /\ Ended(op, op') /\ (op.cp = 1 \/ ReadErrors \/ WriteErrors)
                \/ /\ ~NeedsUnknown
                   /\ \E c \in Clusters : /\ fat' = WithEntry(fat, op.cp, c, EOC) /\ Took(op, op', c)
                                          /\ op.cp > 1 => c = op.cur
                                          /\ ~(op.cp > 1) => fat[1][c] = FREE
  <2>0. op.cp > 1 \/ FreeFromHint # {}
    BY <1>3 DEF Alloc
  <2>1. PICK c : c = IF op.cp > 1 THEN op.cur ELSE FromHint(Min(FreeFromHint))
    OBVIOUS
  <2>2. c \in Clusters /\ (op.cp > 1 => c = op.cur) /\ (~(op.cp > 1) => fat[1][c] = FREE)
    <3>1. CASE op.cp > 1
      BY <1>1, <2>1, <3>1 DEF AllocOk, Spare
    <3>2. CASE ~(op.cp > 1)
      BY <2>0, <2>1, <3>2, FromHintFact DEF IInv
    <3> QED BY <3>1, <3>2
  <2> DEFINE mid == [op EXCEPT !.cur = c]
             ok == IF op.first = 0 THEN [mid EXCEPT !.pc = "data", !.first = c, !.prev = c]
                   ELSE [mid EXCEPT !.pc = "link"]
  <2>3. FatPut(c, EOC, mid, ok, Failed(op))
    BY <1>3, <2>1 DEF Alloc
  <2>4. /\ ~NeedsUnknown
        /\ \/ /\ fat' = WithEntry(fat, op.cp, c, EOC)
              /\ op' = IF op.cp = NumFats THEN [ok EXCEPT !.cp = 1] ELSE [mid EXCEPT !.cp = op.cp + 1]
           \/ UNCHANGED fat /\ op' = [Failed(op) EXCEPT !.cp = 1] /\ (WriteErrors \/ ReadErrors)
        /\ UNCHANGED <<disk, fsinfo, mounted, fsDone, at>>
    BY <2>3 DEF FatPut, WithEntry
  <2>5. CASE UNCHANGED fat /\ op' = [Failed(op) EXCEPT !.cp = 1] /\ (WriteErrors \/ ReadErrors)
    <3>1. p = Rewound(Failed(o))
      BY <2>5 DEF Rewound
    <3> QED BY <1>1, <2>4, <2>5, <3>1, EndedFact
  <2>6. CASE /\ fat' = WithEntry(fat, op.cp, c, EOC)
             /\ op' = IF op.cp = NumFats THEN [ok EXCEPT !.cp = 1] ELSE [mid EXCEPT !.cp = op.cp + 1]
    <3>1. \/ o.cp # NumFats /\ p = Onward(Taken(o, c), o.cp + 1)
          \/ o.cp = NumFats /\ o.first = 0 /\ p = Onward(ToData(o, c), 1)
          \/ o.cp = NumFats /\ o.first # 0 /\ p = Onward(ToLink(o, c), 1)
      BY <2>6 DEF Onward, Taken, ToData, ToLink
    <3>2. Took(o, p, c)
      BY <1>1, <2>2, <3>1, TookFact
    <3> QED BY <2>2, <2>4, <2>6, <3>2
  <2> QED BY <2>4, <2>5, <2>6
<1> QED BY <1>1, <1>2, <1>3

(* Link and seal: a FAT entry of the new chain.                            *)
Wired(o, p, pc, prev) ==
  /\ SameCall(o, p) /\ p.before = o.before /\ p.cur = o.cur /\ p.first = o.first
  /\ IF o.cp # NumFats THEN p.pc = o.pc /\ p.cp = o.cp + 1 /\ p.prev = o.prev
     ELSE p.pc = pc /\ p.cp = 1 /\ p.prev = prev

LEMMA LinkHow ==
  ASSUME IInv, Link
  PROVE  /\ op \in OpsOf(op.before) /\ LinkOk(fat[1], disk, op) /\ Sound(fat[1], disk)
         /\ UNCHANGED <<disk, fsinfo, mounted, fsDone, at>> /\ op.cur \in Clusters /\ op.prev \in Clusters
         /\ \/ /\ fat' = fat /\ Keeps(op, op') /\ op'.cp = 1 /\ (ReadErrors \/ WriteErrors)
               /\ op'.pc = "release" /\ op'.then = "failed" /\ op'.rel = op.cur
            \/ /\ ~NeedsUnknown
               /\ fat' = WithEntry(fat, op.cp, op.prev, op.cur) /\ Wired(op, op', "data", op.cur)
<1> PICK o : o = op
  OBVIOUS
<1> PICK p : p = op'
  OBVIOUS
<1>1. o \in OpsOf(o.before) /\ LinkOk(fat[1], disk, o) /\ o.pc = "link" /\ Sound(fat[1], disk)
  BY DEF IInv, Typed, CallOk, Link
<1>2. /\ o.cur \in Clusters /\ o.prev \in Clusters /\ o.cp \in Copies /\ (o.cp # 1 => o.cp > 1) /\ o.i \in Nat
      /\ ~(o.cp > 1) => o.cp = 1
  <2>1. o.cp \in Copies /\ (o.cp # 1 => o.cp > 1) /\ o.i \in Nat /\ 0 < o.i /\ (~(o.cp > 1) => o.cp = 1)
    BY <1>1, CpRange, IRange DEF LinkOk
  <2>2. PICK m \in {o.i, o.i + 1} : Chained(fat[1], disk, o.first, m) /\ (o.cp = 1 => m = o.i) /\ (o.cp > 1 => m = o.i + 1)
    BY <1>1, <2>1 DEF LinkOk, Building
  <2>3. o.i \in 1..m /\ (m = o.i + 1 => o.i + 1 \in 1..m)
    BY <2>1, <2>2
  <2>4. \A k \in 1..m : ChainOf(fat[1], o.first)[k] \in Clusters
    BY <2>2, ChainedFact
  <2>5. o.prev \in Clusters
    BY <1>1, <2>3, <2>4 DEF LinkOk
  <2>6. o.cur \in Clusters
    BY <1>1, <2>1, <2>2, <2>3, <2>4 DEF LinkOk, Spare
  <2> QED BY <2>1, <2>5, <2>6
<1> DEFINE ok == [op EXCEPT !.pc = "data", !.prev = op.cur]
<1>3. /\ ~NeedsUnknown
      /\ \/ /\ fat' = WithEntry(fat, op.cp, op.prev, op.cur)
            /\ op' = IF op.cp = NumFats THEN [ok EXCEPT !.cp = 1] ELSE [op EXCEPT !.cp = op.cp + 1]
         \/ UNCHANGED fat /\ op' = [Release(op, op.cur, "failed") EXCEPT !.cp = 1] /\ (WriteErrors \/ ReadErrors)
      /\ UNCHANGED <<disk, fsinfo, mounted, fsDone, at>>
  BY DEF Link, FatPut, WithEntry
<1>4. CASE UNCHANGED fat /\ op' = [Release(op, op.cur, "failed") EXCEPT !.cp = 1] /\ (WriteErrors \/ ReadErrors)
  <2> PICK w : w = "failed"
    OBVIOUS
  <2>1. p = Rewound(Release(o, o.cur, w)) /\ w \in {"ok", "fail", "failed"}
    BY <1>4 DEF Rewound
  <2>2. /\ p.before = o.before /\ p.cp = 1
        /\ p.kind = o.kind /\ p.dir = o.dir /\ p.name = o.name /\ p.data = o.data
        /\ p.pc = "release" /\ p.rel = o.cur /\ p.then = w
    BY ONLY <1>1, <1>2, <2>1, ReleaseFact
  <2> QED BY <1>1, <1>2, <1>3, <1>4, <2>2 DEF Keeps
<1>5. CASE /\ fat' = WithEntry(fat, op.cp, op.prev, op.cur)
           /\ op' = IF op.cp = NumFats THEN [ok EXCEPT !.cp = 1] ELSE [op EXCEPT !.cp = op.cp + 1]
  <2>1. Wired(o, p, "data", o.cur)
    <3>1. CASE o.cp # NumFats
      <4>1. p = Onward(o, o.cp + 1) /\ o.cp + 1 \in Copies
        BY <1>1, <1>5, <3>1, CpRange DEF Onward
      <4>2. /\ p.before = o.before /\ SameCall(o, p) /\ p.cp = o.cp + 1 /\ p.pc = o.pc
            /\ p.cur = o.cur /\ p.first = o.first /\ p.prev = o.prev
        BY ONLY <1>1, <4>1, OnwardFact
      <4> QED BY <3>1, <4>2 DEF Wired
    <3>2. CASE o.cp = NumFats
      <4> PICK q : q = ToWrite(o)
        OBVIOUS
      <4>1. p = Onward(q, 1) /\ 1 \in Copies
        BY <1>5, <3>2, Volume DEF Onward, ToWrite
      <4>2. /\ q \in OpsOf(o.before) /\ q.before = o.before /\ SameCall(o, q) /\ q.pc = "data"
            /\ q.cur = o.cur /\ q.first = o.first /\ q.prev = o.cur
        BY <1>1, <1>2, ToWriteFact
      <4>3. /\ p.before = q.before /\ SameCall(q, p) /\ p.cp = 1 /\ p.pc = q.pc
            /\ p.cur = q.cur /\ p.first = q.first /\ p.prev = q.prev
        BY ONLY <4>1, <4>2, OnwardFact
      <4> QED BY <3>2, <4>2, <4>3 DEF Wired, SameCall
    <3> QED BY <3>1, <3>2
  <2> QED BY <1>1, <1>2, <1>3, <1>5, <2>1
<1> QED BY <1>3, <1>4, <1>5

LEMMA SealHow ==
  ASSUME IInv, Seal
  PROVE  /\ op \in OpsOf(op.before) /\ SealOk(fat[1], disk, op) /\ Sound(fat[1], disk)
         /\ UNCHANGED <<disk, fsinfo, mounted, fsDone, at>> /\ op.prev \in Clusters /\ fat[1][op.prev] = EOC
         /\ \/ fat' = fat /\ Ended(op, op') /\ (ReadErrors \/ WriteErrors)
            \/ /\ ~NeedsUnknown
               /\ fat' = WithEntry(fat, op.cp, op.prev, EOC) /\ Wired(op, op', "entry", op.prev)
<1> PICK o : o = op
  OBVIOUS
<1> PICK p : p = op'
  OBVIOUS
<1>1. o \in OpsOf(o.before) /\ SealOk(fat[1], disk, o) /\ o.pc = "seal" /\ Sound(fat[1], disk)
  BY DEF IInv, Typed, CallOk, Seal
<1>2. o.prev \in Clusters /\ fat[1][o.prev] = EOC
  <2>1. o.i \in Nat /\ o.i > 0 /\ Chained(fat[1], disk, o.first, o.i) /\ ChainOf(fat[1], o.first)[o.i] = o.prev
    BY <1>1, IRange DEF SealOk, Building
  <2>2. o.i \in 1..o.i
    BY <2>1
  <2> QED BY <2>1, <2>2, ChainedFact
<1> DEFINE ok == [op EXCEPT !.pc = "entry"]
<1>3. /\ ~NeedsUnknown
      /\ \/ /\ fat' = WithEntry(fat, op.cp, op.prev, EOC)
            /\ op' = IF op.cp = NumFats THEN [ok EXCEPT !.cp = 1] ELSE [op EXCEPT !.cp = op.cp + 1]
         \/ UNCHANGED fat /\ op' = [Failed(op) EXCEPT !.cp = 1] /\ (WriteErrors \/ ReadErrors)
      /\ UNCHANGED <<disk, fsinfo, mounted, fsDone, at>>
  BY DEF Seal, FatPut, WithEntry
<1>4. CASE UNCHANGED fat /\ op' = [Failed(op) EXCEPT !.cp = 1] /\ (WriteErrors \/ ReadErrors)
  <2>1. p = Rewound(Failed(o))
    BY <1>4 DEF Rewound
  <2> QED BY <1>1, <1>2, <1>3, <1>4, <2>1, EndedFact
<1>5. CASE /\ fat' = WithEntry(fat, op.cp, op.prev, EOC)
           /\ op' = IF op.cp = NumFats THEN [ok EXCEPT !.cp = 1] ELSE [op EXCEPT !.cp = op.cp + 1]
  <2>1. Wired(o, p, "entry", o.prev)
    <3>1. CASE o.cp # NumFats
      <4>1. p = Onward(o, o.cp + 1) /\ o.cp + 1 \in Copies
        BY <1>1, <1>5, <3>1, CpRange DEF Onward
      <4>2. /\ p.before = o.before /\ SameCall(o, p) /\ p.cp = o.cp + 1 /\ p.pc = o.pc
            /\ p.cur = o.cur /\ p.first = o.first /\ p.prev = o.prev
        BY ONLY <1>1, <4>1, OnwardFact
      <4> QED BY <3>1, <4>2 DEF Wired
    <3>2. CASE o.cp = NumFats
      <4> PICK q : q = ToEntry(o)
        OBVIOUS
      <4>1. p = Onward(q, 1) /\ 1 \in Copies
        BY <1>5, <3>2, Volume DEF Onward, ToEntry
      <4>2. /\ q \in OpsOf(o.before) /\ q.before = o.before /\ SameCall(o, q) /\ q.pc = "entry"
            /\ q.cur = o.cur /\ q.first = o.first /\ q.prev = o.prev
        BY <1>1, ToEntryFact
      <4>3. /\ p.before = q.before /\ SameCall(q, p) /\ p.cp = 1 /\ p.pc = q.pc
            /\ p.cur = q.cur /\ p.first = q.first /\ p.prev = q.prev
        BY ONLY <4>1, <4>2, OnwardFact
      <4> QED BY <3>2, <4>2, <4>3 DEF Wired, SameCall
    <3> QED BY <3>1, <3>2
  <2> QED BY <1>1, <1>2, <1>3, <1>5, <2>1
<1> QED BY <1>3, <1>4, <1>5

(* release_chain: one cluster freed.                                       *)
Freed(o, p, next) ==
  IF o.cp # NumFats
  THEN /\ Keeps(o, p) /\ p.pc = "release" /\ p.cp = o.cp + 1 /\ p.cur = next
       /\ p.rel = o.rel /\ p.then = o.then /\ p.first = o.first
  ELSE IF next \in Clusters
       THEN /\ Keeps(o, p) /\ p.pc = "release" /\ p.cp = 1
            /\ p.rel = next /\ p.then = o.then /\ p.first = o.first
       ELSE Through(o, p)

LEMMA FreedFact ==
  ASSUME NEW o, o \in OpsOf(o.before), o.pc = "release", o.then \in {"ok", "fail", "failed"}, NEW next \in Nat, NEW p,
         \/ o.cp # NumFats /\ p = Onward(Taken(o, next), o.cp + 1)
         \/ o.cp = NumFats /\ next \in Clusters /\ p = Onward(ToNext(o, next), 1)
         \/ o.cp = NumFats /\ next \notin Clusters /\ p = Rewound(AfterRelease(o, o.then))
  PROVE  Freed(o, p, next)
<1>1. CASE o.cp # NumFats /\ p = Onward(Taken(o, next), o.cp + 1)
  <2> PICK q : q = Taken(o, next)
    OBVIOUS
  <2>1. o.cp + 1 \in Copies /\ p = Onward(q, o.cp + 1)
    BY <1>1, CpRange
  <2>2. /\ q \in OpsOf(o.before) /\ q.before = o.before /\ SameCall(o, q) /\ q.pc = o.pc
        /\ q.cur = next /\ q.first = o.first /\ q.rel = o.rel /\ q.then = o.then
    BY <2>1, TakenFact
  <2>3. /\ p.before = q.before /\ SameCall(q, p) /\ p.cp = o.cp + 1 /\ p.pc = q.pc
        /\ p.cur = q.cur /\ p.first = q.first /\ p.rel = q.rel /\ p.then = q.then
    BY ONLY <2>1, <2>2, OnwardFact
  <2> QED BY <1>1, <2>2, <2>3 DEF Freed, Keeps, SameCall
<1>2. CASE o.cp = NumFats /\ next \in Clusters /\ p = Onward(ToNext(o, next), 1)
  <2> PICK q : q = ToNext(o, next)
    OBVIOUS
  <2>1. 1 \in Copies /\ p = Onward(q, 1)
    BY <1>2, Volume
  <2>2. /\ q \in OpsOf(o.before) /\ q.before = o.before /\ SameCall(o, q) /\ q.pc = o.pc
        /\ q.rel = next /\ q.first = o.first /\ q.then = o.then
    BY <1>2, ToNextFact
  <2>3. /\ p.before = q.before /\ SameCall(q, p) /\ p.cp = 1 /\ p.pc = q.pc
        /\ p.first = q.first /\ p.rel = q.rel /\ p.then = q.then
    BY ONLY <2>1, <2>2, OnwardFact
  <2> QED BY <1>2, <2>2, <2>3 DEF Freed, Keeps, SameCall
<1>3. CASE o.cp = NumFats /\ next \notin Clusters /\ p = Rewound(AfterRelease(o, o.then))
  BY <1>3, ThroughFact DEF Freed
<1> QED BY <1>1, <1>2, <1>3

LEMMA FreeHow ==
  ASSUME IInv, ReleaseStep
  PROVE  /\ op \in OpsOf(op.before) /\ ReleaseOk(fat[1], disk, op) /\ Sound(fat[1], disk)
         /\ UNCHANGED <<disk, fsinfo, mounted, fsDone, at>> /\ op.rel \in Clusters \ LiveOf(fat[1], disk)
         /\ \/ fat' = fat /\ Through(op, op') /\ (ReadErrors \/ WriteErrors)
            \/ /\ ~NeedsUnknown /\ fat' = WithEntry(fat, op.cp, op.rel, FREE)
               /\ \E next \in Nat : /\ Freed(op, op', next)
                                    /\ op.cp > 1 => next = op.cur
                                    /\ op.cp = 1 => next = fat[1][op.rel] \/ (ReadErrors /\ next = EOC)
<1> PICK o : o = op
  OBVIOUS
<1> PICK p : p = op'
  OBVIOUS
<1>1. o \in OpsOf(o.before) /\ ReleaseOk(fat[1], disk, o) /\ o.pc = "release" /\ Sound(fat[1], disk) /\ o.cur \in Nat
      /\ fat[1] \in Tables
  <2>1. o \in OpsOf(o.before) /\ ReleaseOk(fat[1], disk, o) /\ o.pc = "release" /\ Sound(fat[1], disk)
    BY DEF IInv, Typed, CallOk, ReleaseStep
  <2> QED BY <2>1 DEF OpsOf, Sound
<1>2. o.rel \in Clusters \ LiveOf(fat[1], disk) /\ o.then \in {"ok", "fail", "failed"}
  BY <1>1 DEF ReleaseOk, Freeable
<1>3. PICK next \in IF op.cp > 1 THEN {op.cur}
                    ELSE {fat[1][op.rel]} \cup (IF ReadErrors THEN {EOC} ELSE {}) :
        FatPut(op.rel, FREE, [op EXCEPT !.cur = next],
               IF next \in Clusters THEN [op EXCEPT !.rel = next] ELSE AfterRelease(op, op.then),
               AfterRelease(op, op.then))
  BY DEF ReleaseStep
<1>4. next \in Nat /\ (op.cp > 1 => next = op.cur) /\ (op.cp = 1 => next = fat[1][op.rel] \/ (ReadErrors /\ next = EOC))
  <2>1. CASE op.cp > 1
    BY <1>1, <1>3, <2>1
  <2>2. CASE ~(op.cp > 1)
    <3>1. next = fat[1][o.rel] \/ (ReadErrors /\ next = EOC)
      BY <1>3, <2>2
    <3>2. next \in {FREE, EOC} \cup Clusters
      BY <1>1, <1>2, <3>1 DEF Tables
    <3> QED BY <2>2, <3>1, <3>2, Volume
  <2> QED BY <2>1, <2>2
<1> DEFINE ok == IF next \in Clusters THEN [op EXCEPT !.rel = next] ELSE AfterRelease(op, op.then)
<1>5. /\ ~NeedsUnknown
      /\ \/ /\ fat' = WithEntry(fat, op.cp, op.rel, FREE)
            /\ op' = IF op.cp = NumFats THEN [ok EXCEPT !.cp = 1] ELSE [[op EXCEPT !.cur = next] EXCEPT !.cp = op.cp + 1]
         \/ UNCHANGED fat /\ op' = [AfterRelease(op, op.then) EXCEPT !.cp = 1] /\ (WriteErrors \/ ReadErrors)
      /\ UNCHANGED <<disk, fsinfo, mounted, fsDone, at>>
  BY <1>3 DEF FatPut, WithEntry
<1>6. CASE UNCHANGED fat /\ op' = [AfterRelease(op, op.then) EXCEPT !.cp = 1] /\ (WriteErrors \/ ReadErrors)
  <2>1. p = Rewound(AfterRelease(o, o.then))
    BY <1>6 DEF Rewound
  <2> QED BY <1>1, <1>2, <1>5, <1>6, <2>1, ThroughFact
<1>7. CASE /\ fat' = WithEntry(fat, op.cp, op.rel, FREE)
           /\ op' = IF op.cp = NumFats THEN [ok EXCEPT !.cp = 1] ELSE [[op EXCEPT !.cur = next] EXCEPT !.cp = op.cp + 1]
  <2>1. \/ o.cp # NumFats /\ p = Onward(Taken(o, next), o.cp + 1)
        \/ o.cp = NumFats /\ next \in Clusters /\ p = Onward(ToNext(o, next), 1)
        \/ o.cp = NumFats /\ next \notin Clusters /\ p = Rewound(AfterRelease(o, o.then))
    BY <1>7 DEF Onward, Taken, ToNext, Rewound
  <2>2. Freed(o, p, next)
    BY <1>1, <1>2, <1>4, <2>1, FreedFact
  <2> QED BY <1>1, <1>2, <1>4, <1>5, <1>7, <2>2
<1> QED BY <1>5, <1>6, <1>7

LEMMA DataHow ==
  ASSUME IInv, WriteData
  PROVE  /\ op \in OpsOf(op.before) /\ DataOk(fat[1], disk, op) /\ Sound(fat[1], disk)
         /\ UNCHANGED <<fat, fsinfo, mounted, fsDone, at>>
         /\ \/ disk' = disk /\ Ended(op, op') /\ WriteErrors
            \/ /\ Keeps(op, op') /\ op'.cp = 1 /\ op'.first = op.first /\ op'.prev = op.prev
               /\ op'.pc \in {"entry", "alloc", "seal"}
               /\ op.kind # "mkdir" => op'.i = op.i + 1 /\ op'.pc \in {"alloc", "seal"}
               /\ op.kind = "mkdir" => op'.pc = "entry"
<1> PICK o : o = op
  OBVIOUS
<1> PICK p : p = op'
  OBVIOUS
<1>1. /\ o \in OpsOf(o.before) /\ DataOk(fat[1], disk, o) /\ o.pc = "data" /\ Sound(fat[1], disk)
      /\ UNCHANGED <<fat, fsinfo, mounted, fsDone, at>> /\ o.cp = 1
  BY DEF IInv, Typed, CallOk, WriteData, memVars, DataOk
<1>2. CASE WriteErrors /\ op' = Failed(op) /\ UNCHANGED disk
  BY <1>1, <1>2, EndedFact
<1>3. CASE op.kind = "mkdir" /\ op' = [op EXCEPT !.pc = "entry"]
  <2>1. p = ToEntry(o)
    BY <1>3 DEF ToEntry
  <2>2. /\ p.before = o.before /\ SameCall(o, p) /\ p.pc = "entry" /\ p.first = o.first /\ p.prev = o.prev /\ p.cp = o.cp
    BY <1>1, <2>1, ToEntryFact
  <2> QED BY <1>1, <1>3, <2>2, KeepsFact
<1>4. CASE op.kind # "mkdir" /\ \E pc \in {"alloc", "seal"} : op' = [op EXCEPT !.i = @ + 1, !.pc = pc]
  <2>1. PICK pc \in {"alloc", "seal"} : p = Wrote(o, pc)
    BY <1>4 DEF Wrote
  <2>2. o.i + 1 \in 0..MaxLen
    <3>1. o.i \in Nat /\ o.data \in Contents /\ o.i < Len(o.data)
      BY <1>1, <1>4, IRange DEF DataOk, Pieces
    <3>2. Len(o.data) \in Nat /\ Len(o.data) <= MaxLen
      BY <3>1, DataFact
    <3> QED BY <3>1, <3>2, Volume
  <2>3. pc \in {"alloc", "seal", "poke"}
    OBVIOUS
  <2>4. /\ p.before = o.before /\ p.pc = pc /\ p.i = o.i + 1
        /\ p.kind = o.kind /\ p.dir = o.dir /\ p.name = o.name /\ p.data = o.data
        /\ p.first = o.first /\ p.prev = o.prev /\ p.cp = o.cp
    BY ONLY <1>1, <2>1, <2>2, <2>3, WroteFact
  <2> QED BY <1>1, <1>4, <2>3, <2>4 DEF Keeps
<1>5. \/ WriteErrors /\ op' = Failed(op) /\ UNCHANGED disk
      \/ op.kind = "mkdir" /\ op' = [op EXCEPT !.pc = "entry"]
      \/ op.kind # "mkdir" /\ \E pc \in {"alloc", "seal"} : op' = [op EXCEPT !.i = @ + 1, !.pc = pc]
  BY DEF WriteData
<1> QED BY <1>2, <1>3, <1>4, <1>5

(* The entry is written, or the call fails.                                *)
LEMMA EntryEnds ==
  ASSUME IInv, WriteEntry
  PROVE  /\ UNCHANGED <<fat, fsinfo, mounted, fsDone, at>> /\ Keeps(op, op') /\ op'.cp = 1
         /\ \/ /\ disk' = disk /\ (ReadErrors \/ WriteErrors)
               /\ (op'.pc = "done" /\ op'.ret = 0) \/ Ended(op, op')
            \/ /\ disk' = Put(disk, op.dir, op.slot, EntryOf(op))
               /\ \/ op'.pc = "release" /\ op'.rel = op.old /\ op'.then = "ok" /\ op.old \in Clusters
                  \/ op'.pc = "done" /\ op'.ret = 1 /\ op.old \notin Clusters
<1> PICK o : o = op
  OBVIOUS
<1> PICK p : p = op'
  OBVIOUS
<1>1. o \in OpsOf(o.before) /\ UNCHANGED <<fat, fsinfo, mounted, fsDone, at>>
  BY DEF IInv, Typed, WriteEntry, memVars
<1>2. CASE disk' = disk /\ p = Done(o, 0) /\ (ReadErrors \/ WriteErrors)
  <2> PICK r : r = 0
    OBVIOUS
  <2>1. p = Done(o, r) /\ r \in 0..(MaxLen + 1)
    BY <1>2, Volume
  <2>2. /\ p.pc = "done" /\ p.ret = r
        /\ p.kind = o.kind /\ p.dir = o.dir /\ p.name = o.name
        /\ p.data = o.data /\ p.before = o.before /\ p.cp = 1
    BY ONLY <1>1, <2>1, DoneFact
  <2> QED BY <1>1, <1>2, <2>2 DEF Keeps
<1>3. CASE disk' = disk /\ p = Failed(o) /\ (ReadErrors \/ WriteErrors)
  <2>1. Ended(o, p)
    BY <1>1, <1>3, EndedFact
  <2> QED BY <1>1, <1>3, <2>1 DEF Ended
<1>4. CASE disk' = Put(disk, op.dir, op.slot, EntryOf(op)) /\ p = Release(o, o.old, "ok")
  <2> PICK w : w = "ok"
    OBVIOUS
  <2>1. p = Release(o, o.old, w) /\ w \in {"ok", "fail", "failed"} /\ w # "failed"
    BY <1>4
  <2>2. /\ p.before = o.before /\ p.cp = 1
        /\ p.kind = o.kind /\ p.dir = o.dir /\ p.name = o.name /\ p.data = o.data
        /\ \/ p.pc = "release" /\ p.rel = o.old /\ p.then = w /\ o.old \in Clusters
           \/ p.pc = "done" /\ p.ret = (IF w = "ok" THEN 1 ELSE 0) /\ o.old \notin Clusters
    BY ONLY <1>1, <2>1, ReleaseFact
  <2> QED BY <1>1, <1>4, <2>2 DEF Keeps
<1>5. \/ disk' = disk /\ p = Done(o, 0) /\ (ReadErrors \/ WriteErrors)
      \/ disk' = disk /\ p = Failed(o) /\ (ReadErrors \/ WriteErrors)
      \/ disk' = Put(disk, op.dir, op.slot, EntryOf(op)) /\ p = Release(o, o.old, "ok")
  BY DEF WriteEntry, Put, NewEntry, EntryOf, FileEntry
<1> QED BY <1>2, <1>3, <1>4, <1>5

LEMMA PokeHow ==
  ASSUME IInv, Poke
  PROVE  /\ UNCHANGED <<fat, fsinfo, mounted, fsDone, at>> /\ op.kind = "writeat" /\ op'.kind = "writeat"
         /\ op'.pc \in {"poke", "done"}
<1> PICK o : o = op
  OBVIOUS
<1> PICK p : p = op'
  OBVIOUS
<1>1. /\ o \in OpsOf(o.before) /\ UNCHANGED <<fat, fsinfo, mounted, fsDone, at>> /\ PokeOk(fat[1], disk, o)
      /\ Sound(fat[1], disk) /\ o.pc = "poke"
  BY DEF IInv, Typed, CallOk, Poke, memVars
<1>2. o.kind = "writeat" /\ o.i + 1 \in 0..MaxLen /\ o.i \in 0..(MaxLen + 1) /\ o.i + 1 \in 0..(MaxLen + 1)
  <2>1. o.i + 1 \in 0..MaxLen /\ o.i \in Nat
    BY <1>1, PokePlace
  <2> QED BY <1>1, <2>1, Volume DEF PokeOk
<1>3. CASE \E r \in {op.i, op.i + 1} : op' = Done(op, r)
  BY <1>1, <1>2, <1>3, DoneFact
<1>4. CASE \E next \in Clusters : op' = [op EXCEPT !.i = @ + 1, !.cur = next]
  <2>1. PICK next \in Clusters : p = Poked(o, next)
    BY <1>4 DEF Poked
  <2>2. next \in Nat
    BY Volume
  <2>3. p.pc = o.pc /\ p.kind = o.kind
    BY ONLY <1>1, <1>2, <2>1, <2>2, PokedFact
  <2> QED BY <1>1, <1>2, <2>3
<1> QED BY <1>3, <1>4 DEF Poke
-----------------------------------------------------------------------------
(* The copies of the FAT.                                                  *)

LEMMA StartHow ==
  ASSUME IInv, Start
  PROVE  /\ mounted /\ op.pc = "idle" /\ IInv' /\ QuietStep /\ UNCHANGED <<fat, disk, fsinfo, mounted, fsDone>>
         /\ op' = op \/ Begun
<1>1. PICK d \in Folders, n \in Names :
        \/ \E data \in Written, replace \in BOOLEAN : WriteFile(d, n, data, replace)
        \/ \E i \in 0..(MaxLen - 1), data \in Written \ {<<>>} : WriteAt(d, n, i, data)
        \/ DeleteFile(d, n)
        \/ MakeDir(d, n)
        \/ RemoveDir(d, n)
        \/ \E want \in 0..(MaxLen - 1) : ReadAt(d, n, want)
  BY DEF Start
<1>2. mounted /\ op.pc = "idle"
  BY <1>1 DEF WriteFile, WriteAt, DeleteFile, MakeDir, RemoveDir, ReadAt, Idle
<1>3. CASE \E want \in 0..(MaxLen - 1) : ReadAt(d, n, want)
  <2>1. IInv' /\ QuietStep
    BY <1>3, ReadStart
  <2>2. UNCHANGED <<fat, disk, fsinfo, mounted, fsDone, op>>
    BY <1>3 DEF ReadAt, diskVars
  <2> QED BY <1>2, <2>1, <2>2
<1>4. CASE ~\E want \in 0..(MaxLen - 1) : ReadAt(d, n, want)
  <2>1. IInv' /\ QuietStep /\ Begun
    BY <1>1, <1>4, WriteStart, WriteAtStart, DeleteStart, MakeDirStart, RemoveDirStart
  <2> QED BY <1>2, <2>1 DEF Begun
<1> QED BY <1>3, <1>4

LEMMA RepairHow ==
  ASSUME IInv, RepairRow
  PROVE  /\ op \in OpsOf(op.before) /\ op.pc = "row" /\ op.live \subseteq Clusters
         /\ UNCHANGED <<disk, fsinfo, mounted, fsDone, at>>
         /\ \/ /\ fat' = fat /\ op' = NextRow /\ op.cp = 1
               /\ \A k \in Copies, c \in Clusters :
                    Row[c] = op.cur => fat[k][c] = IF c \in op.live THEN fat[1][c] ELSE FREE
            \/ fat' = fat /\ op' = Done(op, 0) /\ ReadErrors
            \/ /\ (fat' = fat /\ WriteErrors) \/ (fat' = Mended(fat, op.cp, op.cur, op.live) /\ ~NeedsUnknown)
               /\ IF op.cp # NumFats THEN op' = Onward(op, op.cp + 1) ELSE op' = NextRow
<1>1. op \in OpsOf(op.before) /\ op.pc = "row" /\ UNCHANGED <<disk, fsinfo, mounted, fsDone, at>>
  BY DEF IInv, Typed, RepairRow, memVars
<1>2. op.live \subseteq Clusters /\ op.cp \in Copies /\ op.cp >= 1 /\ op.cp \in Nat /\ (op.cp < NumFats <=> op.cp # NumFats)
  <2>1. op.live \subseteq Clusters
    BY <1>1 DEF OpsOf
  <2>2. op.cp \in 1..NumFats
    BY <1>1, CpRange DEF Copies
  <2> QED BY <1>1, <2>1, <2>2, CpRange, Volume
<1>3. CASE ~Dirty(op.cur) /\ op' = NextRow /\ UNCHANGED fat
  <2>1. op.cp = 1 /\ ~\E f \in Copies, c \in InRow(op.cur) : fat[f][c] # Repaired(c)
    BY <1>2, <1>3 DEF Dirty
  <2>2. \A k \in Copies, c \in Clusters : Row[c] = op.cur => fat[k][c] = IF c \in op.live THEN fat[1][c] ELSE FREE
    BY <2>1 DEF InRow, Repaired
  <2> QED BY <1>1, <1>2, <1>3, <2>1, <2>2
<1>4. CASE ReadErrors /\ op.cp = 1 /\ op' = Done(op, 0) /\ UNCHANGED fat
  BY <1>1, <1>2, <1>4
<1>5. CASE /\ Dirty(op.cur) /\ ~NeedsUnknown
           /\ \/ fat' = [fat EXCEPT ![op.cp] = [c \in Clusters |-> IF Row[c] = op.cur THEN Repaired(c) ELSE @[c]]]
              \/ WriteErrors /\ UNCHANGED fat
           /\ op' = IF op.cp < NumFats THEN [op EXCEPT !.cp = @ + 1] ELSE NextRow
  BY <1>1, <1>2, <1>5 DEF Mended, Repaired, Onward
<1> QED BY <1>3, <1>4, <1>5 DEF RepairRow

(* The clusters of the FAT sectors whose copies fat_recover did not leave  *)
(* different.                                                              *)
Alike == {c \in Clusters : Row[c] \notin left.rows}

Same(f, X) == \A k \in Copies, x \in X : f[k][x] = f[1][x]

(* v is being written for cluster c: the copies before cp have it.         *)
Half(f, X, cp, c, v) ==
  IF cp = 1 THEN Same(f, X)
  ELSE /\ f[1][c] = v
       /\ \A k \in Copies, x \in X : k < cp \/ x # c => f[k][x] = f[1][x]

LEMMA HalfStep ==
  ASSUME NEW f \in [Copies -> Tables], NEW cp \in Copies, NEW c \in Clusters, NEW v, NEW X \in SUBSET Clusters,
         Half(f, X, cp, c, v), NEW g, g = WithEntry(f, cp, c, v)
  PROVE  IF cp # NumFats THEN Half(g, X, cp + 1, c, v) ELSE Same(g, X)
<1>1. /\ \A k \in Copies : k # cp => g[k] = f[k]
      /\ g[cp] = [x \in Clusters |-> IF x = c THEN v ELSE IF Row[x] = Row[c] THEN f[1][x] ELSE f[cp][x]]
  BY DEF WithEntry
<1>2. cp \in Nat /\ cp >= 1 /\ 1 \in Copies /\ \A k \in Copies : k \in Nat /\ k >= 1 /\ k <= NumFats
  BY Volume DEF Copies
<1>3. \A x \in X : /\ x \in Clusters /\ g[cp][x] = IF x = c THEN v ELSE f[1][x]
                   /\ g[1][x] = IF x = c THEN v ELSE f[1][x]
  <2> SUFFICES ASSUME NEW x \in X
               PROVE  /\ x \in Clusters /\ g[cp][x] = IF x = c THEN v ELSE f[1][x]
                      /\ g[1][x] = IF x = c THEN v ELSE f[1][x]
    OBVIOUS
  <2>1. x # c => f[cp][x] = f[1][x]
    BY DEF Half, Same
  <2>2. g[cp][x] = IF x = c THEN v ELSE f[1][x]
    BY <1>1, <2>1
  <2>3. cp # 1 => g[1] = f[1] /\ f[1][c] = v
    BY <1>1, <1>2 DEF Half
  <2> QED BY <2>2, <2>3
<1>4. \A k \in Copies, x \in X : k < cp + 1 \/ x # c => g[k][x] = g[1][x]
  <2> SUFFICES ASSUME NEW k \in Copies, NEW x \in X, k < cp + 1 \/ x # c PROVE g[k][x] = g[1][x]
    OBVIOUS
  <2>1. CASE k = cp
    BY <1>3, <2>1
  <2>2. CASE k # cp
    <3>1. g[k] = f[k] /\ (k < cp \/ x # c)
      BY <1>1, <1>2, <2>2
    <3>2. f[k][x] = f[1][x]
      BY <3>1 DEF Half, Same
    <3>3. CASE x # c
      BY <1>3, <3>1, <3>2, <3>3
    <3>4. CASE x = c
      <4>1. cp # 1
        BY <1>2, <3>1, <3>4
      <4> QED BY <1>1, <1>2, <3>1, <3>2, <4>1
    <3> QED BY <3>3, <3>4
  <2> QED BY <2>1, <2>2
<1>5. CASE cp # NumFats
  <2>1. cp + 1 # 1 /\ g[1][c] = v
    <3>1. CASE cp = 1
      BY <1>1, <3>1
    <3>2. CASE cp # 1
      BY <1>1, <1>2, <3>2 DEF Half
    <3> QED BY <1>2, <3>1, <3>2
  <2> QED BY <1>4, <1>5, <2>1 DEF Half
<1>6. CASE cp = NumFats
  <2>1. \A k \in Copies : k < cp + 1
    BY <1>2, <1>6
  <2> QED BY <1>4, <1>6, <2>1 DEF Same
<1> QED BY <1>5, <1>6

(* Which cluster's entry the call is writing, and what.                    *)
Cell(o) == IF o.pc = "alloc" THEN o.cur ELSE IF o.pc = "release" THEN o.rel ELSE o.prev
Value(o) == IF o.pc = "link" THEN o.cur ELSE IF o.pc = "release" THEN FREE ELSE EOC

(* fat_recover is through with the rows before o.cur, and with o.cur in    *)
(* the copies before o.cp.                                                 *)
MendedSo(f, o) ==
  \A k \in Copies, c \in Clusters :
    o.pc = "fsinfo" \/ Row[c] < o.cur \/ (Row[c] = o.cur /\ k < o.cp)
      => f[k][c] = IF c \in o.live THEN f[1][c] ELSE FREE

MirrorIs(f, m, o, X) ==
  /\ o.pc \in {"done", "data", "entry", "poke"} \/ (m /\ o.pc = "idle") => Same(f, X)
  /\ o.pc \in {"alloc", "link", "seal", "release"} => Half(f, X, o.cp, Cell(o), Value(o))
  /\ o.pc \in {"row", "fsinfo"} => MendedSo(f, o)

Mirror == MirrorIs(fat, mounted, op, Alike)

LEMMA AlikeFact == Alike \in SUBSET Clusters /\ (left' = left => Alike' = Alike)
BY DEF Alike

LEMMA MirrorSame ==
  ASSUME NEW f, NEW X, Same(f, X), NEW m, NEW o, o.pc \notin {"row", "fsinfo"}, o.cp = 1
  PROVE  MirrorIs(f, m, o, X)
BY DEF MirrorIs, Half

LEMMA MirrorAlloc == ASSUME ~ReadErrors, ~WriteErrors, IInv, Mirror, Alloc PROVE Mirror'
<1> PICK o : o = op
  OBVIOUS
<1> PICK p : p = op'
  OBVIOUS
<1>1. /\ o \in OpsOf(o.before) /\ Half(fat, Alike, o.cp, o.cur, EOC) /\ fat \in [Copies -> Tables] /\ o.cp \in Copies /\ o.cp \in Nat
  <2>1. o.pc = "alloc" /\ o \in OpsOf(o.before) /\ fat \in [Copies -> Tables]
    BY DEF Alloc, IInv, Typed
  <2> QED BY <2>1, CpRange, AlikeFact, LeftKept DEF Mirror, MirrorIs, Cell, Value
<1>2. CASE fat' = fat /\ Ended(o, p) /\ o.cp = 1
  <2>1. Same(fat, Alike) /\ p.pc \notin {"row", "fsinfo"} /\ p.cp = 1
    BY <1>1, <1>2 DEF Half, Ended
  <2>2. MirrorIs(fat, mounted', p, Alike)
    BY ONLY <2>1, MirrorSame
  <2> QED BY <1>2, <2>2, AlikeFact, LeftKept DEF Mirror
<1>3. CASE \E c \in Clusters : /\ fat' = WithEntry(fat, o.cp, c, EOC) /\ Took(o, p, c)
                               /\ o.cp > 1 => c = o.cur
  <2>1. PICK c \in Clusters : fat' = WithEntry(fat, o.cp, c, EOC) /\ Took(o, p, c) /\ (o.cp > 1 => c = o.cur)
    BY <1>3
  <2>2. Half(fat, Alike, o.cp, c, EOC)
    <3>1. CASE o.cp > 1
      BY <1>1, <2>1, <3>1
    <3>2. CASE o.cp = 1
      BY <1>1, <3>2 DEF Half
    <3> QED BY <1>1, <3>1, <3>2, Volume DEF Copies
  <2>3. IF o.cp # NumFats THEN Half(fat', Alike, o.cp + 1, c, EOC) ELSE Same(fat', Alike)
    BY <1>1, <2>1, <2>2, HalfStep, AlikeFact
  <2>4. CASE o.cp # NumFats
    <3>1. p.pc = "alloc" /\ p.cur = c /\ p.cp = o.cp + 1
      BY <2>1, <2>4 DEF Took
    <3> QED BY <2>3, <2>4, <3>1, AlikeFact, LeftKept DEF Mirror, MirrorIs, Cell, Value
  <2>5. CASE o.cp = NumFats
    <3>1. p.pc \in {"data", "link"} /\ p.cp = 1
      BY <2>1, <2>5 DEF Took
    <3>2. Same(fat', Alike) /\ p.pc \notin {"row", "fsinfo"}
      BY <2>3, <2>5, <3>1
    <3>3. MirrorIs(fat', mounted', p, Alike)
      BY ONLY <3>1, <3>2, MirrorSame
    <3> QED BY <3>3, AlikeFact, LeftKept DEF Mirror
  <2> QED BY <2>4, <2>5
<1> QED BY <1>2, <1>3, AllocHow

LEMMA MirrorWired ==
  ASSUME IInv, Mirror, NEW o, o = op, o.pc \in {"link", "seal"}, o.prev \in Clusters, NEW p, p = op', NEW pc \in {"data", "entry"},
         fat' = WithEntry(fat, o.cp, o.prev, Value(o)), NEW prev, Wired(o, p, pc, prev), left' = left
  PROVE  Mirror'
<1>1. o.cp \in Copies /\ fat \in [Copies -> Tables] /\ o \in OpsOf(o.before)
  BY CpRange DEF IInv, Typed
<1>2. Half(fat, Alike, o.cp, o.prev, Value(o))
  BY DEF Mirror, MirrorIs, Cell
<1>3. IF o.cp # NumFats THEN Half(fat', Alike, o.cp + 1, o.prev, Value(o)) ELSE Same(fat', Alike)
  BY <1>1, <1>2, HalfStep, AlikeFact
<1>4. CASE o.cp # NumFats
  <2>1. p.pc = o.pc /\ p.cp = o.cp + 1 /\ p.prev = o.prev /\ p.cur = o.cur
    BY <1>4 DEF Wired
  <2>2. Cell(p) = o.prev /\ Value(p) = Value(o)
    BY <2>1 DEF Cell, Value
  <2> QED BY <1>3, <1>4, <2>1, <2>2, AlikeFact DEF Mirror, MirrorIs
<1>5. CASE o.cp = NumFats
  <2>1. Same(fat', Alike) /\ p.pc \notin {"row", "fsinfo"} /\ p.cp = 1
    BY <1>3, <1>5 DEF Wired
  <2>2. MirrorIs(fat', mounted', p, Alike)
    BY ONLY <2>1, MirrorSame
  <2> QED BY <2>2, AlikeFact DEF Mirror
<1> QED BY <1>4, <1>5

LEMMA MirrorFree == ASSUME ~ReadErrors, ~WriteErrors, IInv, Mirror, ReleaseStep PROVE Mirror'
<1> PICK o : o = op
  OBVIOUS
<1> PICK p : p = op'
  OBVIOUS
<1>1. PICK next \in Nat : /\ fat' = WithEntry(fat, o.cp, o.rel, FREE) /\ Freed(o, p, next)
                          /\ o \in OpsOf(o.before) /\ o.rel \in Clusters
  BY FreeHow
<1>2. o.cp \in Copies /\ fat \in [Copies -> Tables] /\ o.pc = "release"
  BY <1>1, CpRange DEF IInv, Typed, ReleaseStep
<1>3. Half(fat, Alike, o.cp, o.rel, FREE)
  BY <1>2 DEF Mirror, MirrorIs, Cell, Value
<1>4. IF o.cp # NumFats THEN Half(fat', Alike, o.cp + 1, o.rel, FREE) ELSE Same(fat', Alike)
  BY <1>1, <1>2, <1>3, HalfStep, AlikeFact
<1>5. CASE o.cp # NumFats
  <2>1. p.pc = "release" /\ p.cp = o.cp + 1 /\ p.rel = o.rel
    BY <1>1, <1>5 DEF Freed
  <2> QED BY <1>4, <1>5, <2>1, AlikeFact, LeftKept DEF Mirror, MirrorIs, Cell, Value
<1>6. CASE o.cp = NumFats
  <2>1. Same(fat', Alike) /\ p.pc \notin {"row", "fsinfo"} /\ p.cp = 1
    BY <1>1, <1>4, <1>6 DEF Freed, Through
  <2>2. MirrorIs(fat', mounted', p, Alike)
    BY ONLY <2>1, MirrorSame
  <2> QED BY <2>2, AlikeFact, LeftKept DEF Mirror
<1> QED BY <1>5, <1>6

LEMMA MendedRow ==
  ASSUME NEW o, o = op, NEW b, o \in OpsOf(b), o.pc = "row", NEW p, p = NextRow,
         NEW f, \A k \in Copies, c \in Clusters : Row[c] < o.cur \/ Row[c] = o.cur
                  => f[k][c] = IF c \in o.live THEN f[1][c] ELSE FREE,
         NEW m, NEW X
  PROVE  MirrorIs(f, m, p, X)
<1>1. /\ p.live = o.live /\ p.cp = 1 /\ p.pc \in {"row", "fsinfo"} /\ o.cur \in Nat
      /\ p.pc = "row" => p.cur \in Rows /\ p.cur > o.cur /\ \A r \in Rows : r > o.cur => p.cur <= r
      /\ p.pc = "fsinfo" => \A r \in Rows : ~(r > o.cur)
  <2>1. o.cur \in Nat
    BY DEF OpsOf
  <2> QED BY <2>1, NextRowFact
<1>2. \A k \in Copies : k \in Nat /\ ~(k < 1)
  BY Volume DEF Copies
<1>3. \A c \in Clusters : Row[c] \in Rows /\ Row[c] \in Nat
  BY RowsFact
<1>4. \A c \in Clusters, k \in Copies :
        p.pc = "fsinfo" \/ Row[c] < p.cur \/ (Row[c] = p.cur /\ k < p.cp) => Row[c] < o.cur \/ Row[c] = o.cur
  <2> TAKE c \in Clusters, k \in Copies
  <2>1. CASE p.pc = "fsinfo"
    <3>1. ~(Row[c] > o.cur)
      BY <1>1, <1>3, <2>1
    <3> QED BY <1>1, <1>3, <3>1
  <2>2. CASE p.pc = "row" /\ Row[c] < p.cur
    <3>2. p.cur \in Nat /\ Row[c] \in Nat /\ (Row[c] > o.cur => p.cur <= Row[c])
      BY <1>1, <1>3, <2>2, RowsFact
    <3>1. ~(Row[c] > o.cur)
      BY ONLY <2>2, <3>2
    <3> QED BY <1>1, <1>3, <3>1
  <2> QED BY <1>1, <1>2, <2>1, <2>2
<1> QED BY <1>1, <1>4 DEF MirrorIs, MendedSo

LEMMA MirrorRepair == ASSUME ~ReadErrors, ~WriteErrors, IInv, Mirror, RepairRow PROVE Mirror'
<1> PICK o : o = op
  OBVIOUS
<1> PICK p : p = op'
  OBVIOUS
<1>1. /\ o \in OpsOf(o.before) /\ o.pc = "row" /\ MendedSo(fat, o) /\ o.cur \in Nat /\ o.live \subseteq Clusters
      /\ fat \in [Copies -> Tables] /\ o.cp \in Copies /\ o.cp \in Nat
  <2>1. o \in OpsOf(o.before) /\ o.pc = "row" /\ fat \in [Copies -> Tables]
    BY RepairHow DEF IInv, Typed
  <2> QED BY <2>1, CpRange, AlikeFact, LeftKept DEF Mirror, MirrorIs, OpsOf
<1>2. CASE /\ fat' = fat /\ op' = NextRow /\ op.cp = 1
           /\ \A k \in Copies, c \in Clusters :
                    Row[c] = op.cur => fat[k][c] = IF c \in op.live THEN fat[1][c] ELSE FREE
  <2>1. \A k \in Copies, c \in Clusters : Row[c] < o.cur \/ Row[c] = o.cur
                  => fat[k][c] = IF c \in o.live THEN fat[1][c] ELSE FREE
    BY <1>1, <1>2 DEF MendedSo
  <2>2. MirrorIs(fat, mounted', p, Alike)
    BY <1>1, <1>2, <2>1, MendedRow
  <2> QED BY <1>2, <2>2, AlikeFact, LeftKept DEF Mirror
<1>3. CASE /\ fat' = Mended(fat, op.cp, op.cur, op.live)
           /\ IF op.cp # NumFats THEN op' = Onward(op, op.cp + 1) ELSE op' = NextRow
  <2> PICK g : g = fat'
    OBVIOUS
  <2>1. /\ \A k \in Copies : k # o.cp => g[k] = fat[k]
        /\ \A c \in Clusters : g[o.cp][c] = IF Row[c] = o.cur THEN (IF c \in o.live THEN fat[1][c] ELSE FREE) ELSE fat[o.cp][c]
        /\ \A c \in Clusters \cap o.live : g[1][c] = fat[1][c]
    BY <1>1, <1>3, MendedFact
  <2>2. \A k \in Copies : k \in Nat /\ k >= 1 /\ k <= NumFats
    BY Volume DEF Copies
  <2>3. \A k \in Copies, c \in Clusters : Row[c] < o.cur \/ (Row[c] = o.cur /\ k < o.cp + 1)
                  => g[k][c] = IF c \in o.live THEN g[1][c] ELSE FREE
    <3> SUFFICES ASSUME NEW k \in Copies, NEW c \in Clusters, Row[c] < o.cur \/ (Row[c] = o.cur /\ k < o.cp + 1)
                 PROVE  g[k][c] = IF c \in o.live THEN fat[1][c] ELSE FREE
      BY <2>1
    <3>1. Row[c] \in Nat
      BY RowsFact
    <3>2. CASE k = o.cp /\ Row[c] = o.cur
      BY <2>1, <3>2
    <3>3. CASE ~(k = o.cp /\ Row[c] = o.cur)
      <4>1. Row[c] < o.cur \/ (Row[c] = o.cur /\ k < o.cp)
        BY <1>1, <2>2, <3>1, <3>3
      <4>2. fat[k][c] = IF c \in o.live THEN fat[1][c] ELSE FREE
        BY <1>1, <4>1 DEF MendedSo
      <4>3. g[k][c] = fat[k][c]
        <5>1. CASE k # o.cp
          BY <2>1, <5>1
        <5>2. CASE k = o.cp
          BY <2>1, <3>3, <5>2
        <5> QED BY <5>1, <5>2
      <4> QED BY <4>2, <4>3
    <3> QED BY <3>2, <3>3
  <2>4. CASE op.cp # NumFats
    <3>1. o.cp + 1 \in Copies /\ p = Onward(o, o.cp + 1)
      BY <1>1, <1>3, <2>4, CpRange
    <3>2. p.pc = "row" /\ p.live = o.live /\ p.cur = o.cur /\ p.cp = o.cp + 1
      BY <1>1, <3>1, OnwardFact
    <3> QED BY <2>3, <3>2, AlikeFact, LeftKept DEF Mirror, MirrorIs, MendedSo
  <2>5. CASE op.cp = NumFats
    <3>1. \A k \in Copies : k < o.cp + 1
      BY <1>1, <2>2, <2>5
    <3>2. \A k \in Copies, c \in Clusters : Row[c] < o.cur \/ Row[c] = o.cur
                  => g[k][c] = IF c \in o.live THEN g[1][c] ELSE FREE
      BY <2>3, <3>1
    <3>3. MirrorIs(g, mounted', p, Alike)
      BY <1>1, <1>3, <2>5, <3>2, MendedRow
    <3> QED BY <3>3, AlikeFact, LeftKept DEF Mirror
  <2> QED BY <2>4, <2>5
<1> QED BY <1>2, <1>3, RepairHow

LEMMA MirrorFinish == ASSUME IInv, Mirror, FinishRepair PROVE Mirror' /\ Same(fat, Alike)
<1>1. /\ op \in OpsOf(op.before) /\ fat \in [Copies -> Tables] /\ fat' = fat /\ op' = Done(op, 1) /\ MendedSo(fat, op) /\ op.pc = "fsinfo"
  BY DEF IInv, Typed, FinishRepair, Mirror, MirrorIs
<1>2. Same(fat, Alike)
  <2>1. 1 \in Copies
    BY Volume
  <2> QED BY <1>1, <2>1, AlikeFact DEF Same, MendedSo
<1>3. op'.pc = "done" /\ op'.cp = 1
  <2>1. 1 \in 0..(MaxLen + 1)
    BY Volume
  <2> QED BY <1>1, <2>1, DoneFact
<1>4. op'.pc \notin {"row", "fsinfo"}
  BY <1>3
<1> QED BY <1>1, <1>2, <1>3, <1>4, MirrorSame, AlikeFact, LeftKept DEF Mirror

LEMMA MountHow ==
  ASSUME Mount
  PROVE  /\ fat' = fat /\ disk' = disk /\ op'.kind = "mount" /\ op'.cp = 1
         /\ \/ op'.pc = "row" /\ op'.cur = Min(Rows) /\ left' = NothingLeft
            \/ op'.pc = "done" /\ op'.ret = 0 /\ left' = Leftover
<1> PICK z : z = NoOp
  OBVIOUS
<1> PICK p : p = op'
  OBVIOUS
<1>1. fat' = fat /\ disk' = disk
  BY DEF Mount, diskVars
<1>2. Live \in SUBSET Clusters /\ Min(Rows) \in Nat /\ z \in OpsOf(<<>>) /\ z.cp = 1
  BY ReachIs, LiveUp, RowsFact, NoOpFact
<1>3. CASE p = ToScan(z, Min(Rows), Live) /\ left' = NothingLeft
  BY <1>1, <1>2, <1>3, ToScanFact
<1>4. CASE p = Done([z EXCEPT !.kind = "mount"], 0) /\ left' = Leftover
  <2> PICK o : o = [z EXCEPT !.kind = "mount"]
    OBVIOUS
  <2> PICK x : x = 0
    OBVIOUS
  <2>1. "mount" \in {"none", "write", "writeat", "delete", "mkdir", "rmdir", "mount"} /\ o = [z EXCEPT !.kind = "mount"]
    OBVIOUS
  <2>2. o \in OpsOf(<<>>) /\ o.kind = "mount"
    BY ONLY <1>2, <2>1 DEF OpsOf
  <2>5. o \in OpsOf(o.before)
    BY ONLY <2>2 DEF OpsOf
  <2>3. p = Done(o, x) /\ x \in 0..(MaxLen + 1)
    BY <1>4, Volume
  <2>4. p.pc = "done" /\ p.kind = o.kind /\ p.ret = x /\ p.cp = 1
    BY ONLY <2>5, <2>3, DoneFact
  <2> QED BY <1>1, <1>4, <2>2, <2>4
<1> QED BY <1>3, <1>4 DEF Mount, ToScan

LEMMA MirrorMount == ASSUME IInv, Mount PROVE Mirror'
<1> PICK p : p = op'
  OBVIOUS
<1>1. CASE p.pc = "row" /\ p.cur = Min(Rows)
  <2>1. \A r \in Rows : r \in Nat /\ Min(Rows) <= r
    BY RowsFact
  <2>2. \A k \in Copies : k \in Nat /\ ~(k < 1)
    BY Volume DEF Copies
  <2>3. \A c \in Clusters : ~(Row[c] < p.cur)
    <3> SUFFICES ASSUME NEW c \in Clusters PROVE ~(Row[c] < p.cur)
      OBVIOUS
    <3>1. Row[c] \in Nat /\ p.cur \in Nat /\ p.cur <= Row[c]
      BY <1>1, <2>1, RowsFact
    <3> QED BY ONLY <3>1
  <2>4. \A k \in Copies, c \in Clusters : ~(p.pc = "fsinfo" \/ Row[c] < p.cur \/ (Row[c] = p.cur /\ k < p.cp))
    BY <1>1, <2>2, <2>3, MountHow
  <2> QED BY <1>1, <2>4 DEF Mirror, MirrorIs, MendedSo
<1>2. CASE p.pc = "done" /\ left' = Leftover
  <2>1. \A c \in Clusters, k \in Copies : fat[k][c] # fat[1][c] => Row[c] \in Leftover.rows
    BY DEF Leftover
  <2>2. Same(fat', Alike')
    BY <1>2, <2>1, MountHow DEF Alike, Same
  <2> QED BY <1>2, <2>2 DEF Mirror, MirrorIs
<1> QED BY <1>1, <1>2, MountHow

LEMMA MirrorStep ==
  ASSUME ~ReadErrors, ~WriteErrors PROVE IInv /\ Mirror /\ [Next]_vars => Mirror'
<1> SUFFICES ASSUME IInv, Mirror, [Next]_vars PROVE Mirror'
  OBVIOUS
<1>1. CASE UNCHANGED <<fat, mounted, op, left>>
  BY <1>1, AlikeFact DEF Mirror
<1>2. CASE Link
  <2>1. op.pc = "link" /\ Value(op) = op.cur
    BY <1>2 DEF Link, Value
  <2> QED BY <1>2, <2>1, LinkHow, LeftKept, MirrorWired
<1>3. CASE Seal
  <2>1. op.pc = "seal" /\ Value(op) = EOC
    BY <1>3 DEF Seal, Value
  <2> QED BY <1>3, <2>1, SealHow, LeftKept, MirrorWired
<1>4. CASE Same(fat, Alike) /\ fat' = fat /\ op'.pc \notin {"row", "fsinfo"} /\ op'.cp = 1 /\ left' = left
  BY <1>4, AlikeFact, MirrorSame DEF Mirror
<1>5. CASE WriteData \/ WriteEntry \/ Poke
  <2>1. Same(fat, Alike)
    BY <1>5 DEF WriteData, WriteEntry, Poke, Mirror, MirrorIs
  <2>2. CASE WriteData
    BY <1>4, <2>1, <2>2, DataHow, LeftKept
  <2>3. CASE WriteEntry
    <3>1. fat' = fat /\ op'.cp = 1 /\ op'.pc \in {"done", "release"} /\ left' = left
      BY <2>3, EntryEnds, LeftKept DEF Ended
    <3> QED BY <1>4, <2>1, <3>1
  <2>4. CASE Poke
    BY <2>1, <2>4, PokeHow, AlikeFact, LeftKept DEF Mirror, MirrorIs
  <2> QED BY <1>5, <2>2, <2>3, <2>4
<1>6. CASE Return
  <2>1. Same(fat, Alike) /\ fat' = fat /\ op' = NoOp /\ left' = left
    BY <1>6, LeftKept DEF Return, Mirror, MirrorIs, diskVars
  <2> QED BY <1>4, <2>1, NoOpFact
<1>7. CASE Step
  BY <1>1, <1>2, <1>3, <1>5, <1>6, <1>7, MirrorAlloc, MirrorFree, MirrorRepair, MirrorFinish DEF Step, MarkUnknown
<1>8. CASE Start
  <2>1. Same(fat, Alike)
    BY <1>8, StartHow DEF Mirror, MirrorIs
  <2>2. CASE Begun
    <3>1. fat' = fat /\ op'.pc \notin {"row", "fsinfo"} /\ op'.cp = 1 /\ left' = left
      BY <1>8, <2>2, LeftKept DEF Begun
    <3> QED BY <1>4, <2>1, <3>1
  <2> QED BY <1>1, <1>8, <2>2, StartHow, LeftKept
<1>9. CASE PowerCut
  <2>1. mounted' = FALSE /\ op' = NoOp
    BY <1>9 DEF PowerCut
  <2> QED BY <2>1, NoOpFact DEF Mirror, MirrorIs
<1>10. CASE Refused
  BY <1>1, <1>10 DEF Refused, diskVars
<1> QED BY <1>1, <1>7, <1>8, <1>9, <1>10, MirrorMount DEF Next, vars

LEMMA MirrorInit == Init => Mirror
BY NoOpFact DEF Init, Mirror, MirrorIs

(* With a disk that works, the copies of the FAT agree whenever the volume *)
(* is mounted and no FAT write is under way, whatever a power cut left.    *)
THEOREM MirrorsDoAgree == ASSUME ~ReadErrors, ~WriteErrors PROVE Spec => []MirrorsAgree
<1>1. Mirror => MirrorsAgree
  BY DEF Mirror, MirrorIs, Same, Alike, MirrorsAgree
<1> QED BY <1>1, MirrorInit, MirrorStep, Invariant, PTL DEF Spec
-----------------------------------------------------------------------------
(* The free count in FSInfo.                                               *)

InfoOk ==
  Fat32 => /\ fsinfo \in {Unknown, Cardinality({c \in Clusters : fat[1][c] = FREE})}
           /\ fsDone => fsinfo = Unknown

LEMMA InfoKeep ==
  ASSUME InfoOk, fsinfo' = fsinfo,
         \/ fat' = fat /\ (fsDone' => fsDone)
         \/ ~NeedsUnknown /\ fsDone' = fsDone
  PROVE  InfoOk'
BY DEF InfoOk, NeedsUnknown

LEMMA InfoFinish == ASSUME ~ReadErrors, ~WriteErrors, IInv, Mirror, InfoOk, FinishRepair PROVE InfoOk'
<1>1. /\ MendedSo(fat, op) /\ op.pc = "fsinfo" /\ fat' = fat /\ 1 \in Copies
  BY Volume DEF FinishRepair, Mirror, MirrorIs
<1>2. \A c \in Clusters : Repaired(c) = fat[1][c]
  BY <1>1 DEF MendedSo, Repaired
<1>3. {c \in Clusters : Repaired(c) = FREE} = {c \in Clusters : fat[1][c] = FREE}
  BY <1>2
<1>4. FreeCount = Cardinality({c \in Clusters : fat[1][c] = FREE})
  BY <1>3 DEF FreeCount
<1> QED BY <1>1, <1>4 DEF FinishRepair, InfoOk

LEMMA InfoStep ==
  ASSUME ~ReadErrors, ~WriteErrors PROVE IInv /\ Mirror /\ InfoOk /\ [Next]_vars => InfoOk'
<1> SUFFICES ASSUME IInv, Mirror, InfoOk, [Next]_vars PROVE InfoOk'
  OBVIOUS
<1>1. CASE UNCHANGED vars \/ Refused \/ Return
  BY <1>1, InfoKeep DEF vars, Refused, Return, diskVars, memVars
<1>2. CASE MarkUnknown
  BY <1>2 DEF MarkUnknown, InfoOk
<1>3. CASE Alloc
  BY <1>3, AllocHow, InfoKeep
<1>4. CASE Link
  BY <1>4, LinkHow, InfoKeep
<1>5. CASE Seal
  BY <1>5, SealHow, InfoKeep
<1>6. CASE ReleaseStep
  BY <1>6, FreeHow, InfoKeep
<1>7. CASE WriteData
  BY <1>7, DataHow, InfoKeep
<1>8. CASE WriteEntry
  BY <1>8, EntryEnds, InfoKeep
<1>9. CASE Poke
  BY <1>9, PokeHow, InfoKeep
<1>10. CASE RepairRow
  BY <1>10, RepairHow, InfoKeep
<1>11. CASE FinishRepair
  BY <1>11, InfoFinish
<1>12. CASE Start
  BY <1>12, StartHow, InfoKeep
<1>13. CASE Mount \/ PowerCut
  BY <1>13, InfoKeep DEF Mount, PowerCut, diskVars
<1> QED BY <1>1, <1>2, <1>3, <1>4, <1>5, <1>6, <1>7, <1>8, <1>9, <1>10, <1>11, <1>12, <1>13 DEF Next, Step

LEMMA InfoInit == Init => InfoOk
<1> SUFFICES ASSUME Init PROVE InfoOk
  OBVIOUS
<1>1. {c \in Clusters : fat[1][c] = FREE} = Clusters
  BY Volume DEF Init
<1>2. Cardinality(Clusters) = NClusters
  BY FS_Interval, Volume DEF Clusters
<1> QED BY <1>1, <1>2 DEF Init, InfoOk

(* With a disk that works, FSInfo's free count is right or marked unknown  *)
(* at every instant, so whoever mounts the volume after a cut can trust it. *)
THEOREM FsInfoIsNeverWrong == ASSUME ~ReadErrors, ~WriteErrors PROVE Spec => []FsInfoNeverWrong
<1>1. InfoOk => FsInfoNeverWrong
  BY DEF InfoOk, FsInfoNeverWrong
<1> QED BY <1>1, InfoInit, InfoStep, MirrorInit, MirrorStep, Invariant, PTL DEF Spec
-----------------------------------------------------------------------------
(* No cluster is lost.                                                     *)

UsedIn(ft) == {c \in Clusters : ft[c] # FREE}
Reach(ft, first) == {ChainOf(ft, first)[k] : k \in 1..NClusters} \cap Clusters

LEMMA ReachNone == ASSUME NEW ft, NEW first, first \notin Clusters PROVE Reach(ft, first) = {}
<1> SUFFICES ASSUME NEW k \in 1..NClusters PROVE ChainOf(ft, first)[k] \notin Clusters
  BY DEF Reach
<1>1. 1 \in 1..k
  BY Volume
<1> QED BY <1>1, ChainBefore, ChainStep

LEMMA ReachFact ==
  ASSUME NEW ft, NEW dk, NEW first, NEW n, Chained(ft, dk, first, n)
  PROVE  Reach(ft, first) = {ChainOf(ft, first)[k] : k \in 1..n}
<1>1. CASE n = 0
  <2>1. first \notin Clusters /\ 1..n = {}
    BY <1>1, ChainedFact, Volume
  <2> QED BY <2>1, ReachNone
<1>2. CASE n # 0
  <2>1. n \in 1..NClusters /\ n \in Nat /\ ft[ChainOf(ft, first)[n]] = EOC
        /\ \A k \in 1..n : ChainOf(ft, first)[k] \in Clusters
    BY <1>2, ChainedFact DEF Run
  <2>2. \A k \in 1..NClusters : k > n => ChainOf(ft, first)[k] \notin Clusters
    <3> SUFFICES ASSUME NEW k \in 1..NClusters, k > n, ChainOf(ft, first)[k] \in Clusters PROVE FALSE
      OBVIOUS
    <3>1. n + 1 \in 1..k /\ n \in 1..(NClusters - 1) /\ n \in 1..n
      BY <2>1, Volume
    <3>2. ChainOf(ft, first)[n + 1] = EOC
      BY <2>1, <3>1, ChainStep DEF StepOf
    <3> QED BY <3>1, <3>2, ChainBefore, Volume
  <2>3. \A k \in 1..NClusters : k <= n <=> k \in 1..n
    BY <2>1, Volume
  <2>4. 1..n \subseteq 1..NClusters /\ \A k \in 1..NClusters : k > n \/ k <= n
    BY <2>1, Volume
  <2> QED BY <2>1, <2>2, <2>3, <2>4 DEF Reach
<1> QED BY <1>1, <1>2

(* A chain without its first cluster, once that is free.                   *)
LEMMA TailFact ==
  ASSUME NEW ft \in Tables, NEW dk, NEW r, NEW n, Chained(ft, dk, r, n), n # 0, NEW gt,
         \A c \in Clusters : c # r => gt[c] = ft[c], LiveOf(gt, dk) = LiveOf(ft, dk),
         NEW next, next = ft[r]
  PROVE  /\ next \in Clusters => \E m : Chained(gt, dk, next, m)
         /\ Reach(gt, next) = Reach(ft, r) \ {r}
<1> DEFINE C(k) == ChainOf(ft, r)[k]
<1>1. /\ n \in 1..NClusters /\ n \in Nat /\ Run(ft, r, n) /\ r \in Clusters /\ C(1) = r /\ ft[C(n)] = EOC
      /\ \A k \in 1..n : C(k) \in Clusters \ LiveOf(ft, dk)
      /\ \A k \in 1..(n - 1) : ft[C(k)] = C(k + 1)
      /\ Reach(ft, r) = {C(k) : k \in 1..n}
      /\ \A i, j \in 1..n : C(i) = C(j) => i = j
  <2>1. n > 0 /\ n \in Nat
    BY ChainedFact
  <2> QED BY <2>1, ChainedFact, ReachFact, RunInjective DEF Run
<1>2. CASE n = 1
  <2>1. next = EOC /\ Reach(ft, r) = {r}
    BY <1>1, <1>2
  <2> QED BY <2>1, ReachNone, Volume
<1>3. CASE n # 1
  <2> DEFINE m == n - 1
  <2>1. m \in Nat /\ m \in 1..NClusters /\ 2 \in 1..n /\ 2 \in 1..NClusters /\ m <= NClusters + 1 - 2 /\ 1 \in 1..(n - 1) /\ 1 \in 1..n
    BY <1>1, <1>3, Volume
  <2>2. next = C(2) /\ next \in Clusters
    BY <1>1, <2>1
  <2>3. \A k \in 1..m : ChainOf(ft, next)[k] = C(k + 1)
    <3> TAKE k \in 1..m
    <3>1. k \in 1..(NClusters + 1 - 2) /\ 2 + k - 1 = k + 1
      BY <2>1, Volume
    <3> QED BY <2>1, <2>2, <3>1, ChainShift
  <2>4. \A k \in 1..m : k + 1 \in 1..n /\ C(k + 1) \in Clusters \ LiveOf(ft, dk) /\ C(k + 1) # r /\ gt[C(k + 1)] = ft[C(k + 1)]
    <3> TAKE k \in 1..m
    <3>1. k + 1 \in 1..n /\ k + 1 # 1
      BY <1>1, <2>1
    <3> QED BY <1>1, <2>1, <3>1
  <2>5. \A k \in 1..m : ChainOf(gt, next)[k] = C(k + 1)
    <3>1. \A k \in 1..(m - 1) : StepOf(gt, ChainOf(ft, next)[k]) = StepOf(ft, ChainOf(ft, next)[k])
      <4> TAKE k \in 1..(m - 1)
      <4>1. k \in 1..m
        BY <2>1
      <4> QED BY <2>3, <2>4, <4>1 DEF StepOf
    <3>2. \A k \in 1..m : ChainOf(gt, next)[k] = ChainOf(ft, next)[k]
      BY <2>1, <3>1, ChainPrefix
    <3> QED BY <2>3, <3>2
  <2>6. m \in 1..m /\ m + 1 = n /\ m # 0
    BY <1>1, <2>1
  <2>7. Run(gt, next, m)
    <3>1. gt[ChainOf(gt, next)[m]] = EOC
      BY <1>1, <2>4, <2>5, <2>6
    <3> QED BY <2>1, <2>4, <2>5, <3>1 DEF Run
  <2>8. Chained(gt, dk, next, m)
    BY <2>1, <2>4, <2>5, <2>6, <2>7 DEF Chained
  <2>9. {C(k + 1) : k \in 1..m} = {C(k) : k \in 1..n} \ {r}
    <3>1. \A k \in 1..n : C(k) # r => k - 1 \in 1..m /\ (k - 1) + 1 = k
      BY <1>1, <2>1
    <3> QED BY <2>4, <3>1
  <2>10. Reach(gt, next) = {C(k + 1) : k \in 1..m}
    BY <2>5, <2>8, ReachFact
  <2> QED BY <1>1, <2>8, <2>9, <2>10
<1> QED BY <1>2, <1>3

(* The clusters the call in progress has taken and not linked yet, or has  *)
(* unlinked and not freed yet.                                             *)
Freeing(o) == IF o.cp = 1 THEN o.rel ELSE o.cur
Held(ft, o) ==
  IF o.pc = "link" \/ (o.pc = "alloc" /\ o.cp > 1) THEN Reach(ft, o.first) \cup {o.cur}
  ELSE IF o.pc \in {"alloc", "data", "seal"} \/ (o.pc = "entry" /\ o.kind \in {"write", "mkdir"})
  THEN Reach(ft, o.first)
  ELSE IF o.pc = "release" THEN Reach(ft, Freeing(o)) ELSE {}

(* What the FAT marks used, but for what the mount left lost.              *)
TakenIn(ft, L) == UsedIn(ft) \ L

KeptIs(ft, dk, m, o, L) ==
  m => IF o.pc \in {"row", "fsinfo"} THEN L = {}
       ELSE /\ L \subseteq UsedIn(ft)
            /\ TakenIn(ft, L) = LiveOf(ft, dk) \cup Held(ft, o)
            /\ o.pc = "release" => /\ o.then # "failed"
                                   /\ Freeing(o) \in Clusters => \E n : Chained(ft, dk, Freeing(o), n)

Kept == KeptIs(fat[1], disk, mounted, op, left.lost)

LEMMA UsedWith ==
  ASSUME NEW ft, NEW gt, NEW c \in Clusters, \A k \in Clusters : k # c => gt[k] = ft[k]
  PROVE  /\ gt[c] # FREE => UsedIn(gt) = UsedIn(ft) \cup {c}
         /\ gt[c] = FREE => UsedIn(gt) = UsedIn(ft) \ {c}
         /\ ft[c] # FREE => c \in UsedIn(ft)
BY DEF UsedIn

(* Marking a cluster the mount did not leave lost, or freeing one.         *)
LEMMA TakenWith ==
  ASSUME NEW ft, NEW gt, NEW c \in Clusters, \A k \in Clusters : k # c => gt[k] = ft[k],
         NEW L, L \subseteq UsedIn(ft), c \notin L
  PROVE  /\ L \subseteq UsedIn(gt)
         /\ gt[c] # FREE => TakenIn(gt, L) = TakenIn(ft, L) \cup {c}
         /\ gt[c] = FREE => TakenIn(gt, L) = TakenIn(ft, L) \ {c}
BY DEF TakenIn, UsedIn

(* The call failed: the chain it built is what is to be freed.             *)
LEMMA KeptEnded ==
  ASSUME NEW ft, NEW dk, NEW o, NEW p, Ended(o, p), NEW n, Chained(ft, dk, o.first, n), NEW m,
         NEW L, L \subseteq UsedIn(ft), TakenIn(ft, L) = LiveOf(ft, dk) \cup Reach(ft, o.first)
  PROVE  KeptIs(ft, dk, m, p, L)
<1>1. CASE p.pc = "release" /\ p.then = "fail" /\ p.rel = o.first /\ o.first \in Clusters /\ p.cp = 1
  <2>1. Freeing(p) = o.first /\ Held(ft, p) = Reach(ft, o.first)
    BY <1>1 DEF Freeing, Held
  <2> QED BY <1>1, <2>1 DEF KeptIs
<1>2. CASE p.pc = "done" /\ o.first \notin Clusters
  BY <1>2, ReachNone DEF KeptIs, Held
<1> QED BY <1>1, <1>2 DEF Ended

LEMMA KeptAlloc == ASSUME ~ReadErrors, ~WriteErrors, IInv, Kept, Alloc PROVE Kept'
<1> PICK L : L = left.lost
  OBVIOUS
<1>0. left'.lost = L
  BY LeftKept
<1> PICK o : o = op
  OBVIOUS
<1> PICK p : p = op'
  OBVIOUS
<1> PICK ft : ft = fat[1]
  OBVIOUS
<1> PICK gt : gt = fat'[1]
  OBVIOUS
<1> PICK dk : dk = disk
  OBVIOUS
<1>1. /\ o \in OpsOf(o.before) /\ AllocOk(ft, dk, o) /\ Sound(ft, dk) /\ disk' = dk /\ mounted' = mounted
      /\ fat \in [Copies -> Tables] /\ o.cp \in Copies /\ o.cp \in Nat /\ o.cp >= 1 /\ o.pc = "alloc" /\ ft \in Tables
      /\ LiveOf(gt, dk) = LiveOf(ft, dk)
  <2>1. /\ o \in OpsOf(o.before) /\ AllocOk(ft, dk, o) /\ Sound(ft, dk) /\ disk' = dk /\ mounted' = mounted
    BY AllocHow
  <2>2. fat \in [Copies -> Tables] /\ o.pc = "alloc"
    BY DEF Alloc, IInv, Typed
  <2>3. LiveOf(gt, dk) = LiveOf(ft, dk)
    BY <2>1, AllocStep DEF QuietStep, Quiet
  <2> QED BY <2>1, <2>2, <2>3, CpRange DEF Sound
<1>2. Chained(ft, dk, o.first, o.i)
  BY <1>1 DEF AllocOk, Building
<1>3. CASE mounted
  <2>1. /\ TakenIn(ft, L) = LiveOf(ft, dk) \cup (IF o.cp > 1 THEN Reach(ft, o.first) \cup {o.cur} ELSE Reach(ft, o.first))
        /\ L \subseteq UsedIn(ft)
    BY <1>1, <1>3 DEF Kept, KeptIs, Held
  <2>2. CASE fat' = fat /\ Ended(o, p) /\ o.cp = 1
    <3>1. TakenIn(ft, L) = LiveOf(ft, dk) \cup Reach(ft, o.first) /\ L \subseteq UsedIn(ft)
      BY <2>1, <2>2
    <3>2. KeptIs(ft, dk, mounted', p, L)
      BY ONLY <1>2, <2>2, <3>1, KeptEnded
    <3> QED BY <1>0, <1>1, <2>2, <3>2 DEF Kept
  <2>3. CASE \E c \in Clusters : /\ fat' = WithEntry(fat, o.cp, c, EOC) /\ Took(o, p, c)
                                 /\ o.cp > 1 => c = o.cur
                                 /\ ~(o.cp > 1) => ft[c] = FREE
    <3>1. PICK c \in Clusters : /\ fat' = WithEntry(fat, o.cp, c, EOC) /\ Took(o, p, c)
                                /\ o.cp > 1 => c = o.cur
                                /\ ~(o.cp > 1) => ft[c] = FREE
      BY <2>3
    <3>2. /\ gt \in Tables /\ gt[c] = EOC /\ \A k \in Clusters : k # c => gt[k] = ft[k]
          /\ c \notin LiveOf(ft, dk) /\ \A k \in 1..o.i : ChainOf(ft, o.first)[k] # c
      <4>1. CASE o.cp > 1
        <5>1. Spare(ft, dk, o) /\ c = o.cur /\ gt = ft
          BY <1>1, <3>1, <4>1, WithEntryFact DEF AllocOk
        <5> QED BY <1>1, <5>1 DEF Spare
      <4>2. CASE ~(o.cp > 1)
        <5>1. o.cp = 1 /\ ft[c] = FREE
          BY <1>1, <3>1, <4>2
        <5>2. gt \in Tables /\ gt[c] = EOC /\ \A k \in Clusters : k # c => gt[k] = ft[k]
          BY <1>1, <3>1, <5>1, WithEntryFact
        <5> QED BY <1>1, <1>2, <5>1, <5>2, SpareFact
      <4> QED BY <4>1, <4>2
    <3>3. Reach(gt, o.first) = Reach(ft, o.first)
      <4>1. \A k \in 1..o.i : ChainOf(ft, o.first)[k] \in Clusters
        BY <1>2, ChainedFact
      <4>2. \A k \in 1..o.i : gt[ChainOf(ft, o.first)[k]] = ft[ChainOf(ft, o.first)[k]]
        BY <3>2, <4>1
      <4>3. \A x \in LiveOf(ft, dk) : gt[x] = ft[x]
        BY <3>2, LiveUp
      <4>4. Chained(gt, dk, o.first, o.i) /\ \A k \in 1..o.i : ChainOf(gt, o.first)[k] = ChainOf(ft, o.first)[k]
        BY <1>1, <1>2, <3>2, <4>2, <4>3, ChainedFat
      <4> QED BY <1>2, <4>4, ReachFact
    <3>4. TakenIn(gt, L) = LiveOf(gt, dk) \cup Reach(gt, o.first) \cup {c} /\ L \subseteq UsedIn(gt)
      <4>1. TakenIn(gt, L) = TakenIn(ft, L) \cup {c} /\ L \subseteq UsedIn(gt)
        <5>1. gt[c] # FREE /\ \A k \in Clusters : k # c => gt[k] = ft[k]
          BY <3>2, Volume
        <5>2. c \notin L
          <6>1. CASE o.cp > 1
            BY <2>1, <3>1, <6>1 DEF TakenIn
          <6>2. CASE ~(o.cp > 1)
            BY <2>1, <3>1, <6>2 DEF UsedIn
          <6> QED BY <6>1, <6>2
        <5> QED BY ONLY <2>1, <5>1, <5>2, c \in Clusters, TakenWith
      <4>2. o.cp > 1 => o.cur = c
        BY <3>1
      <4> QED BY <1>1, <2>1, <3>3, <4>1, <4>2
    <3>5. CASE o.cp # NumFats
      <4>1. p.pc = "alloc" /\ p.cp = o.cp + 1 /\ p.cp > 1 /\ p.first = o.first /\ p.cur = c
        BY <1>1, <3>1, <3>5 DEF Took
      <4>2. Held(gt, p) = Reach(gt, o.first) \cup {c}
        BY <4>1 DEF Held
      <4> QED BY <1>0, <1>1, <3>4, <4>1, <4>2 DEF Kept, KeptIs
    <3>6. CASE o.cp = NumFats /\ o.first = 0
      <4>1. p.pc = "data" /\ p.first = c
        BY <3>1, <3>6 DEF Took
      <4>2. Reach(gt, o.first) = {}
        BY <3>6, ReachNone, Volume
      <4>3. Reach(gt, c) = {c}
        <5>1. c \in Clusters \ LiveOf(gt, dk) /\ gt[c] = EOC
          BY <1>1, <3>2
        <5>2. Chained(gt, dk, c, 1) /\ ChainOf(gt, c)[1] = c
          BY <5>1, ChainedOne
        <5> QED BY <5>2, ReachFact
      <4>4. Held(gt, p) = {c}
        BY <4>1, <4>3 DEF Held
      <4> QED BY <1>0, <1>1, <3>4, <4>1, <4>2, <4>4 DEF Kept, KeptIs
    <3>7. CASE o.cp = NumFats /\ o.first # 0
      <4>1. p.pc = "link" /\ p.first = o.first /\ p.cur = c
        BY <3>1, <3>7 DEF Took
      <4>2. Held(gt, p) = Reach(gt, o.first) \cup {c}
        BY <4>1 DEF Held
      <4> QED BY <1>0, <1>1, <3>4, <4>1, <4>2 DEF Kept, KeptIs
    <3> QED BY <3>5, <3>6, <3>7
  <2> QED BY <2>2, <2>3, AllocHow
<1> QED BY <1>0, <1>1, <1>3 DEF Kept, KeptIs

LEMMA KeptLink == ASSUME ~ReadErrors, ~WriteErrors, IInv, Kept, Link PROVE Kept'
<1> PICK L : L = left.lost
  OBVIOUS
<1>0. left'.lost = L
  BY LeftKept
<1> PICK o : o = op
  OBVIOUS
<1> PICK p : p = op'
  OBVIOUS
<1> PICK ft : ft = fat[1]
  OBVIOUS
<1> PICK gt : gt = fat'[1]
  OBVIOUS
<1> PICK dk : dk = disk
  OBVIOUS
<1>1. /\ o \in OpsOf(o.before) /\ LinkOk(ft, dk, o) /\ Sound(ft, dk) /\ disk' = dk /\ mounted' = mounted
      /\ fat \in [Copies -> Tables] /\ o.cp \in Copies /\ o.cp \in Nat /\ o.cp >= 1 /\ o.pc = "link" /\ ft \in Tables
      /\ LiveOf(gt, dk) = LiveOf(ft, dk) /\ o.cur \in Clusters /\ o.prev \in Clusters
      /\ fat' = WithEntry(fat, o.cp, o.prev, o.cur) /\ Wired(o, p, "data", o.cur)
  <2>1. /\ o \in OpsOf(o.before) /\ LinkOk(ft, dk, o) /\ Sound(ft, dk) /\ disk' = dk /\ mounted' = mounted
        /\ o.cur \in Clusters /\ o.prev \in Clusters
        /\ fat' = WithEntry(fat, o.cp, o.prev, o.cur) /\ Wired(o, p, "data", o.cur)
    BY LinkHow
  <2>2. fat \in [Copies -> Tables] /\ o.pc = "link"
    BY DEF Link, IInv, Typed
  <2>3. LiveOf(gt, dk) = LiveOf(ft, dk)
    BY <2>1, LinkStep DEF QuietStep, Quiet
  <2> QED BY <2>1, <2>2, <2>3, CpRange DEF Sound
<1>2. /\ Reach(gt, o.first) \cup {o.cur} = Reach(ft, o.first) \cup {o.cur}
      /\ o.cur \in Reach(gt, o.first) /\ UsedIn(gt) = UsedIn(ft)
  <2>1. CASE o.cp = 1
    <3>1. /\ Chained(ft, dk, o.first, o.i) /\ Spare(ft, dk, o) /\ ChainOf(ft, o.first)[o.i] = o.prev /\ o.i > 0 /\ o.i \in Nat
      <4>1. o.i \in Nat
        BY <1>1, IRange
      <4> QED BY <1>1, <2>1, <4>1 DEF LinkOk, Building
    <3>2. gt \in Tables /\ gt[o.prev] = o.cur /\ \A k \in Clusters : k # o.prev => gt[k] = ft[k]
      BY <1>1, <2>1, WithEntryFact
    <3>3. /\ Chained(gt, dk, o.first, o.i + 1) /\ ChainOf(gt, o.first)[o.i + 1] = o.cur
          /\ \A k \in 1..o.i : ChainOf(gt, o.first)[k] = ChainOf(ft, o.first)[k]
      BY <1>1, <3>1, <3>2, ChainedLink DEF Spare
    <3>4. 1..(o.i + 1) = 1..o.i \cup {o.i + 1}
      BY <3>1
    <3>5. Reach(gt, o.first) = Reach(ft, o.first) \cup {o.cur}
      BY <3>1, <3>3, <3>4, ReachFact
    <3>6. ft[o.prev] = EOC /\ gt[o.prev] # FREE /\ ft[o.prev] # FREE
      BY <1>1, <3>1, <3>2, ChainedFact, Volume
    <3>7. UsedIn(gt) = UsedIn(ft) \cup {o.prev} /\ o.prev \in UsedIn(ft)
      BY ONLY <1>1, <3>2, <3>6, UsedWith
    <3> QED BY <3>5, <3>7
  <2>2. CASE o.cp # 1
    <3>1. gt = ft
      BY <1>1, <2>2, WithEntryFact
    <3>2. Chained(ft, dk, o.first, o.i + 1) /\ ChainOf(ft, o.first)[o.i + 1] = o.cur /\ o.i \in Nat
      BY <1>1, <2>2, IRange DEF LinkOk, Building
    <3>3. o.cur \in Reach(ft, o.first)
      BY <3>2, ReachFact
    <3> QED BY <3>1, <3>3
  <2> QED BY <2>1, <2>2
<1>3. mounted => TakenIn(gt, L) = LiveOf(gt, dk) \cup Reach(gt, o.first) /\ L \subseteq UsedIn(gt)
  <2>1. mounted => TakenIn(ft, L) = LiveOf(ft, dk) \cup (Reach(ft, o.first) \cup {o.cur}) /\ L \subseteq UsedIn(ft)
    BY <1>1 DEF Kept, KeptIs, Held
  <2> QED BY <1>1, <1>2, <2>1 DEF TakenIn
<1>4. CASE o.cp # NumFats
  <2>1. p.pc = "link" /\ p.first = o.first /\ p.cur = o.cur
    BY <1>1, <1>4 DEF Wired
  <2>2. Held(gt, p) = Reach(gt, o.first) \cup {o.cur}
    BY <2>1 DEF Held
  <2> QED BY <1>0, <1>1, <1>2, <1>3, <2>1, <2>2 DEF Kept, KeptIs
<1>5. CASE o.cp = NumFats
  <2>1. p.pc = "data" /\ p.first = o.first
    BY <1>1, <1>5 DEF Wired
  <2>2. Held(gt, p) = Reach(gt, o.first)
    BY <2>1 DEF Held
  <2> QED BY <1>0, <1>1, <1>3, <2>1, <2>2 DEF Kept, KeptIs
<1> QED BY <1>4, <1>5

LEMMA KeptSeal == ASSUME ~ReadErrors, ~WriteErrors, IInv, Kept, Seal PROVE Kept'
<1> PICK L : L = left.lost
  OBVIOUS
<1>0. left'.lost = L
  BY LeftKept
<1> PICK o : o = op
  OBVIOUS
<1> PICK p : p = op'
  OBVIOUS
<1> PICK ft : ft = fat[1]
  OBVIOUS
<1> PICK gt : gt = fat'[1]
  OBVIOUS
<1> PICK dk : dk = disk
  OBVIOUS
<1>1. /\ o \in OpsOf(o.before) /\ SealOk(ft, dk, o) /\ disk' = dk /\ mounted' = mounted
      /\ o.prev \in Clusters /\ ft[o.prev] = EOC
      /\ fat' = WithEntry(fat, o.cp, o.prev, EOC) /\ Wired(o, p, "entry", o.prev)
  BY SealHow
<1>2. fat \in [Copies -> Tables] /\ o.cp \in Copies /\ o.pc = "seal"
  BY <1>1, CpRange DEF IInv, Typed, Seal
<1>3. gt = ft
  <2>1. gt \in Tables /\ ft \in Tables /\ \A c \in Clusters : gt[c] = ft[c]
    <3>1. EOC \in {FREE, EOC} \cup Clusters
      OBVIOUS
    <3>2. /\ gt \in Tables /\ ft \in Tables
          /\ o.cp = 1 => gt[o.prev] = EOC /\ \A k \in Clusters : k # o.prev => gt[k] = ft[k]
          /\ o.cp # 1 => gt = ft
      BY <1>1, <1>2, <3>1, WithEntryFact
    <3> QED BY <1>1, <3>2
  <2>2. gt \in [Clusters -> {FREE, EOC} \cup Clusters] /\ ft \in [Clusters -> {FREE, EOC} \cup Clusters]
    BY <2>1 DEF Tables
  <2> QED BY ONLY <2>1, <2>2
<1>4. /\ p.pc = "seal" \/ (p.pc = "entry" /\ p.kind \in {"write", "mkdir"})
      /\ p.first = o.first
  BY <1>1, <1>2 DEF Wired, SameCall, SealOk
<1>5. Held(gt, p) = Reach(ft, o.first) /\ Held(ft, o) = Reach(ft, o.first)
  BY <1>2, <1>3, <1>4 DEF Held
<1> QED BY <1>0, <1>1, <1>2, <1>3, <1>4, <1>5 DEF Kept, KeptIs

LEMMA KeptFree == ASSUME ~ReadErrors, ~WriteErrors, IInv, Kept, ReleaseStep PROVE Kept'
<1> PICK L : L = left.lost
  OBVIOUS
<1>0. left'.lost = L
  BY LeftKept
<1> PICK o : o = op
  OBVIOUS
<1> PICK p : p = op'
  OBVIOUS
<1> PICK ft : ft = fat[1]
  OBVIOUS
<1> PICK gt : gt = fat'[1]
  OBVIOUS
<1> PICK dk : dk = disk
  OBVIOUS
<1>1. PICK next \in Nat : Freed(o, p, next) /\ (o.cp > 1 => next = o.cur) /\ (o.cp = 1 => next = ft[o.rel])
  BY FreeHow
<1>2. /\ o \in OpsOf(o.before) /\ Sound(ft, dk) /\ disk' = dk /\ mounted' = mounted
      /\ fat' = WithEntry(fat, o.cp, o.rel, FREE) /\ o.rel \in Clusters \ LiveOf(ft, dk)
  BY FreeHow
<1>3. /\ fat \in [Copies -> Tables] /\ o.pc = "release" /\ ft \in Tables
      /\ LiveOf(gt, dk) = LiveOf(ft, dk) /\ o.cp \in Copies /\ o.cp \in Nat /\ o.cp >= 1
  <2>1. fat \in [Copies -> Tables] /\ o.pc = "release"
    BY DEF ReleaseStep, IInv, Typed
  <2>2. LiveOf(gt, dk) = LiveOf(ft, dk)
    BY <1>2, FreeStep DEF QuietStep, Quiet
  <2> QED BY <1>2, <2>1, <2>2, CpRange DEF Sound
<1>4. CASE mounted
  <2>1. /\ TakenIn(ft, L) = LiveOf(ft, dk) \cup Reach(ft, Freeing(o)) /\ L \subseteq UsedIn(ft) /\ o.then # "failed"
        /\ Freeing(o) \in Clusters => \E n : Chained(ft, dk, Freeing(o), n)
    BY <1>3, <1>4 DEF Kept, KeptIs, Held
  <2>2. /\ TakenIn(gt, L) = LiveOf(gt, dk) \cup Reach(gt, next) /\ L \subseteq UsedIn(gt)
        /\ next \in Clusters => \E n : Chained(gt, dk, next, n)
    <3>1. CASE o.cp = 1
      <4>1. PICK n : Chained(ft, dk, o.rel, n)
        BY <1>2, <2>1, <3>1 DEF Freeing
      <4>2. n # 0
        BY <1>2, <4>1, ChainedFact, Volume
      <4>3. gt[o.rel] = FREE /\ \A k \in Clusters : k # o.rel => gt[k] = ft[k]
        BY <1>2, <1>3, <3>1, WithEntryFact
      <4>4. next = ft[o.rel]
        BY <1>1, <3>1
      <4>5. /\ next \in Clusters => \E m : Chained(gt, dk, next, m)
            /\ Reach(gt, next) = Reach(ft, o.rel) \ {o.rel}
        BY ONLY <1>3, <4>1, <4>2, <4>3, <4>4, TailFact
      <4>7. Freeing(o) = o.rel
        BY <3>1 DEF Freeing
      <4>6. TakenIn(gt, L) = TakenIn(ft, L) \ {o.rel} /\ L \subseteq UsedIn(gt)
        <5>1. o.rel \in Clusters
          BY <1>2
        <5>2. o.rel \in Reach(ft, o.rel)
          <6>1. n > 0 /\ n \in Nat
            BY <4>1, <4>2, ChainedFact
          <6>2. 1 \in 1..n /\ ChainOf(ft, o.rel)[1] = o.rel
            BY <6>1, ChainStep, Volume
          <6> QED BY <4>1, <6>2, ReachFact
        <5>3. o.rel \notin L
          BY <2>1, <4>7, <5>2 DEF TakenIn
        <5> QED BY ONLY <2>1, <5>1, <5>3, <4>3, TakenWith
      <4> QED BY <1>2, <1>3, <2>1, <4>5, <4>6, <4>7
    <3>2. CASE o.cp # 1
      <4>1. gt = ft
        BY <1>2, <1>3, <3>2, WithEntryFact
      <4>2. Freeing(o) = o.cur /\ next = o.cur
        BY <1>1, <1>3, <3>2 DEF Freeing
      <4> QED BY <2>1, <4>1, <4>2
    <3> QED BY <3>1, <3>2
  <2>3. CASE o.cp # NumFats
    <3>1. p.pc = "release" /\ p.cp = o.cp + 1 /\ p.cp # 1 /\ p.cur = next /\ p.then = o.then
      BY <1>1, <1>3, <2>3 DEF Freed
    <3>2. Freeing(p) = next /\ Held(gt, p) = Reach(gt, next)
      BY <3>1 DEF Freeing, Held
    <3> QED BY <1>0, <1>2, <2>1, <2>2, <3>1, <3>2 DEF Kept, KeptIs
  <2>4. CASE o.cp = NumFats /\ next \in Clusters
    <3>1. p.pc = "release" /\ p.cp = 1 /\ p.rel = next /\ p.then = o.then
      BY <1>1, <2>4 DEF Freed
    <3>2. Freeing(p) = next /\ Held(gt, p) = Reach(gt, next)
      BY <3>1 DEF Freeing, Held
    <3> QED BY <1>0, <1>2, <2>1, <2>2, <3>1, <3>2 DEF Kept, KeptIs
  <2>5. CASE o.cp = NumFats /\ next \notin Clusters
    <3>1. p.pc = "done"
      BY <1>1, <2>1, <2>5 DEF Freed, Through
    <3>2. Held(gt, p) = {} /\ Reach(gt, next) = {}
      BY <2>5, <3>1, ReachNone DEF Held
    <3> QED BY <1>0, <1>2, <2>2, <3>1, <3>2 DEF Kept, KeptIs
  <2> QED BY <2>3, <2>4, <2>5
<1> QED BY <1>0, <1>2, <1>4 DEF Kept, KeptIs

LEMMA KeptData == ASSUME ~WriteErrors, IInv, Kept, WriteData PROVE Kept'
<1> PICK L : L = left.lost
  OBVIOUS
<1>0. left'.lost = L
  BY LeftKept
<1> PICK o : o = op
  OBVIOUS
<1> PICK p : p = op'
  OBVIOUS
<1>1. /\ fat' = fat /\ mounted' = mounted /\ o.pc = "data" /\ DataOk(fat[1], disk, o)
      /\ LiveOf(fat[1], disk') = LiveOf(fat[1], disk)
  BY DataHow, DataStep DEF WriteData, QuietStep, Quiet
<1>2. /\ Keeps(o, p) /\ p.cp = 1 /\ p.first = o.first /\ p.pc \in {"entry", "alloc", "seal"}
      /\ p.pc = "entry" => o.kind \in {"write", "mkdir"}
  <2>1. o.kind \in {"write", "mkdir"}
    BY <1>1 DEF DataOk, Building
  <2> QED BY <2>1, DataHow
<1>3. Held(fat[1], p) = Reach(fat[1], o.first) /\ Held(fat[1], o) = Reach(fat[1], o.first)
  <2>1. p.pc = "entry" => p.kind \in {"write", "mkdir"}
    BY <1>2 DEF Keeps
  <2> QED BY <1>1, <1>2, <2>1 DEF Held
<1> QED BY <1>0, <1>1, <1>2, <1>3 DEF Kept, KeptIs

LEMMA KeptEntry == ASSUME ~ReadErrors, ~WriteErrors, IInv, Kept, WriteEntry PROVE Kept'
<1> PICK L : L = left.lost
  OBVIOUS
<1>0. left'.lost = L
  BY LeftKept
<1> PICK o : o = op
  OBVIOUS
<1> PICK p : p = op'
  OBVIOUS
<1> PICK ft : ft = fat[1]
  OBVIOUS
<1> PICK dk : dk = disk
  OBVIOUS
<1> PICK ek : ek = disk'
  OBVIOUS
<1> PICK old : old = dk[o.dir][o.slot]
  OBVIOUS
<1> PICK e : e = EntryOf(o)
  OBVIOUS
<1>1. /\ o \in OpsOf(o.before) /\ EntryOk(ft, dk, o) /\ Sound(ft, dk) /\ fat' = fat /\ mounted' = mounted /\ o.pc = "entry"
      /\ o.kind \in {"write", "delete", "mkdir", "rmdir"} /\ ek = Put(dk, o.dir, o.slot, e)
      /\ ft \in Tables /\ dk \in Disks
      /\ \/ p.pc = "release" /\ p.rel = o.old /\ p.then = "ok" /\ o.old \in Clusters /\ p.cp = 1
         \/ p.pc = "done" /\ o.old \notin Clusters
  <2>1. /\ o \in OpsOf(o.before) /\ EntryOk(ft, dk, o) /\ Sound(ft, dk) /\ o.kind \in {"write", "delete", "mkdir", "rmdir"}
    BY EntryHow
  <2> QED BY <2>1, EntryEnds DEF WriteEntry, Sound
<1>2. LiveOf(ft, ek) = (LiveOf(ft, dk) \ CellsOf(ft, old)) \cup CellsOf(ft, e)
  BY <1>1, EntryPut
<1>3. /\ old.kind # "none" => At(dk, o.dir, o.slot) /\ o.old = old.first
      /\ old.kind = "none" => o.old = 0
      /\ e.kind = "none" <=> o.kind \in {"delete", "rmdir"}
      /\ e.kind # "none" => /\ e.first = o.first /\ Cells(ft, e) \cap LiveOf(ft, dk) = {}
                            /\ Chained(ft, dk, o.first, Length(e))
  BY <1>1, EntryShape
<1>4. Held(ft, o) = CellsOf(ft, e) /\ CellsOf(ft, e) \cap LiveOf(ft, dk) = {}
  <2>1. CASE e.kind = "none"
    BY <1>1, <1>3, <2>1 DEF Held, CellsOf
  <2>2. CASE e.kind # "none"
    <3>1. Held(ft, o) = Reach(ft, o.first)
      BY <1>1, <1>3, <2>2 DEF Held
    <3>2. Reach(ft, o.first) = Cells(ft, e)
      BY <1>3, <2>2, ReachFact DEF Cells
    <3> QED BY <1>3, <2>2, <3>1, <3>2 DEF CellsOf
  <2> QED BY <2>1, <2>2
<1>5. CellsOf(ft, old) \subseteq LiveOf(ft, dk)
  BY <1>1, <1>3, CellsLive DEF CellsOf
<1>6. mounted => TakenIn(ft, L) = LiveOf(ft, ek) \cup CellsOf(ft, old) /\ L \subseteq UsedIn(ft)
  <2>1. mounted => TakenIn(ft, L) = LiveOf(ft, dk) \cup CellsOf(ft, e) /\ L \subseteq UsedIn(ft)
    BY <1>1, <1>4 DEF Kept, KeptIs
  <2> QED BY <1>2, <1>5, <2>1
<1>7. CASE p.pc = "release" /\ p.rel = o.old /\ p.then = "ok" /\ o.old \in Clusters /\ p.cp = 1
  <2>1. old.kind # "none" /\ At(dk, o.dir, o.slot) /\ o.old = old.first
    BY <1>3, <1>7, Volume
  <2>2. Whole(ft, dk, old) /\ Length(old) \in Nat
    BY <1>1, <2>1, LengthFact DEF Sound
  <2>3. Length(old) # 0 /\ Run(ft, o.old, Length(old))
    BY <1>7, <2>1, <2>2, Volume DEF Whole
  <2>4. \A k \in 1..Length(old) : ChainOf(ft, o.old)[k] \notin LiveOf(ft, ek)
    <3>1. \A k \in 1..Length(old) : ChainOf(ft, o.old)[k] \in CellsOf(ft, old)
      BY <2>1 DEF CellsOf, Cells
    <3> QED BY <1>2, <1>4, <1>5, <3>1
  <2>5. Chained(ft, ek, o.old, Length(old))
    BY <2>2, <2>3, <2>4 DEF Chained
  <2>6. Reach(ft, o.old) = CellsOf(ft, old)
    BY <2>1, <2>5, ReachFact DEF CellsOf, Cells
  <2>7. Freeing(p) = o.old /\ Held(ft, p) = Reach(ft, o.old)
    BY <1>7 DEF Freeing, Held
  <2> QED BY <1>0, <1>1, <1>6, <1>7, <2>5, <2>6, <2>7 DEF Kept, KeptIs
<1>8. CASE p.pc = "done" /\ o.old \notin Clusters
  <2>1. CellsOf(ft, old) = {}
    <3>1. CASE old.kind = "none"
      BY <3>1 DEF CellsOf
    <3>2. CASE old.kind # "none"
      <4>1. Whole(ft, dk, old) /\ Length(old) \in Nat /\ o.old = old.first
        BY <1>1, <1>3, <3>2, LengthFact DEF Sound
      <4>2. Length(old) = 0
        BY <1>8, <4>1, RunStep DEF Whole
      <4>3. 1..Length(old) = {}
        BY <4>2
      <4> QED BY <3>2, <4>3 DEF CellsOf, Cells
    <3> QED BY <3>1, <3>2
  <2>2. Held(ft, p) = {}
    BY <1>8 DEF Held
  <2> QED BY <1>0, <1>1, <1>6, <1>8, <2>1, <2>2 DEF Kept, KeptIs
<1> QED BY <1>1, <1>7, <1>8

LEMMA PokeLive == ASSUME IInv, Poke PROVE LiveOf(fat[1], disk') = LiveOf(fat[1], disk)
<1>1. op \in OpsOf(op.before) /\ PokeOk(fat[1], disk, op) /\ Sound(fat[1], disk)
  BY DEF IInv, Typed, CallOk, Poke
<1>2. /\ op.cur \in LiveOf(fat[1], disk) /\ disk[op.cur] \in Payloads /\ op.data[op.i + 1] \in Payloads
  BY <1>1, PokePlace
<1>3. CASE disk' = With(disk, op.cur, op.data[op.i + 1])
  BY <1>1, <1>2, <1>3, PokePut
<1> QED BY <1>3, PokeFolders

LEMMA KeptFinish == ASSUME IInv, Mirror, Kept, FinishRepair PROVE Kept'
<1>1. /\ fat' = fat /\ disk' = disk /\ op' = Done(op, 1) /\ MendedSo(fat, op) /\ op.pc = "fsinfo"
      /\ op.live = LiveOf(fat[1], disk) /\ Sound(fat[1], disk) /\ op \in OpsOf(op.before)
  BY DEF IInv, Typed, CallOk, FinishRepair, Mirror, MirrorIs
<1>2. op'.pc = "done"
  <2>1. 1 \in 0..(MaxLen + 1)
    BY Volume
  <2> QED BY <1>1, <2>1, DoneFact
<1>3. \A c \in Clusters : fat[1][c] # FREE <=> c \in LiveOf(fat[1], disk)
  <2>1. \A c \in Clusters : fat[1][c] = IF c \in op.live THEN fat[1][c] ELSE FREE
    BY <1>1, Volume DEF MendedSo
  <2> QED BY <1>1, <2>1 DEF Sound
<1>4. UsedIn(fat[1]) = LiveOf(fat[1], disk)
  BY <1>3, LiveUp DEF UsedIn
<1>6. left' = left /\ mounted' = mounted /\ (mounted => left.lost = {})
  BY <1>1, LeftKept DEF FinishRepair, Kept, KeptIs
<1>7. TakenIn(fat[1], {}) = LiveOf(fat[1], disk)
  BY <1>4 DEF TakenIn
<1>5. Held(fat[1], op') = {}
  BY <1>2 DEF Held
<1> QED BY <1>1, <1>2, <1>5, <1>6, <1>7 DEF Kept, KeptIs

LEMMA KeptStep ==
  ASSUME ~ReadErrors, ~WriteErrors PROVE IInv /\ Mirror /\ Kept /\ [Next]_vars => Kept'
<1> SUFFICES ASSUME IInv, Mirror, Kept, [Next]_vars PROVE Kept'
  OBVIOUS
<1>1. CASE UNCHANGED <<fat, disk, mounted, op, left>>
  BY <1>1 DEF Kept
<1>2. CASE UNCHANGED vars \/ MarkUnknown \/ Refused
  BY <1>1, <1>2, LeftKept DEF vars, MarkUnknown, Refused, diskVars
<1>3. CASE op'.pc \in {"row", "fsinfo"} /\ (mounted' => left'.lost = {})
  BY <1>3 DEF Kept, KeptIs
<1>4. CASE RepairRow
  <2> PICK o : o = op
    OBVIOUS
  <2>1. /\ o \in OpsOf(o.before) /\ o.pc = "row" /\ mounted' = mounted
        /\ op' = NextRow \/ (o.cp # NumFats /\ op' = Onward(o, o.cp + 1))
    BY <1>4, RepairHow
  <2>4. mounted' => left'.lost = {}
    BY <1>4, <2>1, LeftKept DEF Kept, KeptIs
  <2>2. CASE op' = NextRow
    BY <1>3, <2>1, <2>2, <2>4, NextRowFact
  <2>3. CASE o.cp # NumFats /\ op' = Onward(o, o.cp + 1)
    <3>1. o.cp + 1 \in Copies
      BY <2>1, <2>3, CpRange
    <3>2. op'.pc = "row"
      BY <2>1, <2>3, <3>1, OnwardFact
    <3> QED BY <1>3, <2>4, <3>2
  <2> QED BY <2>1, <2>2, <2>3
<1>5. CASE Poke
  <2>1. op.pc = "poke" /\ fat' = fat /\ mounted' = mounted /\ op'.pc \in {"poke", "done"}
    BY <1>5, PokeHow DEF Poke
  <2>2. Held(fat[1], op) = {} /\ Held(fat[1], op') = {}
    BY <2>1 DEF Held
  <2> QED BY <1>5, <2>1, <2>2, PokeLive, LeftKept DEF Kept, KeptIs
<1>6. CASE Return
  <2>1. op.pc = "done" /\ UNCHANGED <<fat, disk, mounted, left>> /\ op'.pc = "idle"
    BY <1>6, NoOpFact, LeftKept DEF Return, diskVars, memVars
  <2>2. Held(fat[1], op) = {} /\ Held(fat[1], op') = {}
    BY <2>1 DEF Held
  <2> QED BY <2>1, <2>2 DEF Kept, KeptIs
<1>7. CASE Start
  <2>1. UNCHANGED <<fat, disk, mounted, left>> /\ op.pc = "idle"
    BY <1>7, StartHow, LeftKept
  <2>2. CASE Begun
    <3>1. op'.pc \in {"alloc", "entry", "poke", "done"} /\ op'.cp = 1 /\ op'.first = 0
      BY <2>2 DEF Begun
    <3>2. Reach(fat[1], op'.first) = {}
      BY <3>1, ReachNone, Volume
    <3>3. Held(fat[1], op) = {} /\ Held(fat[1], op') = {}
      BY <2>1, <3>1, <3>2 DEF Held
    <3> QED BY <2>1, <3>1, <3>3 DEF Kept, KeptIs
  <2> QED BY <1>1, <1>7, <2>1, <2>2, StartHow
<1>8. CASE Mount
  <2>1. fat' = fat /\ disk' = disk
    BY <1>8, MountHow
  <2>2. CASE op'.pc = "row" /\ left' = NothingLeft
    BY <1>3, <2>2 DEF NothingLeft
  <2>3. CASE op'.pc = "done" /\ left' = Leftover
    <3>1. left'.lost = UsedIn(fat[1]) \ LiveOf(fat[1], disk)
      BY <2>3, ReachIs DEF Leftover, Used, UsedIn
    <3>2. LiveOf(fat[1], disk) \subseteq UsedIn(fat[1])
      BY LiveUp DEF IInv, Sound, UsedIn
    <3>3. Held(fat[1], op') = {}
      BY <2>3 DEF Held
    <3>4. left'.lost \subseteq UsedIn(fat[1]) /\ TakenIn(fat[1], left'.lost) = LiveOf(fat[1], disk) \cup {}
      BY <3>1, <3>2 DEF TakenIn
    <3> QED BY <2>1, <2>3, <3>3, <3>4 DEF Kept, KeptIs
  <2> QED BY <1>8, <2>2, <2>3, MountHow
<1>9. CASE PowerCut
  BY <1>9 DEF PowerCut, Kept, KeptIs
<1> QED BY <1>2, <1>4, <1>5, <1>6, <1>7, <1>8, <1>9, KeptAlloc, KeptLink, KeptSeal, KeptFree, KeptData, KeptEntry,
           KeptFinish DEF Next, Step

(* With a disk that works, no cluster is lost: outside a call what the FAT *)
(* marks used is what a caller can reach, after a full disk and after the  *)
(* mount that follows a power cut too, but for what that mount's           *)
(* fat_recover found lost when it gave up; and no call ever reaches that.  *)
THEOREM NothingIsLost == ASSUME ~ReadErrors, ~WriteErrors PROVE Spec => []NothingLost
<1>1. Init => Kept
  BY DEF Init, Kept, KeptIs
<1>2. Kept => NothingLost
  <2> SUFFICES ASSUME Kept, Idle PROVE Used = Live \cup left.lost /\ Live \cap left.lost = {}
    BY DEF NothingLost
  <2>1. Held(fat[1], op) = {}
    BY DEF Held, Idle
  <2>2. left.lost \subseteq UsedIn(fat[1]) /\ TakenIn(fat[1], left.lost) = LiveOf(fat[1], disk)
    BY <2>1 DEF Kept, KeptIs, Idle
  <2> QED BY <2>2, ReachIs DEF Used, UsedIn, TakenIn
<1> QED BY <1>1, <1>2, KeptStep, MirrorInit, MirrorStep, Invariant, PTL DEF Spec
-----------------------------------------------------------------------------
(* What a call answers.                                                    *)

(* NodeAt of a given FAT and disk.                                         *)
ContentOf(ft, dk, e) ==
  LET have == {k \in 1..e.size : \A j \in 1..k : ChainOf(ft, e.first)[j] \in Clusters}
  IN  [k \in have |-> dk[ChainOf(ft, e.first)[k]]]
View(ft, dk, e) ==
  IF e.kind = "dir" THEN [kind |-> "dir", id |-> e.first]
  ELSE [kind |-> "file", content |-> ContentOf(ft, dk, e)]
Hits(dk, d, n) == {t \in Slots : dk[d][t].kind # "none" /\ dk[d][t].name = n}
FirstHit(dk, d, n) == Min(Hits(dk, d, n))
NodeOf(ft, dk, d, n) ==
  IF Hits(dk, d, n) = {} THEN [kind |-> "none"] ELSE View(ft, dk, dk[d][FirstHit(dk, d, n)])

(* The first match is one of the matches.                                  *)
LEMMA FirstHitFact ==
  ASSUME NEW dk, NEW d, NEW n, Hits(dk, d, n) # {}
  PROVE  /\ FirstHit(dk, d, n) \in Hits(dk, d, n)
         /\ \A u \in Hits(dk, d, n) : FirstHit(dk, d, n) <= u
<1>1. Hits(dk, d, n) \subseteq Nat
  BY Volume DEF Hits
<1> QED BY <1>1, MinFact DEF FirstHit

LEMMA NodeIs == ASSUME NEW d, NEW n PROVE NodeAt(d, n) = NodeOf(fat[1], disk, d, n)
<1> PICK s : s = SlotOf(d, n)
  OBVIOUS
<1>1. \A e : Content(e) = ContentOf(fat[1], disk, e)
  BY ChainIs DEF Content, ContentOf
<1>2. CASE s = 0
  <2>1. Hits(disk, d, n) = {}
    <3>1. \A t \in Slots : ~(disk[d][t].kind # "none" /\ disk[d][t].name = n)
      BY ZenonT(60), <1>2, SlotFact
    <3> QED BY ONLY <3>1 DEF Hits
  <2> QED BY <1>2, <2>1 DEF NodeAt, NodeOf
<1>3. CASE s # 0
  <2>1. s \in Hits(disk, d, n) /\ \A u \in Hits(disk, d, n) : s <= u
    BY <1>3, SlotFact DEF Hits
  <2>2. FirstHit(disk, d, n) \in Hits(disk, d, n) /\ \A u \in Hits(disk, d, n) : FirstHit(disk, d, n) <= u
    BY <2>1, FirstHitFact
  <2>3. \A u \in Hits(disk, d, n) : u \in Nat
    BY Volume DEF Hits
  <2>4. FirstHit(disk, d, n) = s
    <3>1. FirstHit(disk, d, n) \in Nat /\ s \in Nat /\ FirstHit(disk, d, n) <= s /\ s <= FirstHit(disk, d, n)
      BY <2>1, <2>2, <2>3
    <3> QED BY ONLY <3>1
  <2>5. NodeOf(fat[1], disk, d, n) = View(fat[1], disk, disk[d][s])
    BY <2>1, <2>4 DEF NodeOf
  <2> QED BY <1>1, <1>3, <2>5 DEF NodeAt, View
<1> QED BY <1>2, <1>3

LEMMA HitFact ==
  ASSUME NEW dk, NEW d, NEW n, NEW s \in Hits(dk, d, n), \A t \in Hits(dk, d, n) : t = s, NEW ft
  PROVE  NodeOf(ft, dk, d, n) = View(ft, dk, dk[d][s])
<1>1. FirstHit(dk, d, n) = s /\ Hits(dk, d, n) # {}
  BY FirstHitFact
<1> QED BY <1>1 DEF NodeOf

LEMMA ContentKeep ==
  ASSUME NEW ft, NEW dk, NEW gt, NEW ek, NEW e, e.size \in Nat,
         \A k \in 1..e.size : ChainOf(gt, e.first)[k] = ChainOf(ft, e.first)[k]
                            /\ ek[ChainOf(ft, e.first)[k]] = dk[ChainOf(ft, e.first)[k]]
  PROVE  ContentOf(gt, ek, e) = ContentOf(ft, dk, e)
<1> DEFINE have == {k \in 1..e.size : \A j \in 1..k : ChainOf(ft, e.first)[j] \in Clusters}
           have2 == {k \in 1..e.size : \A j \in 1..k : ChainOf(gt, e.first)[j] \in Clusters}
<1>1. \A k \in 1..e.size : \A j \in 1..k : j \in 1..e.size
  OBVIOUS
<1>2. have = have2
  BY <1>1
<1>3. \A k \in have : ek[ChainOf(gt, e.first)[k]] = dk[ChainOf(ft, e.first)[k]]
  OBVIOUS
<1>4. [k \in have2 |-> ek[ChainOf(gt, e.first)[k]]] = [k \in have |-> dk[ChainOf(ft, e.first)[k]]]
  BY <1>2, <1>3
<1> QED BY <1>4 DEF ContentOf

(* A step that is quiet shows the callers what they saw.                   *)
LEMMA NodeKeep ==
  ASSUME NEW ft, NEW dk, NEW gt, NEW ek, Sound(ft, dk), Quiet(ft, dk, gt, ek), NEW d \in DirsOf(dk), NEW n
  PROVE  /\ NodeOf(gt, ek, d, n) = NodeOf(ft, dk, d, n) /\ d \in DirsOf(ek)
         /\ NodeOf(ft, dk, d, n).kind = "dir" /\ NodeOf(ft, dk, d, n).id \in Clusters =>
              ek[NodeOf(ft, dk, d, n).id] = dk[NodeOf(ft, dk, d, n).id]
<1>1. /\ ek[d] = dk[d] /\ d \in DirsOf(ek) /\ dk[d] \notin Payloads /\ dk \in Disks
      /\ DirsOf(dk) \subseteq Clusters \cup {Root} /\ \A x \in DirsOf(dk) : ek[x] = dk[x]
  BY DirsUp DEF Quiet, Sound
<1>2. CASE Hits(dk, d, n) = {}
  <2>1. Hits(ek, d, n) = {}
    BY <1>1, <1>2 DEF Hits
  <2>2. [kind |-> "none"].kind # "dir"
    OBVIOUS
  <2> QED BY <1>1, <1>2, <2>1, <2>2 DEF NodeOf
<1>3. CASE Hits(dk, d, n) # {}
  <2> PICK s : s = FirstHit(dk, d, n)
    OBVIOUS
  <2> PICK e : e = dk[d][s]
    OBVIOUS
  <2>1. s \in Slots /\ e.kind # "none"
    BY <1>3, FirstHitFact DEF Hits
  <2>2. /\ Hits(ek, d, n) # {} /\ FirstHit(ek, d, n) = s /\ ek[d][s] = e
    <3>1. Hits(ek, d, n) = Hits(dk, d, n)
      BY <1>1 DEF Hits
    <3> QED BY <1>1, <1>3, <3>1 DEF FirstHit
  <2>3. NodeOf(ft, dk, d, n) = View(ft, dk, e) /\ NodeOf(gt, ek, d, n) = View(gt, ek, e)
    BY <1>3, <2>2 DEF NodeOf
  <2>4. At(dk, d, s) /\ e.kind \in {"file", "dir"} /\ e.size \in Nat
    <3>1. dk[d] \in [Slots -> Entries]
      BY <1>1, SectorIs DEF Disks
    <3>2. e \in Entries
      BY <2>1, <3>1
    <3>3. e.kind \in {"none", "file", "dir"}
      BY <3>2 DEF Entries
    <3>4. At(dk, d, s)
      BY <1>1, <2>1, <3>3 DEF At
    <3> QED BY <1>1, <2>1, <3>3, <3>4, LengthFact
  <2>5. CASE e.kind = "dir"
    <3>1. View(ft, dk, e) = [kind |-> "dir", id |-> e.first] /\ View(gt, ek, e) = [kind |-> "dir", id |-> e.first]
      BY <2>5 DEF View
    <3>2. e.first \in Clusters => e.first \in DirsOf(dk)
      BY <1>1, <2>1, <2>5, DirsUp
    <3> QED BY <1>1, <2>3, <3>1, <3>2
  <2>6. CASE e.kind = "file"
    <3>1. Length(e) = e.size
      BY <2>6 DEF Length
    <3>2. \A k \in 1..e.size : ChainOf(gt, e.first)[k] = ChainOf(ft, e.first)[k]
                            /\ ek[ChainOf(ft, e.first)[k]] = dk[ChainOf(ft, e.first)[k]]
      BY <2>4, <3>1 DEF Quiet
    <3>3. ContentOf(gt, ek, e) = ContentOf(ft, dk, e)
      BY ONLY <2>4, <3>2, ContentKeep
    <3>4. /\ View(ft, dk, e) = [kind |-> "file", content |-> ContentOf(ft, dk, e)]
          /\ View(gt, ek, e) = [kind |-> "file", content |-> ContentOf(ft, dk, e)]
      BY <2>6, <3>3 DEF View
    <3>5. View(ft, dk, e).kind # "dir"
      BY <3>4
    <3> QED BY <1>1, <2>3, <3>4, <3>5
  <2> QED BY <2>4, <2>5, <2>6
<1> QED BY <1>2, <1>3

(* What a call that succeeds has made of the name.                         *)
Success(ft, dk, o) ==
  LET now == NodeOf(ft, dk, o.dir, o.name)
  IN  CASE o.kind = "write" -> now = [kind |-> "file", content |-> o.data]
        [] o.kind = "mkdir" -> now.kind = "dir" /\ o.before.kind = "none"
                               /\ now.id \in Clusters /\ dk[now.id] = EmptyDir
        [] OTHER -> now.kind = "none" /\ o.before.kind # "none"
Effected(ft, dk, o) == o.dir \in DirsOf(dk) /\ Success(ft, dk, o)
Unmoved(ft, dk, o) == o.dir \in DirsOf(dk) /\ NodeOf(ft, dk, o.dir, o.name) = o.before

Changing == {"write", "delete", "mkdir", "rmdir"}
HonestIs(ft, dk, o) ==
  /\ o.pc \in {"row", "fsinfo"} => o.kind = "mount"
  /\ o.pc \in {"alloc", "link", "data", "seal", "entry"} => Unmoved(ft, dk, o)
  /\ o.pc = "release" => IF o.then = "ok" THEN Effected(ft, dk, o) ELSE Unmoved(ft, dk, o)
  /\ o.pc = "done" /\ o.kind \in Changing => IF o.ret # 0 THEN Effected(ft, dk, o) ELSE Unmoved(ft, dk, o)

Honest == HonestIs(fat[1], disk, op)

LEMMA HonestKeep ==
  ASSUME NEW ft, NEW dk, NEW gt, NEW ek, Sound(ft, dk), Quiet(ft, dk, gt, ek), NEW o, NEW p, Keeps(o, p)
  PROVE  /\ Unmoved(ft, dk, o) => Unmoved(gt, ek, p)
         /\ Effected(ft, dk, o) => Effected(gt, ek, p)
<1> SUFFICES ASSUME o.dir \in DirsOf(dk)
             PROVE  /\ Unmoved(ft, dk, o) => Unmoved(gt, ek, p)
                    /\ Effected(ft, dk, o) => Effected(gt, ek, p)
  BY DEF Unmoved, Effected
<1> PICK v : v = NodeOf(ft, dk, o.dir, o.name)
  OBVIOUS
<1>1. /\ o.dir \in DirsOf(ek) /\ NodeOf(gt, ek, p.dir, p.name) = v /\ p.dir = o.dir
      /\ v.kind = "dir" /\ v.id \in Clusters => ek[v.id] = dk[v.id]
  BY NodeKeep DEF Keeps
<1>2. p.kind = o.kind /\ p.data = o.data /\ p.before = o.before
  BY DEF Keeps
<1>3. ASSUME Success(ft, dk, o) PROVE Success(gt, ek, p)
  <2>1. CASE o.kind = "write"
    BY <1>1, <1>2, <1>3, <2>1 DEF Success
  <2>2. CASE o.kind = "mkdir"
    BY <1>1, <1>2, <1>3, <2>2 DEF Success
  <2>3. CASE o.kind # "write" /\ o.kind # "mkdir"
    BY <1>1, <1>2, <1>3, <2>3 DEF Success
  <2> QED BY <2>1, <2>2, <2>3
<1> QED BY <1>1, <1>2, <1>3 DEF Unmoved, Effected

LEMMA HonestBusy ==
  ASSUME IInv, Honest, QuietStep, Keeps(op, op'), op.pc \in {"alloc", "link", "data", "seal", "entry"},
         op'.pc \in {"alloc", "link", "data", "seal", "entry", "release", "done"},
         op'.pc = "release" => op'.then # "ok", op'.pc = "done" => op'.ret = 0
  PROVE  Honest'
<1> PICK o : o = op
  OBVIOUS
<1> PICK p : p = op'
  OBVIOUS
<1>1. Unmoved(fat[1], disk, o) /\ Sound(fat[1], disk) /\ Quiet(fat[1], disk, fat'[1], disk') /\ Keeps(o, p)
  BY DEF Honest, HonestIs, IInv, QuietStep
<1>2. Unmoved(fat'[1], disk', p)
  BY <1>1, HonestKeep
<1> QED BY <1>2 DEF Honest, HonestIs

LEMMA EndedHow ==
  ASSUME NEW o, NEW p, Ended(o, p)
  PROVE  /\ Keeps(o, p) /\ p.pc \in {"release", "done"}
         /\ p.pc = "release" => p.then # "ok" /\ p.then = "fail"
         /\ p.pc = "done" => p.ret = 0
BY DEF Ended

LEMMA HonestAlloc == ASSUME IInv, Honest, Alloc PROVE Honest'
<1>1. op.pc = "alloc" /\ QuietStep
  BY AllocStep DEF Alloc
<1>2. CASE Ended(op, op')
  BY <1>1, <1>2, EndedHow, HonestBusy
<1>3. CASE \E c \in Clusters : Took(op, op', c)
  <2>1. op'.pc \in {"alloc", "data", "link"} /\ Keeps(op, op')
    BY <1>3, KeepsFact DEF Took
  <2>2. op'.pc # "release" /\ op'.pc # "done"
    BY <2>1
  <2> QED BY <1>1, <2>1, <2>2, HonestBusy
<1> QED BY <1>2, <1>3, AllocHow

LEMMA HonestWired ==
  ASSUME IInv, Honest, QuietStep, op.pc \in {"link", "seal"}, NEW pc \in {"data", "entry"}, NEW prev, Wired(op, op', pc, prev)
  PROVE  Honest'
<1>1. Keeps(op, op') /\ op'.pc \in {op.pc, pc}
  BY KeepsFact DEF Wired
<1>2. op'.pc # "release" /\ op'.pc # "done"
  BY <1>1
<1> QED BY <1>1, <1>2, HonestBusy

LEMMA HonestLink == ASSUME IInv, Honest, Link PROVE Honest'
<1>1. op.pc = "link" /\ QuietStep
  BY LinkStep DEF Link
<1>2. CASE Keeps(op, op') /\ op'.pc = "release" /\ op'.then = "failed"
  <2>1. op'.pc # "done" /\ op'.then # "ok"
    BY <1>2
  <2> QED BY <1>1, <1>2, <2>1, HonestBusy
<1>3. CASE Wired(op, op', "data", op.cur)
  BY <1>1, <1>3, HonestWired
<1> QED BY <1>2, <1>3, LinkHow

LEMMA HonestSeal == ASSUME IInv, Honest, Seal PROVE Honest'
<1>1. op.pc = "seal" /\ QuietStep
  BY SealStep DEF Seal
<1>2. CASE Ended(op, op')
  BY <1>1, <1>2, EndedHow, HonestBusy
<1>3. CASE Wired(op, op', "entry", op.prev)
  BY <1>1, <1>3, HonestWired
<1> QED BY <1>2, <1>3, SealHow

LEMMA HonestData == ASSUME IInv, Honest, WriteData PROVE Honest'
<1>1. op.pc = "data" /\ QuietStep
  BY DataStep DEF WriteData
<1>2. CASE Ended(op, op')
  BY <1>1, <1>2, EndedHow, HonestBusy
<1>3. CASE Keeps(op, op') /\ op'.pc \in {"entry", "alloc", "seal"}
  <2>1. op'.pc # "release" /\ op'.pc # "done"
    BY <1>3
  <2> QED BY <1>1, <1>3, <2>1, HonestBusy
<1> QED BY <1>2, <1>3, DataHow

LEMMA HonestFree == ASSUME IInv, Honest, ReleaseStep PROVE Honest'
<1> PICK o : o = op
  OBVIOUS
<1> PICK p : p = op'
  OBVIOUS
<1>1. /\ Sound(fat[1], disk) /\ Quiet(fat[1], disk, fat'[1], disk') /\ o.pc = "release"
      /\ IF o.then = "ok" THEN Effected(fat[1], disk, o) ELSE Unmoved(fat[1], disk, o)
  BY FreeStep DEF ReleaseStep, Honest, HonestIs, IInv, QuietStep
<1>2. Through(o, p) \/ (Keeps(o, p) /\ p.pc = "release" /\ p.then = o.then)
  <2>1. Through(o, p) \/ \E next \in Nat : Freed(o, p, next)
    BY FreeHow
  <2> QED BY <2>1 DEF Freed
<1>3. Keeps(o, p)
  BY <1>2 DEF Through
<1>4. IF o.then = "ok" THEN Effected(fat'[1], disk', p) ELSE Unmoved(fat'[1], disk', p)
  BY <1>1, <1>3, HonestKeep
<1>5. CASE p.pc = "release" /\ p.then = o.then
  BY <1>4, <1>5 DEF Honest, HonestIs
<1>6. CASE p.pc = "release" /\ p.then = "fail" /\ o.then = "failed"
  BY <1>4, <1>6 DEF Honest, HonestIs
<1>7. CASE p.pc = "done" /\ p.ret = (IF o.then = "ok" THEN 1 ELSE 0)
  BY <1>4, <1>7 DEF Honest, HonestIs
<1> QED BY <1>2, <1>5, <1>6, <1>7 DEF Through

LEMMA ContentMade ==
  ASSUME NEW ft, NEW dk, NEW e, NEW data, data \in Contents, e.size = Len(data),
         \A k \in 1..Len(data) : ChainOf(ft, e.first)[k] \in Clusters /\ dk[ChainOf(ft, e.first)[k]] = data[k]
  PROVE  ContentOf(ft, dk, e) = data
<1>1. PICK n \in 0..MaxLen : data \in [1..n -> Payloads]
  BY DEF Contents
<1>2. n \in Nat /\ Len(data) = n /\ DOMAIN data = 1..n
  BY <1>1, Volume
<1> DEFINE have == {k \in 1..e.size : \A j \in 1..k : ChainOf(ft, e.first)[j] \in Clusters}
<1>3. have = 1..n
  <2>1. \A k \in 1..n : \A j \in 1..k : j \in 1..n
    BY <1>2
  <2> QED BY <1>2, <2>1
<1>4. [k \in have |-> dk[ChainOf(ft, e.first)[k]]] = data
  BY <1>1, <1>2, <1>3
<1> QED BY <1>4 DEF ContentOf

LEMMA EntryMakes ==
  ASSUME ~ReadErrors, NEW ft, NEW dk, Sound(ft, dk), NEW o, o \in OpsOf(o.before), EntryOk(ft, dk, o), NamesOnce(dk),
         o.kind \in Changing, NEW e, e = EntryOf(o), NEW ek, ek = Put(dk, o.dir, o.slot, e), Unmoved(ft, dk, o)
  PROVE  Effected(ft, ek, o)
<1> PICK old : old = dk[o.dir][o.slot]
  OBVIOUS
<1> PICK d : d = o.dir
  OBVIOUS
<1> PICK n : n = o.name
  OBVIOUS
<1> PICK s : s = o.slot
  OBVIOUS
<1>1. /\ old \in Entries /\ dk[d] \notin Payloads /\ d \in DirsOf(dk) /\ d \in Clusters \cup {Root} /\ s \in Slots
      /\ old.kind # "none" => At(dk, d, s) /\ old.name = n
      /\ old.kind = "none" => NewName(dk, d, n)
      /\ o.kind = "mkdir" => old.kind = "none"
      /\ e.kind = "none" <=> o.kind \in {"delete", "rmdir"}
      /\ e.kind = "none" => old.kind # "none"
      /\ e.kind # "none" => /\ e.kind \in {"file", "dir"} /\ e.name = n /\ e.first = o.first
                            /\ Length(e) = Pieces(o) /\ Chained(ft, dk, o.first, Length(e))
      /\ e.kind = "dir" => e.first \in Clusters \ LiveOf(ft, dk)
  BY EntryShape
<1>2. /\ \A x \in OwnDir(e) : ek[x] = EmptyDir
      /\ ek[d][s] = e /\ \A t \in Slots : t # s => ek[d][t] = dk[d][t]
      /\ d \in DirsOf(ek)
  BY EntryFolders
<1>3. \A t \in Slots : dk[d][t].kind # "none" => At(dk, d, t)
  <2>1. dk[d] \in [Slots -> Entries]
    BY <1>1, SectorIs DEF Disks, Sound
  <2>2. \A t \in Slots : dk[d][t].kind \in {"none", "file", "dir"}
    BY <2>1 DEF Entries
  <2> QED BY <1>1, <2>2 DEF At
<1>4. Hits(dk, d, n) \subseteq {s}
  <2>1. CASE old.kind = "none"
    BY <1>1, <2>1 DEF NewName, Hits
  <2>2. CASE old.kind # "none"
    BY <1>1, <1>3, <2>2 DEF NamesOnce, Hits
  <2> QED BY <2>1, <2>2
<1>5. Hits(ek, d, n) = IF e.kind = "none" THEN {} ELSE {s}
  <2>1. \A t \in Slots : t # s => t \notin Hits(ek, d, n)
    BY <1>2, <1>4 DEF Hits
  <2>2. s \in Hits(ek, d, n) <=> e.kind # "none"
    BY <1>1, <1>2 DEF Hits
  <2> QED BY <2>1, <2>2 DEF Hits
<1>6. e.kind # "none" => NodeOf(ft, ek, d, n) = View(ft, ek, e)
  BY <1>2, <1>5, HitFact
<1>7. CASE o.kind = "write"
  <2>1. e = Entry("file", o.name, o.first, Len(o.data)) /\ Pieces(o) = Len(o.data)
    BY <1>7 DEF EntryOf, Pieces
  <2>2. e.kind = "file" /\ e.size = Len(o.data) /\ e.first = o.first
    BY <2>1 DEF Entry
  <2>3. o.data \in Contents /\ Building(ft, dk, o, Len(o.data)) /\ o.i = Len(o.data)
    BY <1>7, <2>1 DEF EntryOk, OpsOf
  <2>4. \A k \in 1..Len(o.data) : /\ ChainOf(ft, e.first)[k] \in Clusters \ LiveOf(ft, dk)
                                  /\ dk[ChainOf(ft, e.first)[k]] = o.data[k]
    BY <2>2, <2>3, ChainedFact DEF Building
  <2>5. \A c \in Clusters \ LiveOf(ft, dk) : ek[c] = dk[c]
    <3>1. d \in LiveOf(ft, dk) \cup {Root}
      BY <1>1, DirsLive
    <3>2. \A c \in Clusters \ LiveOf(ft, dk) : c # d
      BY <3>1, Volume
    <3> QED BY <3>2 DEF Put
  <2>6. ContentOf(ft, ek, e) = o.data
    BY <2>2, <2>3, <2>4, <2>5, ContentMade
  <2>7. View(ft, ek, e) = [kind |-> "file", content |-> o.data]
    BY <2>2, <2>6 DEF View
  <2> QED BY <1>2, <1>6, <1>7, <2>2, <2>7 DEF Effected, Success
<1>8. CASE o.kind = "mkdir"
  <2>1. e = Entry("dir", o.name, o.first, 0)
    BY <1>8 DEF EntryOf
  <2>2. e.kind = "dir"
    BY <2>1 DEF Entry
  <2>3. View(ft, ek, e) = [kind |-> "dir", id |-> e.first] /\ ek[e.first] = EmptyDir /\ e.first \in Clusters
    BY <1>1, <1>2, <2>2 DEF View, OwnDir
  <2>4. o.before.kind = "none"
    <3>1. Hits(dk, d, n) = {}
      BY <1>1, <1>8 DEF NewName, Hits
    <3>2. o.before = [kind |-> "none"]
      BY <3>1 DEF Unmoved, NodeOf
    <3> QED BY <3>2
  <2> QED BY <1>2, <1>6, <1>8, <2>2, <2>3, <2>4 DEF Effected, Success
<1>9. CASE o.kind \in {"delete", "rmdir"}
  <2>1. e.kind = "none" /\ old.kind # "none" /\ Hits(ek, d, n) = {}
    BY <1>1, <1>5, <1>9
  <2>2. NodeOf(ft, ek, d, n) = [kind |-> "none"]
    BY <2>1 DEF NodeOf
  <2>3. o.before.kind # "none"
    <3>1. s \in Hits(dk, d, n)
      BY <1>1, <2>1 DEF Hits
    <3>2. o.before = View(ft, dk, old)
      BY <1>4, <3>1, HitFact DEF Unmoved
    <3>3. CASE old.kind = "dir"
      BY <3>2, <3>3 DEF View
    <3>4. CASE old.kind # "dir"
      <4>1. o.before = [kind |-> "file", content |-> ContentOf(ft, dk, old)]
        BY <3>2, <3>4 DEF View
      <4> QED BY <4>1
    <3> QED BY <3>3, <3>4
  <2>4. o.kind # "write" /\ o.kind # "mkdir"
    BY <1>9
  <2> QED BY <1>2, <2>2, <2>3, <2>4 DEF Effected, Success
<1> QED BY <1>7, <1>8, <1>9 DEF Changing

LEMMA HonestEntry == ASSUME ~ReadErrors, IInv, NamesOnce(disk), Honest, WriteEntry PROVE Honest'
<1> PICK o : o = op
  OBVIOUS
<1> PICK p : p = op'
  OBVIOUS
<1>1. /\ o.pc = "entry" /\ fat' = fat /\ Keeps(o, p) /\ o \in OpsOf(o.before) /\ EntryOk(fat[1], disk, o)
      /\ Sound(fat[1], disk) /\ o.kind \in Changing /\ Unmoved(fat[1], disk, o)
  BY EntryHow, EntryEnds DEF WriteEntry, Changing, Honest, HonestIs
<1>2. CASE disk' = disk /\ ((p.pc = "done" /\ p.ret = 0) \/ Ended(o, p))
  <2>1. QuietStep
    BY <1>1, <1>2, StillQuiet
  <2>2. /\ p.pc \in {"release", "done"}
        /\ p.pc = "release" => p.then # "ok"
        /\ p.pc = "done" => p.ret = 0
    BY <1>2, EndedHow
  <2> QED BY <1>1, <2>1, <2>2, HonestBusy
<1>3. CASE /\ disk' = Put(disk, o.dir, o.slot, EntryOf(o))
           /\ (p.pc = "release" /\ p.then = "ok") \/ (p.pc = "done" /\ p.ret = 1)
  <2>1. Effected(fat[1], disk', o)
    BY <1>1, <1>3, EntryMakes
  <2>2. Effected(fat'[1], disk', p)
    <3>1. p.dir = o.dir /\ p.name = o.name /\ p.kind = o.kind /\ p.data = o.data /\ p.before = o.before
      BY <1>1 DEF Keeps
    <3> QED BY <1>1, <2>1, <3>1 DEF Effected, Success
  <2> QED BY <1>3, <2>2 DEF Honest, HonestIs
<1> QED BY <1>2, <1>3, EntryEnds

LEMMA HonestRepair == ASSUME ~ReadErrors, IInv, Honest, RepairRow PROVE Honest'
<1> PICK o : o = op
  OBVIOUS
<1>1. /\ o \in OpsOf(o.before) /\ o.pc = "row" /\ o.kind = "mount"
      /\ op' = NextRow \/ (o.cp # NumFats /\ op' = Onward(o, o.cp + 1))
  <2>1. /\ o \in OpsOf(o.before) /\ o.pc = "row"
        /\ op' = NextRow \/ (o.cp # NumFats /\ op' = Onward(o, o.cp + 1))
    BY RepairHow
  <2> QED BY <2>1 DEF Honest, HonestIs
<1>2. CASE op' = NextRow
  <2>1. op'.pc \in {"row", "fsinfo"} /\ op'.kind = "mount"
    BY <1>1, <1>2, NextRowFact
  <2> QED BY <2>1 DEF Honest, HonestIs
<1>3. CASE o.cp # NumFats /\ op' = Onward(o, o.cp + 1)
  <2>1. o.cp + 1 \in Copies
    BY <1>1, <1>3, CpRange
  <2>2. op'.pc = o.pc /\ SameCall(o, op')
    BY <1>1, <1>3, <2>1, OnwardFact
  <2>3. op'.pc = "row" /\ op'.kind = "mount"
    BY <1>1, <2>2 DEF SameCall
  <2> QED BY <2>3 DEF Honest, HonestIs
<1> QED BY <1>1, <1>2, <1>3

LEMMA HonestBegun ==
  ASSUME IInv', UNCHANGED <<fat, disk>>, Begun PROVE Honest'
<1> PICK p : p = op'
  OBVIOUS
<1> PICK d : d = p.dir
  OBVIOUS
<1> PICK n : n = p.name
  OBVIOUS
<1>1. /\ p.pc \in {"alloc", "entry", "poke", "done"} /\ p.before = NodeAt(d, n) /\ CallOk(fat[1], disk, p)
      /\ p.pc = "done" => p.kind \notin Changing
  BY DEF Begun, IInv, Changing
<1>2. p.before = NodeOf(fat[1], disk, d, n)
  BY <1>1, NodeIs
<1>3. p.pc \in {"alloc", "entry"} => d \in DirsOf(disk)
  BY <1>1 DEF CallOk, AllocOk, EntryOk, Building, Target
<1>4. p.pc \in {"alloc", "entry"} => Unmoved(fat[1], disk, p)
  BY <1>2, <1>3 DEF Unmoved
<1> QED BY <1>1, <1>4 DEF Honest, HonestIs

LEMMA HonestStep ==
  ASSUME ~ReadErrors PROVE IInv /\ NamesOnce(disk) /\ Honest /\ [Next]_vars => Honest'
<1> SUFFICES ASSUME IInv, NamesOnce(disk), Honest, [Next]_vars PROVE Honest'
  OBVIOUS
<1>1. CASE UNCHANGED <<fat, disk, op>>
  BY <1>1 DEF Honest
<1>2. CASE UNCHANGED vars \/ MarkUnknown \/ Refused
  BY <1>1, <1>2 DEF vars, MarkUnknown, Refused, diskVars
<1>3. CASE op'.pc = "idle"
  BY <1>3 DEF Honest, HonestIs
<1>4. CASE Return \/ PowerCut
  BY <1>3, <1>4, NoOpFact DEF Return, PowerCut
<1>5. CASE Poke
  <2>1. op'.kind \notin Changing /\ op'.pc \in {"poke", "done"}
    BY <1>5, PokeHow DEF Changing
  <2> QED BY <2>1 DEF Honest, HonestIs
<1>6. CASE FinishRepair
  <2>1. op \in OpsOf(op.before) /\ op.kind = "mount" /\ op' = Done(op, 1) /\ 1 \in 0..(MaxLen + 1)
    BY <1>6, Volume DEF IInv, Typed, FinishRepair, Honest, HonestIs
  <2>2. op'.pc = "done" /\ op'.kind = "mount"
    BY <2>1, DoneFact
  <2>3. op'.kind \notin Changing
    BY <2>2 DEF Changing
  <2> QED BY <2>2, <2>3 DEF Honest, HonestIs
<1>7. CASE Start
  <2>1. CASE Begun
    BY <1>7, <2>1, StartHow, HonestBegun
  <2> QED BY <1>1, <1>7, <2>1, StartHow
<1>8. CASE Mount
  <2>1. op'.pc \in {"row", "done"} /\ op'.kind = "mount" /\ op'.kind \notin Changing
    BY <1>8, MountHow DEF Changing
  <2> QED BY <2>1 DEF Honest, HonestIs
<1> QED BY <1>2, <1>4, <1>5, <1>6, <1>7, <1>8, HonestAlloc, HonestLink, HonestSeal, HonestFree, HonestData, HonestEntry,
           HonestRepair DEF Next, Step

(* With a disk whose sectors can be read, a call that reports success has  *)
(* taken effect, and one that reports failure has changed nothing a caller *)
(* can see, whichever of its writes failed.                                *)
THEOREM ResultIsHonest == ASSUME ~ReadErrors PROVE Spec => []ResultHonest
<1>1. Init => Honest
  BY NoOpFact DEF Init, Honest, HonestIs
<1>2. Honest => ResultHonest
  <2> SUFFICES ASSUME Honest, op.pc = "done", op.kind \in Changing
               PROVE  LET now == NodeAt(op.dir, op.name)
                      IN  IF op.ret = 0 THEN now = op.before
                          ELSE CASE op.kind = "write" -> now = [kind |-> "file", content |-> op.data]
                                 [] op.kind = "mkdir" -> now.kind = "dir" /\ op.before.kind = "none"
                                                         /\ disk[now.id] = EmptyDir
                                 [] OTHER -> now.kind = "none" /\ op.before.kind # "none"
    BY DEF ResultHonest, Changing
  <2> PICK now : now = NodeAt(op.dir, op.name)
    OBVIOUS
  <2>1. now = NodeOf(fat[1], disk, op.dir, op.name)
    BY NodeIs
  <2>2. IF op.ret # 0 THEN Effected(fat[1], disk, op) ELSE Unmoved(fat[1], disk, op)
    BY DEF Honest, HonestIs
  <2>3. CASE op.ret = 0
    BY <2>1, <2>2, <2>3 DEF Unmoved
  <2>4. CASE op.ret # 0
    BY <2>1, <2>2, <2>4 DEF Effected, Success
  <2> QED BY <2>3, <2>4
<1>3. Init => NamesOnce(disk)
  BY NamesInit
<1>4. IInv /\ NamesOnce(disk) /\ [Next]_vars => NamesOnce(disk)'
  BY NamesStep
<1>5. IInv /\ NamesOnce(disk) /\ Honest /\ [Next]_vars => Honest'
  BY HonestStep
<1> QED BY <1>1, <1>2, <1>3, <1>4, <1>5, Invariant, PTL DEF Spec
-----------------------------------------------------------------------------
(* The atomic store: the tree a caller sees, and what each step does to it. *)

TreeOf(ft, dk) == [d \in DirsOf(dk) |-> [n \in Names |-> NodeOf(ft, dk, d, n)]]

LEMMA TreeIs == IInv => Tree = TreeOf(fat[1], disk)
<1> SUFFICES ASSUME IInv PROVE Tree = TreeOf(fat[1], disk)
  OBVIOUS
<1>1. Folders = DirsOf(disk)
  BY ReachIs DEF IInv, Sound, Folders, IsFolder
<1> QED BY <1>1, NodeIs DEF Tree, TreeOf

(* A step that leaves what can be reached alone leaves the tree alone.     *)
LEMMA QuietTree ==
  ASSUME NEW ft, NEW dk, NEW gt, NEW ek, Sound(ft, dk), Quiet(ft, dk, gt, ek)
  PROVE  TreeOf(gt, ek) = TreeOf(ft, dk)
<1>1. DirsOf(ek) = DirsOf(dk)
  BY DEF Quiet
<1>2. \A d \in DirsOf(dk), n \in Names : NodeOf(gt, ek, d, n) = NodeOf(ft, dk, d, n)
  BY NodeKeep
<1> QED BY <1>1, <1>2 DEF TreeOf

(* A slot of a reached folder that is not free is an entry of it.          *)
LEMMA HitAt ==
  ASSUME NEW ft, NEW dk, Sound(ft, dk), NEW d \in DirsOf(dk), NEW s \in Slots, dk[d][s].kind # "none"
  PROVE  At(dk, d, s)
<1>1. dk[d] \notin Payloads /\ dk \in Disks /\ DirsOf(dk) \subseteq Clusters \cup {Root}
  BY DirsUp DEF Sound
<1>2. dk[d] \in [Slots -> Entries]
  BY <1>1, SectorIs DEF Disks
<1>3. dk[d][s].kind \in {"none", "file", "dir"}
  BY <1>2 DEF Entries
<1> QED BY <1>1, <1>3 DEF At

(* What the first entry of a name shows depends on that folder, that entry *)
(* and, of a file, the clusters it names.                                  *)
LEMMA NodeLike ==
  ASSUME NEW ft, NEW dk, NEW ek, NEW d \in DirsOf(dk), NEW n, Sound(ft, dk),
         Hits(ek, d, n) = Hits(dk, d, n),
         \A t \in Hits(dk, d, n) : ek[d][t] = dk[d][t],
         \A t \in Hits(dk, d, n) : dk[d][t].kind = "file" =>
           \A k \in 1..dk[d][t].size :
             ek[ChainOf(ft, dk[d][t].first)[k]] = dk[ChainOf(ft, dk[d][t].first)[k]]
  PROVE  NodeOf(ft, ek, d, n) = NodeOf(ft, dk, d, n)
<1>1. CASE Hits(dk, d, n) = {}
  BY <1>1 DEF NodeOf
<1>2. CASE Hits(dk, d, n) # {}
  <2> PICK s : s = FirstHit(dk, d, n)
    OBVIOUS
  <2> PICK e : e = dk[d][s]
    OBVIOUS
  <2>1. s \in Hits(dk, d, n) /\ s \in Slots
    BY <1>2, FirstHitFact DEF Hits
  <2>2. FirstHit(ek, d, n) = s /\ ek[d][s] = e
    BY <2>1 DEF FirstHit
  <2>3. NodeOf(ft, dk, d, n) = View(ft, dk, e) /\ NodeOf(ft, ek, d, n) = View(ft, ek, e)
    BY <1>2, <2>2 DEF NodeOf
  <2>4. e.kind \in {"file", "dir"} /\ e.size \in Nat
    <3>1. At(dk, d, s) /\ dk \in Disks
      BY <2>1, HitAt DEF Hits, Sound
    <3> QED BY <3>1, LengthFact
  <2>5. CASE e.kind = "dir"
    BY <2>3, <2>5 DEF View
  <2>6. CASE e.kind = "file"
    <3>1. ContentOf(ft, ek, e) = ContentOf(ft, dk, e)
      BY <2>1, <2>4, <2>6, ContentKeep
    <3> QED BY <2>3, <2>6, <3>1 DEF View
  <2> QED BY <2>4, <2>5, <2>6
<1> QED BY <1>1, <1>2

(* The entry write, seen by name: it makes the one entry of its name, or   *)
(* takes it away.                                                          *)
LEMMA EntryHits ==
  ASSUME ~ReadErrors, NEW ft, NEW dk, Sound(ft, dk), NEW o, o \in OpsOf(o.before), EntryOk(ft, dk, o),
         NamesOnce(dk), NEW old, old = dk[o.dir][o.slot], NEW e, e = EntryOf(o),
         NEW ek, ek = Put(dk, o.dir, o.slot, e)
  PROVE  /\ NodeOf(ft, dk, o.dir, o.name) =
              IF old.kind = "none" THEN [kind |-> "none"] ELSE View(ft, dk, old)
         /\ NodeOf(ft, ek, o.dir, o.name) =
              IF e.kind = "none" THEN [kind |-> "none"] ELSE View(ft, ek, e)
<1> PICK d : d = o.dir
  OBVIOUS
<1> PICK n : n = o.name
  OBVIOUS
<1> PICK s : s = o.slot
  OBVIOUS
<1>1. /\ d \in DirsOf(dk) /\ s \in Slots
      /\ old.kind # "none" => At(dk, d, s) /\ old.name = n
      /\ old.kind = "none" => NewName(dk, d, n)
      /\ e.kind # "none" => e.name = n
  BY EntryShape
<1>2. /\ ek[d][s] = e /\ \A t \in Slots : t # s => ek[d][t] = dk[d][t]
  BY EntryFolders
<1>3. \A t \in Slots : dk[d][t].kind # "none" => At(dk, d, t)
  BY <1>1, HitAt
<1>4. Hits(dk, d, n) = IF old.kind = "none" THEN {} ELSE {s}
  <2>1. CASE old.kind = "none"
    BY <1>1, <2>1 DEF NewName, Hits
  <2>2. CASE old.kind # "none"
    BY <1>1, <1>3, <2>2 DEF NamesOnce, Hits
  <2> QED BY <2>1, <2>2
<1>5. Hits(ek, d, n) = IF e.kind = "none" THEN {} ELSE {s}
  <2>1. \A t \in Slots : t # s => t \notin Hits(ek, d, n)
    BY <1>2, <1>4 DEF Hits
  <2>2. s \in Hits(ek, d, n) <=> e.kind # "none"
    BY <1>1, <1>2 DEF Hits
  <2> QED BY <2>1, <2>2 DEF Hits
<1>6. NodeOf(ft, dk, d, n) = IF old.kind = "none" THEN [kind |-> "none"] ELSE View(ft, dk, old)
  BY <1>4, HitFact DEF NodeOf
<1>7. NodeOf(ft, ek, d, n) = IF e.kind = "none" THEN [kind |-> "none"] ELSE View(ft, ek, e)
  <2>1. CASE e.kind = "none"
    BY <1>5, <2>1 DEF NodeOf
  <2>2. CASE e.kind # "none"
    <3>1. s \in Hits(ek, d, n) /\ \A t \in Hits(ek, d, n) : t = s
      BY <1>5, <2>2
    <3>2. NodeOf(ft, ek, d, n) = View(ft, ek, ek[d][s])
      BY ONLY <3>1, HitFact
    <3> QED BY <1>2, <2>2, <3>2
  <2> QED BY <2>1, <2>2
<1> QED BY <1>6, <1>7

(* Every other name, in every folder, shows what it did.                   *)
LEMMA EntryOthers ==
  ASSUME NEW ft, NEW dk, Sound(ft, dk), NEW o, o \in OpsOf(o.before), EntryOk(ft, dk, o),
         NEW ek, ek = Put(dk, o.dir, o.slot, EntryOf(o)),
         NEW d \in DirsOf(dk), NEW n, d # o.dir \/ n # o.name
  PROVE  NodeOf(ft, ek, d, n) = NodeOf(ft, dk, d, n)
<1> PICK old : old = dk[o.dir][o.slot]
  OBVIOUS
<1> PICK e : e = EntryOf(o)
  OBVIOUS
<1>1. /\ o.dir \in DirsOf(dk) /\ dk[o.dir] \notin Payloads
      /\ old.kind # "none" => old.name = o.name
      /\ e.kind # "none" => e.name = o.name
  BY EntryShape
<1>2. /\ ek[o.dir][o.slot] = e /\ \A t \in Slots : t # o.slot => ek[o.dir][t] = dk[o.dir][t]
      /\ \A x \in DirsOf(dk) : x # o.dir => ek[x] = dk[x]
  BY EntryFolders
<1>3. \A t \in Slots : d # o.dir \/ t # o.slot => ek[d][t] = dk[d][t]
  BY <1>2
<1>4. d = o.dir => o.slot \notin Hits(dk, d, n) /\ o.slot \notin Hits(ek, d, n)
  BY <1>1, <1>2 DEF Hits
<1>5. Hits(ek, d, n) = Hits(dk, d, n)
  BY <1>3, <1>4 DEF Hits
<1>6. \A t \in Hits(dk, d, n) : ek[d][t] = dk[d][t] /\ t \in Slots /\ At(dk, d, t)
  BY <1>3, <1>4, HitAt DEF Hits
<1>7. \A c : dk[c] \in Payloads => ek[c] = dk[c]
  BY <1>1 DEF Put
<1>8. ASSUME NEW t \in Hits(dk, d, n), dk[d][t].kind = "file", NEW k \in 1..dk[d][t].size
      PROVE  ek[ChainOf(ft, dk[d][t].first)[k]] = dk[ChainOf(ft, dk[d][t].first)[k]]
  BY <1>6, <1>7, <1>8 DEF Sound, Whole
<1>9. \A t \in Hits(dk, d, n) : dk[d][t].kind = "file" =>
        \A k \in 1..dk[d][t].size :
          ek[ChainOf(ft, dk[d][t].first)[k]] = dk[ChainOf(ft, dk[d][t].first)[k]]
  BY <1>8
<1>10. \A t \in Hits(dk, d, n) : ek[d][t] = dk[d][t]
  BY <1>6
<1> QED BY ONLY <1>5, <1>9, <1>10, NodeLike, Sound(ft, dk), d \in DirsOf(dk)

(* A folder's names, all of them absent. *)
Nothing == [n \in Names |-> [kind |-> "none"]]

LEMMA EmptyTree ==
  ASSUME NEW ft, NEW dk, NEW d \in DirsOf(dk), dk[d] = EmptyDir
  PROVE  TreeOf(ft, dk)[d] = Nothing
<1>1. \A s \in Slots : dk[d][s] = NoEntry
  BY DEF EmptyDir
<1>2. \A n : Hits(dk, d, n) = {}
  BY <1>1, NoEntryFact DEF Hits
<1>3. \A n : NodeOf(ft, dk, d, n) = [kind |-> "none"]
  BY <1>2 DEF NodeOf
<1> QED BY <1>3 DEF TreeOf, Nothing

(* What a call does to the tree at its entry write. *)
TreeMove(T, U, o, d, n) ==
  /\ d \in DOMAIN T /\ n \in Names
  /\ o.kind = "write" => /\ o.data \in Contents /\ T[d][n].kind # "dir"
                         /\ U = [T EXCEPT ![d][n] = [kind |-> "file", content |-> o.data]]
  /\ o.kind = "delete" => /\ T[d][n].kind = "file"
                          /\ U = [T EXCEPT ![d][n] = [kind |-> "none"]]
  /\ o.kind = "mkdir" => /\ T[d][n] = [kind |-> "none"] /\ o.first \in Clusters \ DOMAIN T
                         /\ U = [x \in DOMAIN T \cup {o.first} |->
                                   IF x = o.first THEN Nothing
                                   ELSE IF x = d
                                        THEN [T[d] EXCEPT ![n] = [kind |-> "dir", id |-> o.first]]
                                        ELSE T[x]]
  /\ o.kind = "rmdir" => /\ T[d][n].kind = "dir" /\ T[T[d][n].id] = Nothing
                         /\ U = [x \in DOMAIN T \ {T[d][n].id} |->
                                   IF x = d THEN [T[d] EXCEPT ![n] = [kind |-> "none"]] ELSE T[x]]

(* The entry write makes it. *)
LEMMA EntryTree ==
  ASSUME ~ReadErrors, NEW ft, NEW dk, Sound(ft, dk), NEW o, o \in OpsOf(o.before), EntryOk(ft, dk, o),
         NamesOnce(dk), o.kind \in Changing, Unmoved(ft, dk, o),
         NEW ek, ek = Put(dk, o.dir, o.slot, EntryOf(o)),
         NEW T, T = TreeOf(ft, dk), NEW U, U = TreeOf(ft, ek),
         NEW d, d = o.dir, NEW n, n = o.name
  PROVE  TreeMove(T, U, o, d, n)
<1> PICK old : old = dk[d][o.slot]
  OBVIOUS
<1> PICK e : e = EntryOf(o)
  OBVIOUS
<1> PICK v : v = NodeOf(ft, ek, d, n)
  OBVIOUS
<1> PICK W : W = [x \in Clusters \cup {Root} |-> [m \in Names |-> NodeOf(ft, ek, x, m)]]
  OBVIOUS
<1>1. /\ d \in DirsOf(dk) /\ n \in Names
      /\ old.kind # "none" => At(dk, d, o.slot) /\ o.old = old.first
      /\ old.kind = "dir" => o.kind = "rmdir" /\ dk[old.first] = EmptyDir
      /\ o.kind = "mkdir" => old.kind = "none"
      /\ e.kind = "none" <=> o.kind \in {"delete", "rmdir"}
      /\ e.kind = "none" => old.kind # "none"
      /\ e.kind # "none" => e.first = o.first
  <2>1. o.name \in Names
    BY DEF EntryOk, Target
  <2>2. /\ o.dir \in DirsOf(dk)
        /\ old.kind # "none" => At(dk, o.dir, o.slot) /\ o.old = old.first
        /\ old.kind = "dir" => o.kind = "rmdir" /\ dk[old.first] = EmptyDir
        /\ o.kind = "mkdir" => old.kind = "none"
        /\ e.kind = "none" <=> o.kind \in {"delete", "rmdir"}
        /\ e.kind = "none" => old.kind # "none"
        /\ e.kind # "none" => e.first = o.first
    BY EntryShape
  <2> QED BY ONLY <2>1, <2>2, d = o.dir, n = o.name
<1>2. /\ DirsOf(ek) = (DirsOf(dk) \ OwnDir(old)) \cup OwnDir(e)
      /\ \A x \in OwnDir(e) : ek[x] = EmptyDir /\ x \notin DirsOf(dk) /\ x # d
      /\ d \in DirsOf(ek)
  BY EntryFolders
<1>3. /\ NodeOf(ft, dk, d, n) = IF old.kind = "none" THEN [kind |-> "none"] ELSE View(ft, dk, old)
      /\ v = IF e.kind = "none" THEN [kind |-> "none"] ELSE View(ft, ek, e)
  BY EntryHits
<1>4. \A x \in DirsOf(dk) : \A m : x # d \/ m # n => NodeOf(ft, ek, x, m) = NodeOf(ft, dk, x, m)
  BY EntryOthers
<1>5. /\ DOMAIN T = DirsOf(dk) /\ \A x \in DirsOf(dk) : T[x] = [m \in Names |-> NodeOf(ft, dk, x, m)]
      /\ T = [x \in DirsOf(dk) |-> T[x]] /\ U = [x \in DirsOf(ek) |-> W[x]]
  <2>1. DirsOf(ek) \subseteq Clusters \cup {Root}
    BY DirsUp
  <2>2. \A x \in DirsOf(ek) : W[x] = [m \in Names |-> NodeOf(ft, ek, x, m)]
    BY <2>1
  <2> QED BY <2>2 DEF TreeOf
<1>6. T[d][n] = NodeOf(ft, dk, d, n)
  BY ZenonT(60), <1>1, <1>5
<1>7. \A x \in DirsOf(dk) : W[x] = IF x = d THEN [T[d] EXCEPT ![n] = v] ELSE T[x]
  <2> TAKE x \in DirsOf(dk)
  <2>1. x \in Clusters \cup {Root} /\ W[x] = [m \in Names |-> NodeOf(ft, ek, x, m)]
    BY DirsUp
  <2>2. CASE x # d
    <3>1. \A m \in Names : NodeOf(ft, ek, x, m) = NodeOf(ft, dk, x, m)
      BY <1>4, <2>2
    <3> QED BY <1>5, <2>1, <2>2, <3>1
  <2>3. CASE x = d
    <3>1. \A m \in Names : NodeOf(ft, ek, d, m) = IF m = n THEN v ELSE NodeOf(ft, dk, d, m)
      BY <1>1, <1>4
    <3>2. T[d] = [m \in Names |-> NodeOf(ft, dk, d, m)]
      BY <1>1, <1>5
    <3>3. [T[d] EXCEPT ![n] = v] = [m \in Names |-> IF m = n THEN v ELSE NodeOf(ft, dk, d, m)]
      BY <3>2
    <3> QED BY <2>1, <2>3, <3>1, <3>3
  <2> QED BY <2>2, <2>3
<1>8. CASE o.kind = "write"
  <2>1. OwnDir(old) = {} /\ e.kind = "file" /\ e.size = Len(o.data) /\ o.data \in Contents
    BY <1>1, <1>8 DEF OwnDir, EntryOf, Entry, OpsOf
  <2>2. DirsOf(ek) = DirsOf(dk)
    BY <1>2, <2>1 DEF OwnDir
  <2>3. U = [T EXCEPT ![d][n] = v]
    <3>1. U = [x \in DirsOf(dk) |-> W[x]]
      BY ONLY <1>5, <2>2
    <3>2. U = [x \in DirsOf(dk) |-> IF x = d THEN [T[d] EXCEPT ![n] = v] ELSE T[x]]
      BY ONLY <3>1, <1>7
    <3> QED BY ONLY <1>5, <3>2
  <2>4. v = [kind |-> "file", content |-> o.data]
    BY <1>8, EntryMakes DEF Effected, Success
  <2>5. T[d][n].kind # "dir"
    <3>1. old.kind # "none" => At(dk, d, o.slot) /\ old.kind # "dir"
      BY <1>1, <1>8
    <3> QED BY <1>3, <1>6, <3>1 DEF View
  <2> QED BY <1>1, <1>5, <1>8, <2>1, <2>3, <2>4, <2>5 DEF TreeMove
<1>9. CASE o.kind = "delete"
  <2>1. e.kind = "none" /\ old.kind # "dir" /\ old.kind # "none"
    BY <1>1, <1>9
  <2>2. DirsOf(ek) = DirsOf(dk)
    BY <1>2, <2>1 DEF OwnDir
  <2>3. U = [T EXCEPT ![d][n] = v]
    <3>1. U = [x \in DirsOf(dk) |-> W[x]]
      BY ONLY <1>5, <2>2
    <3>2. U = [x \in DirsOf(dk) |-> IF x = d THEN [T[d] EXCEPT ![n] = v] ELSE T[x]]
      BY ONLY <3>1, <1>7
    <3> QED BY ONLY <1>5, <3>2
  <2>4. T[d][n].kind = "file"
    BY <1>3, <1>6, <2>1 DEF View
  <2> QED BY <1>1, <1>3, <1>5, <1>9, <2>1, <2>3, <2>4 DEF TreeMove
<1>10. CASE o.kind = "mkdir"
  <2>1. e = Entry("dir", o.name, o.first, 0)
    BY <1>10 DEF EntryOf
  <2>2. e.kind = "dir" /\ e.first = o.first /\ old.kind = "none"
    BY <1>1, <1>10, <2>1 DEF Entry
  <2>3. v = [kind |-> "dir", id |-> o.first] /\ T[d][n] = [kind |-> "none"]
    BY <1>3, <1>6, <2>2 DEF View
  <2>4. /\ DirsOf(ek) = DirsOf(dk) \cup {o.first} /\ o.first \in DirsOf(ek) /\ ek[o.first] = EmptyDir
        /\ o.first \notin DirsOf(dk) /\ o.first # d
    BY <1>2, <2>2 DEF OwnDir
  <2>5. o.first \in Clusters \ DOMAIN T
    <3>1. o.first \in Clusters
      BY <1>10, EntryShape, <2>2
    <3> QED BY <1>5, <2>4, <3>1
  <2>6. W[o.first] = Nothing
    <3>1. U[o.first] = Nothing
      BY <2>4, EmptyTree
    <3> QED BY <1>5, <2>4, <3>1
  <2>7. U = [x \in DOMAIN T \cup {o.first} |->
               IF x = o.first THEN Nothing ELSE IF x = d THEN [T[d] EXCEPT ![n] = v] ELSE T[x]]
    <3>1. U = [x \in DirsOf(dk) \cup {o.first} |-> W[x]]
      BY ONLY <1>5, <2>4
    <3>2. \A x \in DirsOf(dk) \cup {o.first} :
            W[x] = IF x = o.first THEN Nothing ELSE IF x = d THEN [T[d] EXCEPT ![n] = v] ELSE T[x]
      BY ONLY <1>7, <2>4, <2>6
    <3>3. U = [x \in DirsOf(dk) \cup {o.first} |->
                 IF x = o.first THEN Nothing ELSE IF x = d THEN [T[d] EXCEPT ![n] = v] ELSE T[x]]
      BY ONLY <3>1, <3>2
    <3> QED BY ONLY <1>5, <3>3
  <2> QED BY <1>1, <1>5, <1>10, <2>3, <2>5, <2>7 DEF TreeMove
<1>11. CASE o.kind = "rmdir"
  <2>1. e.kind = "none" /\ old.kind = "dir" /\ dk[old.first] = EmptyDir
    <3>1. old.kind = "dir"
      BY <1>11 DEF EntryOk, Target
    <3> QED BY <1>1, <1>11, <3>1
  <2>2. DirsOf(ek) = DirsOf(dk) \ {old.first}
    BY <1>2, <2>1 DEF OwnDir
  <2>3. T[d][n] = [kind |-> "dir", id |-> old.first] /\ v = [kind |-> "none"]
    BY <1>3, <1>6, <2>1 DEF View
  <2>4. old.first \in DirsOf(dk)
    <3>1. At(dk, d, o.slot) /\ Whole(ft, dk, old) /\ Length(old) = 1
      BY <1>1, <2>1 DEF Sound, Length
    <3>2. dk[d][o.slot].first \in Clusters
      BY <3>1, RunStep DEF Whole
    <3> QED BY <2>1, <3>1, <3>2, DirsUp DEF At
  <2>5. T[old.first] = Nothing
    BY <2>1, <2>4, EmptyTree
  <2>6. U = [x \in DOMAIN T \ {old.first} |-> IF x = d THEN [T[d] EXCEPT ![n] = v] ELSE T[x]]
    <3>1. U = [x \in DirsOf(dk) \ {old.first} |-> W[x]]
      BY ONLY <1>5, <2>2
    <3>2. \A x \in DirsOf(dk) \ {old.first} : W[x] = IF x = d THEN [T[d] EXCEPT ![n] = v] ELSE T[x]
      BY ONLY <1>7
    <3>3. U = [x \in DirsOf(dk) \ {old.first} |-> IF x = d THEN [T[d] EXCEPT ![n] = v] ELSE T[x]]
      BY ONLY <3>1, <3>2
    <3> QED BY ONLY <1>5, <3>3
  <2>7. /\ T[d][n].kind = "dir" /\ T[T[d][n].id] = Nothing
        /\ U = [x \in DOMAIN T \ {T[d][n].id} |->
                  IF x = d THEN [T[d] EXCEPT ![n] = [kind |-> "none"]] ELSE T[x]]
    BY ONLY <2>3, <2>5, <2>6
  <2> QED BY <1>1, <1>5, <1>11, <2>7 DEF TreeMove
<1> QED BY <1>8, <1>9, <1>10, <1>11 DEF Changing, TreeMove

(* Two entries share no cluster: with the file's entry gone its clusters   *)
(* could not be reached, and the other's still are.                        *)
LEMMA FilesApart ==
  ASSUME NEW ft, NEW dk, Sound(ft, dk), NEW d, NEW s, At(dk, d, s), dk[d][s].kind = "file",
         NEW e, NEW t, At(dk, e, t), e # d \/ t # s
  PROVE  Cells(ft, dk[e][t]) \cap Cells(ft, dk[d][s]) = {}
<1> PICK ek : ek = Put(dk, d, s, NoEntry)
  OBVIOUS
<1>1. dk[d][s].kind # "dir"
  OBVIOUS
<1>2. Sound(ft, ek) /\ LiveOf(ft, ek) = LiveOf(ft, dk) \ Cells(ft, dk[d][s])
  BY <1>1, RemoveFact
<1>3. At(ek, e, t) /\ ek[e][t] = dk[e][t]
  BY ONLY <1>1, RemoveDirs, Sound(ft, dk), At(dk, d, s), At(dk, e, t), e # d \/ t # s,
          ek = Put(dk, d, s, NoEntry)
<1>4. Cells(ft, dk[e][t]) \subseteq LiveOf(ft, ek)
  BY <1>2, <1>3, CellsLive
<1> QED BY <1>2, <1>4

(* A cluster overwritten in place changes one place of one file.           *)
PokeMove(T, U, d, n, k, p) ==
  /\ d \in DOMAIN T /\ T[d][n].kind = "file" /\ k \in DOMAIN T[d][n].content
  /\ U = [T EXCEPT ![d][n].content[k] = p]

LEMMA PokeTree ==
  ASSUME ~ReadErrors, NEW ft, NEW dk, Sound(ft, dk), NamesOnce(dk), NEW d, NEW s, At(dk, d, s),
         dk[d][s].kind = "file", NEW k \in 1..dk[d][s].size, NEW p \in Payloads,
         NEW ek, ek = With(dk, ChainOf(ft, dk[d][s].first)[k], p),
         NEW n, n = dk[d][s].name, n \in Names, NEW T, T = TreeOf(ft, dk)
  PROVE  PokeMove(T, TreeOf(ft, ek), d, n, k, p)
<1> PICK e : e = dk[d][s]
  OBVIOUS
<1> PICK ch : ch = ChainOf(ft, e.first)
  OBVIOUS
<1> PICK c : c = ch[k]
  OBVIOUS
<1>1. /\ ft \in Tables /\ dk \in Disks /\ e.size \in Nat /\ Length(e) = e.size /\ k \in 1..e.size
      /\ d \in DirsOf(dk) /\ s \in Slots /\ e.kind = "file"
  BY LengthFact DEF Sound, At, Length
<1>2. /\ Run(ft, e.first, e.size) /\ \A i \in 1..e.size : ch[i] \in Clusters /\ dk[ch[i]] \in Payloads
  BY <1>1 DEF Sound, Whole, Run
<1>3. \A i \in 1..e.size : ch[i] = c => i = k
  BY <1>1, <1>2, RunInjective
<1>4. c \in Cells(ft, e) /\ c \in LiveOf(ft, dk) /\ dk[c] \in Payloads /\ c \in Clusters
  BY <1>1, <1>2, CellsLive DEF Cells
<1>5. ek = With(dk, c, p)
  OBVIOUS
<1>6. DirsOf(ek) = DirsOf(dk) /\ \A x \in DirsOf(dk) : ek[x] = dk[x]
  BY <1>4, <1>5, PokePut
<1>7. \A x : x # c => ek[x] = dk[x]
  BY <1>5 DEF With
<1>8. ek[c] = p
  BY <1>1, <1>4, <1>5 DEF With, Disks
<1>9. \A x \in DirsOf(dk) : \A m : Hits(ek, x, m) = Hits(dk, x, m)
  BY <1>6 DEF Hits
<1>10. \A x \in DirsOf(dk), t \in Slots : dk[x][t].kind # "none" => At(dk, x, t)
  BY HitAt
<1>11. Hits(dk, d, n) = {s}
  BY <1>1, <1>10 DEF NamesOnce, Hits
<1>12. ASSUME NEW x \in DirsOf(dk), NEW m, x # d \/ m # n
       PROVE  NodeOf(ft, ek, x, m) = NodeOf(ft, dk, x, m)
  <2>1. \A t \in Hits(dk, x, m) : At(dk, x, t) /\ (x # d \/ t # s)
    BY <1>10, <1>12 DEF Hits
  <2>2. \A t \in Hits(dk, x, m) : c \notin Cells(ft, dk[x][t])
    BY <1>1, <1>4, <2>1, FilesApart
  <2>3. ASSUME NEW t \in Hits(dk, x, m), dk[x][t].kind = "file", NEW i \in 1..dk[x][t].size
        PROVE  ek[ChainOf(ft, dk[x][t].first)[i]] = dk[ChainOf(ft, dk[x][t].first)[i]]
    <3>1. ChainOf(ft, dk[x][t].first)[i] \in Cells(ft, dk[x][t])
      BY <2>3 DEF Cells, Length
    <3> QED BY <1>7, <2>2, <3>1
  <2>4. \A t \in Hits(dk, x, m) : dk[x][t].kind = "file" => \A i \in 1..dk[x][t].size :
          ek[ChainOf(ft, dk[x][t].first)[i]] = dk[ChainOf(ft, dk[x][t].first)[i]]
    BY <2>3
  <2>5. Hits(ek, x, m) = Hits(dk, x, m) /\ \A t \in Hits(dk, x, m) : ek[x][t] = dk[x][t]
    BY <1>6, <1>9
  <2> QED BY ONLY <2>4, <2>5, NodeLike, Sound(ft, dk), x \in DirsOf(dk)
<1>13. /\ NodeOf(ft, dk, d, n) = [kind |-> "file", content |-> ContentOf(ft, dk, e)]
       /\ NodeOf(ft, ek, d, n) = [kind |-> "file", content |-> ContentOf(ft, ek, e)]
  <2>1. NodeOf(ft, dk, d, n) = View(ft, dk, e) /\ NodeOf(ft, ek, d, n) = View(ft, ek, e)
    <3>1. Hits(ek, d, n) = {s} /\ ek[d][s] = e
      BY <1>1, <1>6, <1>9, <1>11
    <3> QED BY <1>11, <3>1, HitFact
  <2> QED BY <1>1, <2>1 DEF View
<1>14. /\ ContentOf(ft, dk, e) = [i \in 1..e.size |-> dk[ch[i]]]
       /\ ContentOf(ft, ek, e) = [i \in 1..e.size |-> ek[ch[i]]]
  <2>1. {i \in 1..e.size : \A j \in 1..i : ch[j] \in Clusters} = 1..e.size
    BY <1>1, <1>2
  <2> QED BY <2>1 DEF ContentOf
<1>15. ContentOf(ft, ek, e) = [ContentOf(ft, dk, e) EXCEPT ![k] = p]
  <2>1. \A i \in 1..e.size : ek[ch[i]] = IF i = k THEN p ELSE dk[ch[i]]
    BY <1>1, <1>3, <1>7, <1>8
  <2>2. ContentOf(ft, ek, e) = [i \in 1..e.size |-> IF i = k THEN p ELSE dk[ch[i]]]
    BY ONLY <1>14, <2>1
  <2>3. [ContentOf(ft, dk, e) EXCEPT ![k] = p] = [i \in 1..e.size |-> IF i = k THEN p ELSE dk[ch[i]]]
    BY ONLY <1>14
  <2> QED BY ONLY <2>2, <2>3
<1> PICK x : x = NodeOf(ft, dk, d, n)
  OBVIOUS
<1> PICK y : y = NodeOf(ft, ek, d, n)
  OBVIOUS
<1>16. /\ x.kind = "file" /\ k \in DOMAIN x.content /\ x.content = ContentOf(ft, dk, e)
       /\ y = [x EXCEPT !.content[k] = p]
  <2>1. x.kind = "file" /\ x.content = ContentOf(ft, dk, e)
    BY <1>13
  <2>2. k \in DOMAIN x.content
    BY <1>14, <2>1
  <2>3. y = [x EXCEPT !.content = [x.content EXCEPT ![k] = p]]
    BY <1>13, <1>15
  <2> QED BY <2>1, <2>2, <2>3
<1>17. /\ DOMAIN T = DirsOf(dk) /\ \A z \in DirsOf(dk) : T[z] = [m \in Names |-> NodeOf(ft, dk, z, m)]
       /\ TreeOf(ft, ek) = [z \in DirsOf(dk) |-> [m \in Names |-> NodeOf(ft, ek, z, m)]]
       /\ T = [z \in DirsOf(dk) |-> T[z]]
  BY <1>6 DEF TreeOf
<1>18. T[d][n] = x
  BY ZenonT(60), <1>1, <1>17
<1>19. TreeOf(ft, ek) = [z \in DirsOf(dk) |-> IF z = d THEN [T[d] EXCEPT ![n] = y] ELSE T[z]]
  <2>1. ASSUME NEW z \in DirsOf(dk)
        PROVE  [m \in Names |-> NodeOf(ft, ek, z, m)] = IF z = d THEN [T[d] EXCEPT ![n] = y] ELSE T[z]
    <3>1. CASE z # d
      <4>1. \A m \in Names : NodeOf(ft, ek, z, m) = NodeOf(ft, dk, z, m)
        BY <1>12, <3>1
      <4> QED BY <1>17, <3>1, <4>1
    <3>2. CASE z = d
      <4>1. \A m \in Names : NodeOf(ft, ek, d, m) = IF m = n THEN y ELSE NodeOf(ft, dk, d, m)
        BY <1>1, <1>12
      <4>2. T[d] = [m \in Names |-> NodeOf(ft, dk, d, m)]
        BY <1>1, <1>17
      <4>3. [T[d] EXCEPT ![n] = y] = [m \in Names |-> IF m = n THEN y ELSE NodeOf(ft, dk, d, m)]
        BY <4>2
      <4> QED BY <3>2, <4>1, <4>3
    <3> QED BY <3>1, <3>2
  <2> QED BY ONLY <1>17, <2>1
<1>20. TreeOf(ft, ek) = [T EXCEPT ![d] = [T[d] EXCEPT ![n] = y]]
  BY ONLY <1>17, <1>19
<1> QED BY <1>1, <1>16, <1>17, <1>18, <1>20 DEF PokeMove

(* What the tree's module calls these. *)
LEMMA StoreWords ==
  /\ Store!Absent = [kind |-> "none"] /\ Store!EmptyFolder = Nothing
  /\ \A c : Store!File(c) = [kind |-> "file", content |-> c]
  /\ \A id : Store!Folder(id) = [kind |-> "dir", id |-> id]
  /\ Store!Contents = Contents
BY DEF Store!Absent, Store!EmptyFolder, Nothing, Store!File, Store!Folder, Store!Contents, Contents

LEMMA StoreEntry ==
  ASSUME ~ReadErrors, IInv, NamesOnce(disk), Honest, WriteEntry, NEW U, U = TreeOf(fat'[1], disk'),
         Tree' = U
  PROVE  [Store!Next]_Tree
<1> PICK ft : ft = fat[1]
  OBVIOUS
<1> PICK dk : dk = disk
  OBVIOUS
<1> PICK o : o = op
  OBVIOUS
<1> PICK T : T = Tree
  OBVIOUS
<1>1. /\ o \in OpsOf(o.before) /\ EntryOk(ft, dk, o) /\ Sound(ft, dk) /\ fat'[1] = ft
      /\ o.kind \in Changing /\ Unmoved(ft, dk, o) /\ T = TreeOf(ft, dk) /\ NamesOnce(dk)
      /\ disk' = dk \/ disk' = Put(dk, o.dir, o.slot, EntryOf(o))
  BY EntryHow, TreeIs DEF WriteEntry, Honest, HonestIs, Changing
<1>2. CASE disk' = dk
  BY <1>1, <1>2
<1>3. CASE disk' = Put(dk, o.dir, o.slot, EntryOf(o))
  <2> PICK d : d = o.dir
    OBVIOUS
  <2> PICK n : n = o.name
    OBVIOUS
  <2> PICK ek : ek = disk'
    OBVIOUS
  <2>1. TreeMove(T, U, o, d, n)
    <3>1. ek = Put(dk, o.dir, o.slot, EntryOf(o)) /\ U = TreeOf(ft, ek) /\ d = o.dir /\ n = o.name
      BY <1>1, <1>3
    <3> QED BY ONLY <1>1, <3>1, EntryTree, ~ReadErrors
  <2>2. CASE o.kind = "write"
    <3>1. o.data \in Store!Contents /\ Store!Put(d, n, o.data)
      BY <2>1, <2>2, StoreWords DEF Store!Put, TreeMove
    <3> QED BY <2>1, <3>1 DEF Store!Next, TreeMove
  <2>3. CASE o.kind = "delete"
    <3>1. Store!Delete(d, n)
      BY <2>1, <2>3, StoreWords DEF Store!Delete, TreeMove
    <3> QED BY <2>1, <3>1 DEF Store!Next, TreeMove
  <2>4. CASE o.kind = "mkdir"
    <3>1. Store!Mkdir(d, n, o.first)
      BY <2>1, <2>4, StoreWords DEF Store!Mkdir, TreeMove
    <3> QED BY <2>1, <2>4, <3>1 DEF Store!Next, TreeMove
  <2>5. CASE o.kind = "rmdir"
    <3>1. Store!Rmdir(d, n)
      BY <2>1, <2>5, StoreWords DEF Store!Rmdir, TreeMove
    <3> QED BY <2>1, <3>1 DEF Store!Next, TreeMove
  <2> QED BY <1>1, <2>2, <2>3, <2>4, <2>5 DEF Changing
<1> QED BY <1>1, <1>2, <1>3

LEMMA StorePoke ==
  ASSUME ~ReadErrors, IInv, NamesOnce(disk), Poke, NEW U, U = TreeOf(fat'[1], disk'), Tree' = U
  PROVE  [Store!Next]_Tree
<1> PICK ft : ft = fat[1]
  OBVIOUS
<1> PICK dk : dk = disk
  OBVIOUS
<1> PICK o : o = op
  OBVIOUS
<1> PICK T : T = Tree
  OBVIOUS
<1>1. /\ o \in OpsOf(o.before) /\ PokeOk(ft, dk, o) /\ Sound(ft, dk) /\ NamesOnce(dk)
      /\ fat'[1] = ft /\ T = TreeOf(ft, dk) /\ o.name \in Names
      /\ disk' = dk \/ disk' = With(dk, o.cur, o.data[o.i + 1])
  <2>1. PokeOk(ft, dk, o) /\ o.name \in Names
    BY DEF IInv, CallOk, Poke, PokeOk
  <2>2. fat' = fat /\ (disk' = dk \/ disk' = With(dk, o.cur, o.data[o.i + 1]))
    BY PokeFolders
  <2>3. o \in OpsOf(o.before) /\ Sound(ft, dk) /\ NamesOnce(dk)
    BY DEF IInv, Typed
  <2>4. T = TreeOf(ft, dk)
    BY TreeIs
  <2> QED BY <2>1, <2>2, <2>3, <2>4
<1>2. CASE disk' = dk
  BY <1>1, <1>2
<1>3. CASE disk' = With(dk, o.cur, o.data[o.i + 1])
  <2> PICK d : d = o.dir
    OBVIOUS
  <2> PICK n : n = o.name
    OBVIOUS
  <2> PICK p : p = o.data[o.i + 1]
    OBVIOUS
  <2>1. PICK s \in Slots, k \in Nat \ {0} :
          /\ At(dk, d, s) /\ dk[d][s].kind = "file" /\ dk[d][s].name = n
          /\ k + Len(o.data) - o.i <= dk[d][s].size + 1
          /\ o.cur = ChainOf(ft, dk[d][s].first)[k]
    BY <1>1 DEF PokeOk
  <2>2. p \in Payloads /\ k \in 1..dk[d][s].size
    <3>1. /\ p \in Payloads /\ o.i < Len(o.data) /\ Len(o.data) \in Nat /\ o.i \in Nat
      BY <1>1, PokePlace DEF PokeOk
    <3>2. dk[d][s].size \in Nat
      BY <1>1, <2>1, LengthFact DEF Sound
    <3>3. k <= dk[d][s].size
      <4>1. k + Len(o.data) - o.i <= dk[d][s].size + 1 /\ k \in Nat
        BY ONLY <2>1
      <4> QED BY ONLY <3>1, <3>2, <4>1
    <3> QED BY <3>1, <3>2, <3>3
  <2>3. disk' = With(dk, ChainOf(ft, dk[d][s].first)[k], p) /\ U = TreeOf(ft, disk')
    BY <1>1, <1>3, <2>1
  <2>4. /\ d \in DOMAIN T /\ T[d][n].kind = "file" /\ k \in DOMAIN T[d][n].content
        /\ U = [T EXCEPT ![d][n].content[k] = p]
    <3>1. n \in Names /\ n = dk[d][s].name /\ s \in Slots
      BY <1>1, <2>1
    <3>2. PokeMove(T, U, d, n, k, p)
      BY ONLY <1>1, <2>1, <2>2, <2>3, <3>1, PokeTree, ~ReadErrors
    <3> QED BY <3>2 DEF PokeMove
  <2>5. Store!Overwrite(d, n, k, p)
    BY <2>4 DEF Store!Overwrite
  <2>6. n \in Names /\ k \in DOMAIN (IF T[d][n].kind = "file" THEN T[d][n].content ELSE <<>>)
    BY <1>1, <2>4
  <2> QED BY <2>2, <2>4, <2>5, <2>6 DEF Store!Next
<1> QED BY <1>1, <1>2, <1>3

LEMMA StoreInit == Init => Store!Init
<1> SUFFICES ASSUME Init PROVE Tree = [d \in {Root} |-> Nothing]
  BY StoreWords DEF Store!Init
<1>1. disk[Root] = EmptyDir /\ \A d \in Clusters : disk[d] \in Payloads
  BY Volume DEF Init, Blank
<1>2. DirsOf(disk) = {Root}
  <2>1. \A s \in Slots : disk[Root][s].kind = "none"
    BY <1>1, NoEntryFact DEF EmptyDir
  <2>2. {Root} \in SUBSET (Clusters \cup {Root}) /\ DirsClosed(disk, {Root})
    BY <2>1 DEF DirsClosed, FirstsIn
  <2> QED BY <2>2, DirsUp DEF DirsOf
<1>3. TreeOf(fat[1], disk)[Root] = Nothing /\ DOMAIN TreeOf(fat[1], disk) = {Root}
  BY <1>1, <1>2, EmptyTree DEF TreeOf
<1>4. Tree = TreeOf(fat[1], disk)
  BY InitFact, TreeIs
<1>5. TreeOf(fat[1], disk) = [d \in {Root} |-> TreeOf(fat[1], disk)[d]]
  BY <1>2 DEF TreeOf
<1> QED BY <1>3, <1>4, <1>5

LEMMA StoreStep ==
  ASSUME ~ReadErrors, IInv, NamesOnce(disk), Honest, [Next]_vars, NEW U, U = TreeOf(fat'[1], disk'), Tree' = U
  PROVE  [Store!Next]_Tree
<1>1. CASE QuietStep
  <2>1. Tree = TreeOf(fat[1], disk) /\ Sound(fat[1], disk)
    BY TreeIs DEF IInv
  <2>2. U = TreeOf(fat[1], disk)
    BY <1>1, <2>1, QuietTree DEF QuietStep
  <2> QED BY <2>1, <2>2
<1>2. CASE WriteEntry
  BY <1>2, StoreEntry
<1>3. CASE Poke
  BY <1>3, StorePoke
<1> QED BY <1>1, <1>2, <1>3, QuietOr

(* The driver implements the atomic store: with a disk whose sectors can   *)
(* be read, whatever is cut short or refused, every sector write leaves    *)
(* the tree a caller sees alone or makes the whole change of one call, and *)
(* so does the repair at the next mount.                                   *)
THEOREM StoreIsAtomic == ASSUME ~ReadErrors PROVE Spec => AtomicStore
<1>1. IInv => Tree = TreeOf(fat[1], disk)
  BY TreeIs
<1>2. IInv' => (Tree = TreeOf(fat[1], disk))'
  BY <1>1, PTL
<1>3. IInv /\ IInv' /\ NamesOnce(disk) /\ Honest /\ [Next]_vars => [Store!Next]_Tree
  <2> SUFFICES ASSUME IInv, IInv', NamesOnce(disk), Honest, [Next]_vars PROVE [Store!Next]_Tree
    OBVIOUS
  <2> PICK U : U = TreeOf(fat'[1], disk')
    OBVIOUS
  <2>1. Tree' = U
    BY <1>2
  <2> QED BY <2>1, StoreStep
<1>4. Init => NamesOnce(disk) /\ Honest
  BY NamesInit, NoOpFact DEF Init, Honest, HonestIs
<1>5. IInv /\ NamesOnce(disk) /\ [Next]_vars => NamesOnce(disk)'
  BY NamesStep
<1>6. IInv /\ NamesOnce(disk) /\ Honest /\ [Next]_vars => Honest'
  BY HonestStep
<1> QED BY <1>3, <1>4, <1>5, <1>6, StoreInit, Invariant, PTL DEF Spec, AtomicStore, Store!Spec
=============================================================================
