----------------------------- MODULE Allocator -----------------------------
(***************************************************************************)
(* What the kernel's memory promises those who ask it for some, with no    *)
(* frames, block lists or page tables in it: kmalloc and kfree, the stack  *)
(* and the page a program starts with, and the pages of SYS_BRK.  Words    *)
(* given out are nobody else's until they are given back, a call that      *)
(* fails gives and takes nothing, and a program's pages change at the top  *)
(* only.  KernelMemory.tla is the kernel's code and is shown to implement  *)
(* this module.                                                            *)
(***************************************************************************)
EXTENDS Integers

CONSTANTS Kernel,     \* who asks with kmalloc
          Tasks,      \* the programs
          StackSize,  \* words of a program's kernel stack
          PageSize,   \* words of a page
          MaxPages,   \* pages a program can grow to
          Low, High   \* memory to give out: words Low..High - 1

VARIABLE given        \* who has what, as which of its pages, from which word on, how large

Of(who) == {x \in given : x.who = who}
PagesOf(t) == {x \in Of(t) : x.what = "page"}
Apart(x, y) == x.at + x.size <= y.at \/ y.at + y.size <= x.at

Init == given = {}

(* What is new lies in memory and apart from all that is given out then. *)
New == given' \ given
Lend ==
  /\ given \subseteq given'
  /\ \A x \in New : /\ Low <= x.at /\ x.at + x.size <= High
                    /\ \A y \in given' : y # x => Apart(x, y)

Allocate ==
  /\ Lend
  /\ \E x \in New : New = {x} /\ x.who = Kernel /\ x.what = "block" /\ x.size > 0
Free == \E x \in Of(Kernel) : given' = given \ {x}

Start(t) ==
  /\ Of(t) = {} /\ Lend
  /\ \E x, y \in New : /\ New = {x, y} /\ x.who = t /\ y.who = t
                       /\ x.what = "stack" /\ x.size = StackSize
                       /\ y.what = "own" /\ y.size = PageSize
End(t) == given' = given \ Of(t)

(* Pages are numbered from 0 without a gap; the new ones follow them. *)
Grow(t) ==
  /\ Of(t) # {} /\ Lend
  /\ \A x \in New : /\ x.who = t /\ x.what = "page" /\ x.size = PageSize
                    /\ \A y \in New : y.n = x.n => y = x
  /\ \E have, want \in 0..MaxPages : /\ {x.n : x \in PagesOf(t)} = 0..have - 1
                                     /\ {x.n : x \in New} = have..want - 1
Shrink(t) ==
  \E want \in 0..MaxPages : given' = given \ {x \in PagesOf(t) : x.n >= want}

Next ==
  \/ Allocate \/ Free
  \/ \E t \in Tasks : Start(t) \/ Grow(t) \/ Shrink(t) \/ End(t)

Spec == Init /\ [][Next]_given
=============================================================================
