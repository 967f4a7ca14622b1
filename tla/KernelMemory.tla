---------------------------- MODULE KernelMemory ----------------------------
(***************************************************************************)
(* Who owns which memory: the frame bitmap (kernel/pmm.c), the kernel heap *)
(* that grows over frames the bitmap hands out (kernel/kheap.c), the page  *)
(* directory of each task (kernel/task.c, kernel/paging.c) and the task    *)
(* heap of SYS_BRK (kernel/brk.c).                                         *)
(*                                                                         *)
(* kmalloc and kfree, a window launch, a system call and task_exit_with    *)
(* all run with interrupts off: each is one step.  Memory is counted in    *)
(* words, a frame is FrameWords of them, word w lies in frame              *)
(* w \div FrameWords; 0 is the null pointer and the failed allocation.     *)
(***************************************************************************)
EXTENDS Integers, Sequences, FiniteSets, SequencesExt

CONSTANTS
  NFrames,      \* frames of memory, numbered from 1
  KernelFrames, \* the first of them, under the kernel image
  FrameWords,   \* words in a frame
  Header,       \* words of a struct block
  MinSplit,     \* MIN_SPLIT_PAYLOAD
  RegionFrames, \* frames one page directory entry maps
  MaxExtra,     \* MAX_EXTRA_TABLES
  NTasks,       \* task slots, slot 0 (the desktop) left out
  StackSize,    \* words of a kernel stack
  Sizes,        \* other sizes asked of kmalloc
  MaxHeld,      \* bound: blocks the rest of the kernel holds
  BrkMax,       \* JT_BRK_MAX_PAGES
  TablePages,   \* pages one page table of the task heap maps
  Floor,        \* BRK_FLOOR_FRAMES
  MaxLive       \* bound on live_pages, which refused calls can push up for ever

Frames == 1..NFrames
Tasks == 1..NTasks
RegionOf(f) == f \div RegionFrames
Regions == {RegionOf(f) : f \in Frames}
BaseMap == {0}                        \* what the kernel maps from boot
BrkTables == 0..((BrkMax - 1) \div TablePages)

ASSUME MemoryAssumption ==
  /\ {NFrames, FrameWords, Header, MinSplit, RegionFrames, NTasks, StackSize, BrkMax, TablePages} \subseteq Nat \ {0}
  /\ {KernelFrames, MaxExtra, MaxHeld, MaxLive} \subseteq Nat /\ Sizes \subseteq Nat \ {0}
  /\ KernelFrames <= NFrames
  /\ Header + MinSplit <= FrameWords
  /\ Floor \in Nat /\ Floor >= Cardinality(BrkTables)

VARIABLES
  mem,        \* bitmap: frames in use; pdes: regions the kernel maps; seen[t]: those in t's directory
  heap,       \* head: the block list, from heap_head on; next, limit: heap_next, heap_limit
  held,       \* the blocks callers of kmalloc hold, kernel stacks left out
  tasks,      \* tasks[t]: its stack, directory frames and page tables
  brk_top,    \* brk_top[t]: pages, or NoTop
  brk_pages,  \* brk_pages[t]
  live_pages

vars == <<mem, heap, held, tasks, brk_top, brk_pages, live_pages>>

NoTop == -1
NoTask == [stack |-> 0, dir |-> 0, table |-> 0, page |-> 0, window |-> 0, killed |-> FALSE,
           ptab |-> [i \in BrkTables |-> 0], pte |-> [v \in 0..BrkMax - 1 |-> 0]]
Used(t) == tasks[t].dir # 0
-----------------------------------------------------------------------------
(* pmm.c: the lowest free frame, or 0. *)
FreeFrames(m) == Frames \ m.bitmap
Grab(m) ==
  LET f == Min(FreeFrames(m))
  IN  IF FreeFrames(m) = {} THEN [mem |-> m, frame |-> 0]
      ELSE [mem |-> [m EXCEPT !.bitmap = @ \cup {f}], frame |-> f]
GiveBack(m, fs) == [m EXCEPT !.bitmap = @ \ fs]

(* paging_map_region, and paging_sync_task_dirs to every live directory.   *)
CanMap(m, f) == RegionOf(f) \in m.pdes \/ Cardinality(m.pdes \ BaseMap) < MaxExtra
MapRegion(m, f) ==
  IF RegionOf(f) \in m.pdes THEN m
  ELSE [m EXCEPT !.pdes = @ \cup {RegionOf(f)},
                 !.seen = [t \in Tasks |-> IF @[t] = {} THEN {} ELSE @[t] \cup {RegionOf(f)}]]

(* A frame the kernel can write: given back when no page table is left to map it. *)
GrabMapped(m) ==
  LET g == Grab(m)
  IN  IF g.frame = 0 THEN g
      ELSE IF CanMap(g.mem, g.frame) THEN [g EXCEPT !.mem = MapRegion(g.mem, g.frame)]
      ELSE [mem |-> GiveBack(g.mem, {g.frame}), frame |-> 0]
-----------------------------------------------------------------------------
(* kheap.c.  A struct block: its header at word "at", "size" words after it. *)
Block(at, size, free) == [at |-> at, size |-> size, free |-> free]
End(b) == b.at + Header + b.size

(* One turn of grow_heap's loop, which got a frame: a frame elsewhere parks *)
(* what is left of the region before it and opens a new one.               *)
Parked_Mut(h) == <<>>       \* mutated: the tail is dropped
Parked(h) ==
  IF h.limit - h.next >= Header + MinSplit
  THEN <<Block(h.next, h.limit - h.next - Header, TRUE)>> ELSE <<>>
Extend_Mut(h, frame) ==     \* mutated: the frame taken for the next one, as before 0.61.0
  IF h.limit = 0 THEN [h EXCEPT !.next = frame * FrameWords, !.limit = (frame + 1) * FrameWords]
  ELSE [h EXCEPT !.limit = @ + FrameWords]
Extend(h, frame) ==
  LET start == frame * FrameWords
  IN  IF start = h.limit THEN [h EXCEPT !.limit = start + FrameWords]
      ELSE [head |-> Parked(h) \o h.head, next |-> start, limit |-> start + FrameWords]

GrowTurn(s, need) ==
  LET g == GrabMapped(s.mem)
  IN  IF ~s.ok \/ s.heap.next + need <= s.heap.limit THEN s
      ELSE IF g.frame = 0 THEN [mem |-> g.mem, heap |-> s.heap, ok |-> FALSE]
      ELSE [mem |-> g.mem, heap |-> Extend(s.heap, g.frame), ok |-> TRUE]
GrowHeap(m, h, need) ==
  LET s[i \in 0..NFrames + 1] ==
        IF i = 0 THEN [mem |-> m, heap |-> h, ok |-> TRUE] ELSE GrowTurn(s[i - 1], need)
  IN  s[NFrames + 1]

(* First fit; the tail of a block that is too large goes before it. *)
Fits(b, size) == b.free /\ b.size >= size
Split_Mut(b, size) ==       \* mutated: the header of the tail is not counted
  IF b.size >= size + MinSplit
  THEN <<Block(b.at + Header + size, b.size - size, TRUE), Block(b.at, size, FALSE)>>
  ELSE <<[b EXCEPT !.free = FALSE]>>
Split(b, size) ==
  IF b.size >= size + Header + MinSplit
  THEN <<Block(b.at + Header + size, b.size - size - Header, TRUE), Block(b.at, size, FALSE)>>
  ELSE <<[b EXCEPT !.free = FALSE]>>
Need_Mut(size) == size      \* mutated: no room for the header
Need(size) == size + Header
Kmalloc(m, h, size) ==
  LET i == SelectInSeq(h.head, LAMBDA b : Fits(b, size))
      g == GrowHeap(m, h, Need(size))
  IN  IF i # 0
      THEN [mem |-> m, at |-> h.head[i].at,
            heap |-> [h EXCEPT !.head = SubSeq(@, 1, i - 1) \o Split(@[i], size) \o SubSeq(@, i + 1, Len(@))]]
      ELSE IF ~g.ok THEN [mem |-> g.mem, at |-> 0, heap |-> g.heap]
      ELSE [mem |-> g.mem, at |-> g.heap.next,
            heap |-> [g.heap EXCEPT !.head = <<Block(g.heap.next, size, FALSE)>> \o @, !.next = @ + size + Header]]

(* kfree: one walk merges list neighbours that are free and adjacent. *)
Mergeable(high, low) == high.free /\ low.free /\ End(low) = high.at
Walk(done, low) ==
  IF done # <<>> /\ Mergeable(Last(done), low)
  THEN Append(Front(done), [low EXCEPT !.size = @ + Header + Last(done).size])
  ELSE Append(done, low)
Coalesce(list) ==
  LET done[i \in 0..Len(list)] == IF i = 0 THEN <<>> ELSE Walk(done[i - 1], list[i])
  IN  done[Len(list)]
Kfree(h, at) ==
  [h EXCEPT !.head = Coalesce([i \in DOMAIN @ |-> IF @[i].at = at THEN [@[i] EXCEPT !.free = TRUE] ELSE @[i]])]

(* The drivers and the desktop allocate and free. *)
Alloc(size) ==
  LET k == Kmalloc(mem, heap, size)
  IN  /\ Cardinality(held) < MaxHeld
      /\ mem' = k.mem /\ heap' = k.heap
      /\ held' = IF k.at = 0 THEN held ELSE held \cup {[at |-> k.at, size |-> size]}
      /\ UNCHANGED <<tasks, brk_top, brk_pages, live_pages>>
Free(b) ==
  /\ heap' = Kfree(heap, b.at)
  /\ held' = held \ {b}
  /\ UNCHANGED <<mem, tasks, brk_top, brk_pages, live_pages>>
-----------------------------------------------------------------------------
(* paging_new_task_directory: a directory, a page table and a private page; *)
(* the kernel's entries are copied once the table can be written.          *)
Copied_Mut(d, t) == d.mem.pdes      \* mutated: copied before the table's frame is mapped
Copied(d, t) == t.mem.pdes
NoDirectory(m) == [mem |-> m, dir |-> 0, table |-> 0, page |-> 0, copied |-> {}]
NewDirectory(m) ==
  LET d == GrabMapped(m)
      t == GrabMapped(d.mem)
      p == Grab(t.mem)
  IN  IF d.frame = 0 THEN NoDirectory(d.mem)
      ELSE IF t.frame = 0 THEN NoDirectory(GiveBack(t.mem, {d.frame}))
      ELSE IF p.frame = 0 THEN NoDirectory(GiveBack(p.mem, {d.frame, t.frame}))
      ELSE [mem |-> p.mem, dir |-> d.frame, table |-> t.frame, page |-> p.frame, copied |-> Copied(d, t)]

(* exec_user_window: task_create_frame takes the first free slot, a stack  *)
(* and a directory; then paging_task_map_private gives the directory a     *)
(* table for the program's window, and a task left without one is killed.  *)
FirstFree(t) == ~Used(t) /\ \A u \in 1..t - 1 : Used(u)
Launch(t) ==
  LET s == Kmalloc(mem, heap, StackSize)
      d == NewDirectory(s.mem)
      born == [d.mem EXCEPT !.seen[t] = d.copied]
      w == GrabMapped(born)
  IN  /\ FirstFree(t)
      /\ \/ s.at = 0 /\ mem' = s.mem /\ heap' = s.heap /\ UNCHANGED tasks
         \/ /\ s.at # 0 /\ d.dir = 0
            /\ mem' = d.mem /\ heap' = Kfree(s.heap, s.at) /\ UNCHANGED tasks
         \/ /\ s.at # 0 /\ d.dir # 0
            /\ mem' = w.mem /\ heap' = s.heap
            /\ tasks' = [tasks EXCEPT ![t] = [NoTask EXCEPT !.stack = s.at, !.dir = d.dir, !.table = d.table,
                           !.page = d.page, !.window = w.frame, !.killed = w.frame = 0]]
      /\ UNCHANGED <<held, brk_top, brk_pages, live_pages>>
-----------------------------------------------------------------------------
(* brk.c.  What one call works on. *)
BrkState(t) == [mem |-> mem, ptab |-> tasks[t].ptab, pte |-> tasks[t].pte, mapped |-> 0, ok |-> TRUE]
TableOf(v) == v \div TablePages

MapOne(s, v) ==
  LET t == IF s.ptab[TableOf(v)] # 0 THEN [mem |-> s.mem, frame |-> s.ptab[TableOf(v)]] ELSE GrabMapped(s.mem)
      p == GrabMapped(t.mem)
  IN  IF t.frame = 0 THEN [s EXCEPT !.mem = t.mem, !.ok = FALSE]
      ELSE IF p.frame = 0 THEN [s EXCEPT !.mem = p.mem, !.ptab[TableOf(v)] = t.frame, !.ok = FALSE]
      ELSE [s EXCEPT !.mem = p.mem, !.ptab[TableOf(v)] = t.frame, !.pte[v] = p.frame, !.mapped = @ + 1]
Unmap_Mut(s, from, to) ==   \* mutated: the frames go back, the entries stay
  [s EXCEPT !.mem = GiveBack(@, {s.pte[v] : v \in from..to - 1} \ {0})]
Unmap_Late(s, from, to) ==  \* mutated: the lowest of the pages stays
  [s EXCEPT !.mem = GiveBack(@, {s.pte[v] : v \in from + 1..to - 1} \ {0}),
            !.pte = [v \in DOMAIN @ |-> IF v \in from + 1..to - 1 THEN 0 ELSE @[v]]]
Unmap(s, from, to) ==
  [s EXCEPT !.mem = GiveBack(@, {s.pte[v] : v \in from..to - 1} \ {0}),
            !.pte = [v \in DOMAIN @ |-> IF v \in from..to - 1 THEN 0 ELSE @[v]]]

Store(t, s) ==
  /\ mem' = s.mem
  /\ tasks' = [tasks EXCEPT ![t].ptab = s.ptab, ![t].pte = s.pte]

(* brk_set to "want" pages.  A call that fails takes back what it mapped    *)
(* and counts the pages again, after an adjustment that clears brk_pages   *)
(* when more was asked than the task has.                                  *)
Have(t) == IF brk_top[t] = NoTop THEN 0 ELSE brk_top[t]
Count(t, pages, live) ==
  /\ live <= MaxLive
  /\ brk_pages' = [brk_pages EXCEPT ![t] = pages] /\ live_pages' = live
Adjusted(pages, need) == IF need > pages THEN 0 ELSE pages
Recount(t, need, mapped) ==
  Count(t, Have(t), live_pages + mapped - Adjusted(brk_pages[t] + mapped, need) + Have(t))

MapRun(s0, from, n) ==
  LET s[i \in 0..n] ==
        IF i = 0 THEN s0 ELSE IF s[i - 1].ok THEN MapOne(s[i - 1], from + i - 1) ELSE s[i - 1]
  IN  s[n]
Grow(t, want) ==
  LET have == Have(t)
      s == MapRun(BrkState(t), have, want - have)
  IN  /\ want > have /\ Cardinality(FreeFrames(mem)) >= want - have + Floor
      /\ \/ /\ s.ok /\ Store(t, s)
            /\ Count(t, brk_pages[t] + s.mapped, live_pages + s.mapped)
            /\ brk_top' = [brk_top EXCEPT ![t] = want]
         \/ /\ ~s.ok /\ Store(t, Unmap(s, have, have + s.mapped))
            /\ Recount(t, want - have, s.mapped)
            /\ UNCHANGED brk_top
Refused(t, want) ==
  /\ want > Have(t) /\ Cardinality(FreeFrames(mem)) < want - Have(t) + Floor
  /\ Recount(t, want - Have(t), 0)
  /\ UNCHANGED <<mem, tasks, brk_top>>
Shrink(t, want) ==
  /\ want <= Have(t)
  /\ Store(t, Unmap(BrkState(t), want, Have(t)))
  /\ Count(t, brk_pages[t] - (Have(t) - want), live_pages - (Have(t) - want))
  /\ brk_top' = [brk_top EXCEPT ![t] = want]

SetBrk(t, want) ==
  /\ Used(t) /\ ~tasks[t].killed
  /\ Grow(t, want) \/ Refused(t, want) \/ Shrink(t, want)
  /\ UNCHANGED <<heap, held>>

(* brk_release: nothing to do for a task without a top and without pages. *)
Idle(t) == brk_top[t] = NoTop /\ brk_pages[t] = 0
BrkFrames(t) == ({tasks[t].pte[v] : v \in 0..Have(t) - 1} \cup {tasks[t].ptab[i] : i \in BrkTables}) \ {0}
Released_Mut(t) == {tasks[t].pte[v] : v \in 0..Have(t) - 1} \ {0}    \* mutated: free_tables not called
Released(t) == IF Idle(t) THEN {} ELSE BrkFrames(t)
LiveAfter(t) == live_pages - (IF brk_pages[t] < live_pages THEN brk_pages[t] ELSE live_pages)

(* task_exit_with, syscall_release_task: the task heap, the kernel stack,  *)
(* the window's table and the directory.                                   *)
DirFrames(t) == {tasks[t].dir, tasks[t].table, tasks[t].page, tasks[t].window} \ {0}
Exit(t) ==
  /\ Used(t)
  /\ mem' = [GiveBack(mem, Released(t) \cup DirFrames(t)) EXCEPT !.seen[t] = {}]
  /\ heap' = Kfree(heap, tasks[t].stack)
  /\ tasks' = [tasks EXCEPT ![t] = NoTask]
  /\ brk_top' = [brk_top EXCEPT ![t] = NoTop]
  /\ Count(t, 0, LiveAfter(t))
  /\ UNCHANGED held
-----------------------------------------------------------------------------
Init ==
  /\ mem = [bitmap |-> 1..KernelFrames, pdes |-> BaseMap, seen |-> [t \in Tasks |-> {}]]
  /\ heap = [head |-> <<>>, next |-> 0, limit |-> 0]
  /\ held = {}
  /\ tasks = [t \in Tasks |-> NoTask]
  /\ brk_top = [t \in Tasks |-> NoTop]
  /\ brk_pages = [t \in Tasks |-> 0]
  /\ live_pages = 0

Next ==
  \/ \E size \in Sizes : Alloc(size)
  \/ \E b \in held : Free(b)
  \/ \E t \in Tasks : Launch(t) \/ Exit(t)
  \/ \E t \in Tasks, want \in 0..BrkMax : SetBrk(t, want)

Spec == Init /\ [][Next]_vars
-----------------------------------------------------------------------------
(* Words a block list covers, and who owns which frames. *)
Span(b) == b.at..End(b) - 1
Blocks == Range(heap.head)
HeapWords == (UNION {Span(b) : b \in Blocks}) \cup heap.next..heap.limit - 1
HeapFrames == {w \div FrameWords : w \in HeapWords}
WordsOf(f) == f * FrameWords..(f + 1) * FrameWords - 1
TaskFrames(t) == DirFrames(t) \cup BrkFrames(t)
Owned == 1..KernelFrames \cup HeapFrames \cup UNION {TaskFrames(t) : t \in Tasks}
Uses(t) ==      \* how often t's records name a frame
  Cardinality({x \in {"dir", "table", "page", "window"} : tasks[t][x] # 0})
    + Cardinality({i \in BrkTables : tasks[t].ptab[i] # 0}) + Cardinality({v \in 0..BrkMax - 1 : tasks[t].pte[v] # 0})

(* The state has its shape: the code's counters stay in their ranges and   *)
(* the unused tail of the heap is never negative.                          *)
TypeOK ==
  /\ mem.bitmap \subseteq Frames /\ mem.pdes \subseteq Regions \cup BaseMap
  /\ mem.seen \in [Tasks -> SUBSET mem.pdes]
  /\ \A b \in Blocks : b.at \in Nat /\ b.size \in Nat \ {0} /\ b.free \in BOOLEAN
  /\ heap.next \in 0..heap.limit
  /\ \A t \in Tasks : tasks[t].pte \in [0..BrkMax - 1 -> Frames \cup {0}]
  /\ brk_top \in [Tasks -> {NoTop} \cup 0..BrkMax] /\ brk_pages \in [Tasks -> 0..BrkMax]
  /\ live_pages \in 0..MaxLive

(* Two allocations never share a word: the list's blocks and the uncarved  *)
(* tail are disjoint, and the blocks in use are exactly those a caller or  *)
(* a task holds, each as large as it was asked (kmalloc, kfree, grow_heap  *)
(* over frames that need not follow each other).                           *)
Holds(at, size) == \E b \in Blocks : b.at = at /\ ~b.free /\ b.size >= size
HeapSound ==
  /\ \A i, j \in DOMAIN heap.head : i # j => Span(heap.head[i]) \cap Span(heap.head[j]) = {}
  /\ \A b \in Blocks : Span(b) \cap heap.next..heap.limit - 1 = {}
  /\ \A x \in held : Holds(x.at, x.size)
  /\ \A t \in Tasks : Used(t) => Holds(tasks[t].stack, StackSize)
  /\ Cardinality({b \in Blocks : ~b.free}) = Cardinality(held) + Cardinality({t \in Tasks : Used(t)})

(* A frame is the kernel image's, the heap's or one task's, for one        *)
(* purpose, and is not free while it is (pmm.c with all its callers).      *)
FramesApart ==
  /\ Owned \subseteq mem.bitmap
  /\ \A t \in Tasks : /\ TaskFrames(t) \cap (1..KernelFrames \cup HeapFrames) = {}
                      /\ Cardinality(TaskFrames(t)) = Uses(t)
                      /\ \A u \in Tasks \ {t} : TaskFrames(t) \cap TaskFrames(u) = {}

(* A frame taken has an owner when the call returns, also when the call    *)
(* failed half way, and one that loses its owner is free at once: no call  *)
(* leaks.  The one exception is in the code: brk_release returns early for *)
(* a task whose first SYS_BRK failed after it had made a page table.       *)
NeverGrew(t) == Used(t) /\ Idle(t)
FramesTracked ==
  /\ mem'.bitmap \ mem.bitmap \subseteq Owned'
  /\ \A f \in Owned \ Owned' : \/ f \notin mem'.bitmap
                               \/ \E t \in Tasks : NeverGrew(t) /\ ~Used(t)' /\ f \in Range(tasks[t].ptab)
NoFrameLost == [][FramesTracked]_vars

(* The heap loses no more than a few words of a frame where a region ends: *)
(* grow_heap parks whatever is large enough to be a block.                 *)
NoWordLost == \A f \in HeapFrames : Cardinality(WordsOf(f) \ HeapWords) < Header + MinSplit

(* The kernel half of every live directory equals the kernel's own, also   *)
(* for a directory made while its frames were being mapped (paging.c:127). *)
NoDrift == \A t \in Tasks : Used(t) => mem.seen[t] = mem.pdes

(* No frame and no word of the heap has two owners or is lost, and every   *)
(* address space sees the one kernel.                                      *)
MemorySound == TypeOK /\ HeapSound /\ FramesApart /\ NoDrift /\ NoWordLost

(* A task's count of pages is what its tables map, in one run from the     *)
(* base, whatever was refused (brk_set's recount).                         *)
PagesHonest ==
  \A t \in Tasks : /\ brk_pages[t] = Have(t)
                   /\ \A v \in 0..BrkMax - 1 : tasks[t].pte[v] # 0 <=> v < Have(t)
                   /\ \A v \in 0..Have(t) - 1 : tasks[t].ptab[TableOf(v)] # 0

(* brk.c: "recount from the tables so the counters stay honest". *)
LiveHonest == live_pages = SumFunction(brk_pages)
-----------------------------------------------------------------------------
(* What the kernel has given out, in the words of Allocator: the blocks    *)
(* behind their headers, a program's stack, its own page and its heap.     *)
Lease(who, what, n, at, size) == [who |-> who, what |-> what, n |-> n, at |-> at, size |-> size]
Leases(t, k) ==
  IF k.dir = 0 THEN {}
  ELSE {Lease(t, "stack", 0, k.stack + Header, StackSize), Lease(t, "own", 0, k.page * FrameWords, FrameWords)}
         \cup {Lease(t, "page", v, k.pte[v] * FrameWords, FrameWords) : v \in {v \in 0..BrkMax - 1 : k.pte[v] # 0}}
Given ==
  {Lease(0, "block", 0, b.at + Header, b.size) : b \in held} \cup UNION {Leases(t, tasks[t]) : t \in Tasks}
Memory ==
  INSTANCE Allocator WITH given <- Given, Kernel <- 0, PageSize <- FrameWords, MaxPages <- BrkMax,
                          Low <- (KernelFrames + 1) * FrameWords, High <- (NFrames + 1) * FrameWords

(* The refinement: behind the bitmap, the block list and the page tables,  *)
(* each call gives or takes back whole pieces of memory, apart from all    *)
(* others and kept in place until they are given back, also when kmalloc,  *)
(* a launch or SYS_BRK fails half way.                                     *)
GivesMemory == Memory!Spec
=============================================================================
