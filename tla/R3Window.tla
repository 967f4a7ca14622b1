------------------------------ MODULE R3Window ------------------------------
(***************************************************************************)
(* Ring-3 programs in windows: the r3wins table of kernel/syscall.c, the   *)
(* launcher and blit of kernel/ring3app.c, and the desktop's window list   *)
(* (kernel/desktop.c, kernel/multiwin.c).                                  *)
(*                                                                         *)
(* The desktop is task 0 and runs with interrupts on, so the timer can     *)
(* hand the processor to a program between any two of its accesses to a    *)
(* row.  A program's system call, its exit, and the desktop's cli sections *)
(* are one step each.  Pixels, titles and the windows' places are left     *)
(* out.                                                                    *)
(***************************************************************************)
EXTENDS Integers, FiniteSets, FiniteSetsExt, Sequences, SequencesExt

CONSTANTS
  NTasks,      \* task slots 1..NTasks for programs (TASK_SLOTS, less the desktop's)
  NRows,       \* rows of r3wins (R3WIN_MAX)
  MaxWindows,  \* windows on screen (GUI_MULTIWIN_MAX)
  NBlocks,     \* heap blocks of a window's size
  MaxRefused,  \* bound: launches that are refused half-way
  RingSize,    \* events a window's ring holds (R3WIN_RING)
  Widths, Heights,  \* of windows
  Exits,       \* programs exit, crash or are closed
  Resizes      \* the user changes a window's size

Tasks == 1..NTasks
Rows == 1..NRows
Blocks == 1..NBlocks
None == 0            \* no task, no row, no block
Sizes == Widths \X Heights
NoSize == <<0, 0>>

ASSUME WindowAssumption ==
  /\ NTasks \in Nat /\ NRows \in Nat /\ MaxWindows \in Nat /\ NBlocks \in Nat
  /\ RingSize \in Nat \ {0} /\ MaxRefused \in Nat
  /\ Widths \subseteq Nat \ {0} /\ Heights \subseteq Nat \ {0}
  /\ Exits \in BOOLEAN /\ Resizes \in BOOLEAN

VARIABLES
  used,      \* used[t]: slot t holds a live program
  killed,    \* killed[t]: task_kill retargeted it; it exits when next scheduled
  rows,      \* r3wins
  heap,      \* blocks kmalloc has given out
  windows,   \* gui_windows: the task and the wanted size of each
  look,      \* where the desktop is inside syscall_window_fb and the blit, and three
             \* things that happened since it began: look.gone, the program has exited;
             \* look.torn, it re-opened its window between the reading of r->w and that
             \* of r->fb; look.early, it did between the latter and the ask
  told,      \* told[t]: program t took a RESIZE event it has not answered
  wild,      \* kfree was given a block that was not allocated
  refused    \* images of launches that were refused after exec_user_window

vars == <<used, killed, rows, heap, windows, look, told, wild, refused>>

FreeRow == [task |-> None, fb |-> None, old |-> None, image |-> None,
            size |-> NoSize, want |-> NoSize, made |-> NoSize,   \* made: what fb was allocated for
            dirty |-> FALSE, ring |-> <<>>]
NoLook == [pc |-> "idle", task |-> None, row |-> None, blit |-> FALSE, size |-> NoSize,
           old |-> None, w |-> 0, h |-> 0, fb |-> None, made |-> NoSize,
           gone |-> FALSE, torn |-> FALSE, early |-> FALSE]

(* r3win_of *)
RowOf(t) ==
  LET mine == {r \in Rows : rows[r].task = t} IN IF mine = {} THEN None ELSE Min(mine)
FreeRows == {r \in Rows : rows[r].task = None}

(* kfree of the blocks bs: one freed a second time corrupts the heap, and  *)
(* so does one freed through a stale pointer, given out again or not.      *)
Freeing(bs, stale) == heap' = heap \ bs /\ wild' = (wild \/ stale \/ ~(bs \subseteq heap))
(* r3win_free_old has freed row r's old buffer and not yet forgotten it. *)
OldIsStale(r) ==
  look.pc = "forget" /\ r = look.row /\ rows[r].old = look.old /\ look.old # None
FreshBlocks_Mut(k) ==      \* mutated: first fit over the rows' buffers, images not counted
  LET seen == UNION {{rows[r].fb, rows[r].old} : r \in Rows}
  IN  {bs \in SUBSET (Blocks \ seen) : Cardinality(bs) = k
         /\ \A b \in bs, c \in Blocks \ seen : c < b => c \in bs}
FreshBlocks(k) == {bs \in SUBSET (Blocks \ heap) : Cardinality(bs) = k
                     /\ \A b \in bs, c \in Blocks \ heap : c < b => c \in bs}

(* syscall_window_push_event: a full ring drops the newest. *)
Pushed_Mut(ring, ev) == Append(ring, ev)      \* mutated: no room test
Pushed(ring, ev) == IF Len(ring) < RingSize THEN Append(ring, ev) ELSE ring
-----------------------------------------------------------------------------
(* The user, through the desktop. *)

(* gui_multiwin_open, ring3app_launch_window, syscall_window_register: the *)
(* task slot, the image, the row and its buffer, all with interrupts off.  *)
(* Without page tables for the image, or a row, a buffer or page tables    *)
(* for that, the program is killed and the open refused; the heap and the  *)
(* frames are everyone's, so that can happen at any time.  The first frees *)
(* the image; after the others nobody does.                                *)
FreeSlots_Mut == {t \in Tasks : ~used[t] \/ killed[t]}      \* mutated: a task on its way out
FreeSlots == {t \in Tasks : ~used[t]}
Open(size) ==
  /\ look.pc = "idle" /\ Len(windows) < MaxWindows /\ FreeSlots # {}
  /\ LET t == Min(FreeSlots)
     IN  \/ \E bs \in FreshBlocks(2) :
              /\ FreeRows # {}
              /\ heap' = heap \cup bs
              /\ rows' = [rows EXCEPT ![Min(FreeRows)] =
                            [FreeRow EXCEPT !.task = t, !.image = Min(bs), !.fb = Max(bs),
                                            !.size = size, !.want = size, !.made = size]]
              /\ windows' = Append(windows, [task |-> t, size |-> size])
              /\ used' = [used EXCEPT ![t] = TRUE]
              /\ UNCHANGED <<killed, refused>>
         \/ \E bs \in FreshBlocks(1) :
              /\ Cardinality(refused) < MaxRefused
              /\ \/ heap' = heap \cup bs /\ refused' = refused \cup bs
                 \/ UNCHANGED <<heap, refused>>
              /\ used' = [used EXCEPT ![t] = TRUE]
              /\ killed' = [killed EXCEPT ![t] = TRUE]
              /\ UNCHANGED <<rows, windows>>
  /\ UNCHANGED <<look, told, wild>>

(* The red dot, or a click, key or drag for the program. *)
Close(i) ==
  /\ Exits /\ look.pc = "idle"
  /\ killed' = [killed EXCEPT ![windows[i].task] = used[windows[i].task]]
  /\ UNCHANGED <<used, rows, heap, windows, look, told, wild, refused>>

Input(i, ev) ==
  /\ look.pc = "idle"
  /\ LET r == RowOf(windows[i].task)
     IN  /\ r # None
         /\ ev = "drag" => Len(rows[r].ring) < RingSize \div 2
         /\ rows' = [rows EXCEPT ![r].ring = Pushed(@, ev)]
  /\ UNCHANGED <<used, killed, heap, windows, look, told, wild, refused>>

Drag(i, size) ==
  /\ Resizes /\ look.pc = "idle"
  /\ windows' = [windows EXCEPT ![i].size = size]
  /\ UNCHANGED <<used, killed, rows, heap, look, told, wild, refused>>

(* The desktop's loop closes the window of a program that is gone. *)
Reap(i) ==
  /\ look.pc = "idle"
  /\ ~used[windows[i].task]
  /\ windows' = RemoveAt(windows, i)
  /\ UNCHANGED <<used, killed, rows, heap, look, told, wild, refused>>
-----------------------------------------------------------------------------
(* syscall_window_fb, called by the desktop's loop (blit FALSE) and by     *)
(* ring3app_window_blit (blit TRUE).                                       *)

Looking(pc) == look.pc = pc
LookAt(i, blit) ==
  /\ Looking("idle")
  /\ blit \/ used[windows[i].task]
  /\ LET r == RowOf(windows[i].task)
     IN  /\ r # None
         /\ look' = [NoLook EXCEPT !.pc = IF rows[r].old = None THEN "width" ELSE "zero",
                                   !.task = windows[i].task, !.row = r, !.blit = blit,
                                   !.size = windows[i].size, !.old = rows[r].old]
  /\ UNCHANGED <<used, killed, rows, heap, windows, told, wild, refused>>

(* r3win_free_old: zeroes the buffer, frees it, forgets it.  Whether       *)
(* old_raw is read again for the kfree is the compiler's choice.           *)
ZeroOld ==
  /\ Looking("zero")
  /\ look' = [look EXCEPT !.pc = "free"]
  /\ UNCHANGED <<used, killed, rows, heap, windows, told, wild, refused>>
FreeOld ==
  /\ Looking("free")
  /\ \E b \in {look.old, rows[look.row].old} :
       /\ Freeing({b} \ {None}, b \notin {None, rows[look.row].old})
       /\ look' = [look EXCEPT !.pc = "forget", !.old = b]
  /\ UNCHANGED <<used, killed, rows, windows, told, refused>>
ForgetOld ==
  /\ Looking("forget")
  /\ rows' = [rows EXCEPT ![look.row].old = None]
  /\ look' = [look EXCEPT !.pc = "width"]
  /\ UNCHANGED <<used, killed, heap, windows, told, wild, refused>>

(* *w = r->w; *h = r->h; *dirty = r->dirty; r->dirty = 0; return r->fb;    *)
(* each access apart.  A dirty row is one reason of many for a repaint,    *)
(* which may come at any time; only the blit uses the buffer.              *)
ReadWidth ==
  /\ Looking("width")
  /\ look' = [look EXCEPT !.pc = "height", !.w = rows[look.row].size[1]]
  /\ UNCHANGED <<used, killed, rows, heap, windows, told, wild, refused>>
ReadHeight ==
  /\ Looking("height")
  /\ look' = [look EXCEPT !.pc = "dirty", !.h = rows[look.row].size[2]]
  /\ UNCHANGED <<used, killed, rows, heap, windows, told, wild, refused>>
ReadDirty ==
  /\ Looking("dirty")
  /\ look' = [look EXCEPT !.pc = "clear"]
  /\ UNCHANGED <<used, killed, rows, heap, windows, told, wild, refused>>
ClearDirty ==
  /\ Looking("clear")
  /\ rows' = [rows EXCEPT ![look.row].dirty = FALSE]
  /\ look' = IF look.blit THEN [look EXCEPT !.pc = "fetch"] ELSE NoLook
  /\ UNCHANGED <<used, killed, heap, windows, told, wild, refused>>
Fetch ==
  /\ Looking("fetch")
  /\ look' = IF rows[look.row].fb # None
             THEN [look EXCEPT !.pc = "ask", !.fb = rows[look.row].fb, !.made = rows[look.row].made]
             ELSE NoLook
  /\ UNCHANGED <<used, killed, rows, heap, windows, told, wild, refused>>

(* syscall_window_request_size: a window of another size than its buffer   *)
(* asks the program for a new one, once, and only if the event fits.       *)
CanAsk_Mut(row, size) == size # row.want      \* mutated: a full ring not looked at
CanAsk(row, size) == size # row.want /\ Len(row.ring) < RingSize
Ask ==
  /\ Looking("ask")
  /\ LET r == RowOf(look.task)
         asks == look.size # <<look.w, look.h>> /\ r # None /\ CanAsk(rows[r], look.size)
     IN  rows' = IF asks THEN [rows EXCEPT ![r].want = look.size, ![r].ring = Pushed(@, "resize")]
                 ELSE rows
  /\ look' = [look EXCEPT !.pc = "blit"]
  /\ UNCHANGED <<used, killed, heap, windows, told, wild, refused>>

(* window_blit_logical: reads the buffer, w pixels a line, up to h lines.   *)
Blit ==
  /\ Looking("blit")
  /\ look' = NoLook
  /\ UNCHANGED <<used, killed, rows, heap, windows, told, wild, refused>>
-----------------------------------------------------------------------------
(* The programs. *)

Runs(t) == used[t] /\ ~killed[t] /\ RowOf(t) # None

(* JT_POLL_PRESENT of SYS_WINDOW_POLL, with a frame in the buffer. *)
Present(t) ==
  /\ Runs(t)
  /\ rows' = [rows EXCEPT ![RowOf(t)].dirty = TRUE]
  /\ UNCHANGED <<used, killed, heap, windows, look, told, wild, refused>>

(* SYS_WINDOW_POLL takes the oldest event. *)
Poll(t) ==
  /\ Runs(t)
  /\ LET r == RowOf(t)
     IN  /\ rows[r].ring # <<>>
         /\ told' = [told EXCEPT ![t] = @ \/ Head(rows[r].ring) = "resize"]
         /\ rows' = [rows EXCEPT ![r].ring = Tail(@)]
  /\ UNCHANGED <<used, killed, heap, windows, look, wild, refused>>

(* SYS_WINDOW_OPEN on an open window: r3win_resize.  A swap frees the      *)
(* buffer an earlier one replaced, if the desktop has not; the one it      *)
(* replaces itself is kept.  Without a block all stays as it is.           *)
Sizing == look.pc \in {"height", "dirty", "clear", "fetch"}
Outdated_Mut(row) == {row.fb}      \* mutated: the replaced buffer freed inside the swap
Outdated(row) == {row.old} \ {None}
NewSize_Mut(row) == row.size      \* mutated: r->w and r->h not set
NewSize(row) == row.want
Reopen(t) ==
  /\ Runs(t)
  /\ LET r == RowOf(t)
         row == rows[r]
     IN  /\ row.want # row.size
         /\ \E bs \in FreshBlocks(1) :
              /\ heap' = (heap \cup bs) \ Outdated(row)
              /\ wild' = (wild \/ OldIsStale(r) \/ ~(Outdated(row) \subseteq heap))
              /\ rows' = [rows EXCEPT ![r].old = row.fb, ![r].fb = Max(bs),
                                      ![r].size = NewSize(row), ![r].made = row.want,
                                      ![r].dirty = TRUE]
  /\ told' = [told EXCEPT ![t] = FALSE]
  /\ look' = [look EXCEPT !.early = @ \/ (look.pc = "ask" /\ look.task = t),
                          !.torn = @ \/ (Sizing /\ look.task = t)]
  /\ UNCHANGED <<used, killed, windows, refused>>

(* SYS_EXIT, a fault, or the first turn after task_kill: task_exit_with,   *)
(* syscall_release_task, r3win_release.                                    *)
Released_Mut(row) == {row.old, row.fb} \ {None}      \* mutated: the program's image forgotten
Released(row) == {row.old, row.fb, row.image} \ {None}
Exit(t) ==
  /\ used[t] /\ (Exits \/ killed[t])
  /\ used' = [used EXCEPT ![t] = FALSE]
  /\ killed' = [killed EXCEPT ![t] = FALSE]
  /\ told' = [told EXCEPT ![t] = FALSE]
  /\ IF RowOf(t) = None THEN UNCHANGED <<rows, heap, wild>>
     ELSE /\ Freeing(Released(rows[RowOf(t)]), OldIsStale(RowOf(t)))
          /\ rows' = [rows EXCEPT ![RowOf(t)] = FreeRow]
  /\ look' = [look EXCEPT !.gone = @ \/ look.task = t]
  /\ UNCHANGED <<windows, refused>>
-----------------------------------------------------------------------------
Init ==
  /\ used = [t \in Tasks |-> FALSE] /\ killed = [t \in Tasks |-> FALSE]
  /\ rows = [r \in Rows |-> FreeRow]
  /\ heap = {} /\ windows = <<>> /\ look = NoLook
  /\ told = [t \in Tasks |-> FALSE]
  /\ wild = FALSE /\ refused = {}

Desktop ==
  \/ ZeroOld \/ FreeOld \/ ForgetOld \/ ReadWidth \/ ReadHeight \/ ReadDirty \/ ClearDirty \/ Fetch \/ Ask \/ Blit
  \/ \E i \in DOMAIN windows, blit \in BOOLEAN : LookAt(i, blit)
  \/ \E i \in DOMAIN windows : Reap(i)

User ==
  \/ \E size \in Sizes : Open(size)
  \/ \E i \in DOMAIN windows : Close(i)
  \/ \E i \in DOMAIN windows, ev \in {"click", "drag"} : Input(i, ev)
  \/ \E i \in DOMAIN windows, size \in Sizes : Drag(i, size)

Program(t) == Present(t) \/ Poll(t) \/ Reopen(t) \/ Exit(t)

Next == Desktop \/ User \/ \E t \in Tasks : Program(t)

Spec == Init /\ [][Next]_vars
-----------------------------------------------------------------------------
(* Correctness. *)

LookPCs == {"idle", "zero", "free", "forget", "width", "height", "dirty", "clear", "fetch", "ask", "blit"}
RowType == [task: Tasks \cup {None}, fb: Blocks \cup {None}, old: Blocks \cup {None},
            image: Blocks \cup {None}, size: Sizes \cup {NoSize}, want: Sizes \cup {NoSize},
            made: Sizes \cup {NoSize}, dirty: BOOLEAN, ring: UNION {[1..k -> {"click", "drag", "resize"}] : k \in 0..RingSize}]
(* Every variable stays in its range; no ring holds more than R3WIN_RING.  *)
TypeOK ==
  /\ used \in [Tasks -> BOOLEAN] /\ killed \in [Tasks -> BOOLEAN]
  /\ rows \in [Rows -> RowType]
  /\ heap \subseteq Blocks
  /\ Len(windows) <= MaxWindows
  /\ \A i \in DOMAIN windows : windows[i] \in [task: Tasks, size: Sizes]
  /\ look.row \in Rows \cup {None} /\ look.task \in Tasks \cup {None}
  /\ look.fb \in Blocks \cup {None} /\ look.old \in Blocks \cup {None}
  /\ look.pc \in LookPCs
  /\ told \in [Tasks -> BOOLEAN]
  /\ wild \in BOOLEAN /\ refused \subseteq Blocks

(* A row belongs to one live program: a slot that is used again finds no   *)
(* row, buffer or event of the program before.                             *)
RowsOwned ==
  \A r \in Rows : rows[r].task # None =>
    /\ used[rows[r].task]
    /\ \A q \in Rows : rows[q].task = rows[r].task => q = r

(* The places of the table that hold a block; the old buffer r3win_free_old *)
(* has freed and is about to forget is not one.                            *)
BlockAt(x) == rows[x[1]][x[2]]
Held ==
  {x \in Rows \X {"fb", "old", "image"} :
     BlockAt(x) # None /\ ~(x[2] = "old" /\ OldIsStale(x[1]))}

(* No block is in two places, and every block the table refers to is       *)
(* allocated (until a double free, if there is one).                       *)
BlocksApart ==
  ~wild => /\ \A x, y \in Held : BlockAt(x) = BlockAt(y) => x = y
           /\ \A x \in Held : BlockAt(x) \in heap

(* Every block given out for a window is in the table: none is lost when a *)
(* window is resized or closed, whatever its program and the desktop are   *)
(* doing.  Only the image of a refused launch is.                          *)
NoLeak == ~wild => heap = {BlockAt(x) : x \in Held} \cup refused

(* The table, the slots and the heap fit together, whatever ends when: a   *)
(* row has one live program, a block one place, and none is lost.          *)
WindowsSound == TypeOK /\ RowsOwned /\ BlocksApart /\ NoLeak

(* While its program lives, a blit that was already reading a buffer never *)
(* sees freed memory, whenever the window is re-opened meanwhile           *)
(* (syscall.c:616-618): unless the program answered the ask before this    *)
(* one after the blit had fetched the buffer, when its answer to this one  *)
(* frees that (and what a double free does is another matter).  And it     *)
(* reads the buffer by the size that was made for: unless the program      *)
(* re-opened its window while the three were being read.                   *)
BlitLive ==
  look.pc \in {"ask", "blit"} /\ ~look.gone /\ ~look.early /\ ~wild => look.fb \in heap
BlitSized ==
  look.pc \in {"ask", "blit"} /\ ~look.gone /\ ~look.torn => <<look.w, look.h>> = look.made
BlitSafe == BlitLive /\ BlitSized

(* kfree is never given a block twice: the desktop and the program never   *)
(* both free the buffer a resize replaced.                                 *)
FreedOnce == ~wild

(* A resize that was asked for is not lost: until the program answers it   *)
(* the event waits in its ring or the program has taken it.                *)
ResizeNotLost ==
  \A r \in Rows : rows[r].want # rows[r].size =>
    told[rows[r].task] \/ \E k \in DOMAIN rows[r].ring : rows[r].ring[k] = "resize"
=============================================================================
