# Joshua Tree: TLA+ models, checks and proofs

Joshua Tree is a small operating system written in C: a 32-bit x86 kernel with
a desktop and ring-3 programs (`boot/`, `kernel/`, `drivers/`, `lib/`, `user/`)
and a 64-bit ARM port (`arch/arm64/`) that shares some of the drivers. This
directory holds TLA+ modules for the parts of it whose correctness depends on
the order of steps: what the power, the timer, a failing disk or a killed
program can come between.

Every definition is a translation of the C code; `PROJECT.json` ("map") gives
the file and lines each one stands for.

## 1. Inventory

| Part | State | Operations | What is hard | What makes it correct |
|---|---|---|---|---|
| FAT driver, `drivers/fat.c`, called with interrupts off by `drivers/vfs.c` | FAT copies, folders, data, FSInfo on disk; allocation hint, read cursor, `fsinfo_done` in memory | `fat_write_file`, `fat_replace_file`, `fat_write_at`, `fat_delete`, `fat_mkdir`, `fat_rmdir`, `fat_read_at`, `fat_mount` with `fat_recover` | power cut between two sector writes, failing reads and writes in mid-call, a full disk, stale cursor | no dangling or shared cluster, all-or-nothing calls, copies equal, no cluster lost, honest results |
| HTTP client, `drivers/http.c`, and its gate in `kernel/syscall.c` | `in_flight`, `last_status`, `post_bearer`; `http_busy`, the bounce buffers | `SYS_HTTP_GET`, `SYS_HTTP_POST`, the desktop's own fetches | preemption between a test and its set, a kill in mid-fetch, waits that race | one connection at a time, each caller its own answer, nothing held for ever |
| Windows of ring-3 programs, `kernel/syscall.c`, `ring3app.c`, `multiwin.c`, `desktop.c` | `r3wins`, window list, heap blocks | open, re-open (resize), poll, present, exit; push event, look, blit, reap, close | the desktop reads rows with interrupts on while programs change them; slots are used again | rows owned, blocks freed once, resize asks not lost |
| Tasks, `kernel/task.c` | `tasks[6]`, `last_exit_code` | create, schedule, kill, exit | kill takes effect later; one exit code for all | a slot is free only when all it held is released |
| Kernel heap and frames, `kernel/kheap.c`, `kernel/pmm.c` | block list, frame bitmap | `kmalloc`, `kfree`, `grow_heap`, `kheap_check` | splitting and joining, frames that come in any order, frames running out half way, no locks in `pmm.c` | blocks and frames have one owner, nothing lost, the check right about a sound heap |
| Program heap and page tables, `kernel/brk.c`, `kernel/paging.c` | per-task top and page count, directories | `SYS_BRK`, release, task directory make and free, map and unmap | taking back what was mapped when frames or page tables run out, kernel entries copied to live directories | frames conserved, counters equal to the tables |
| Files of programs, `kernel/syscall.c` | `fds[task][fd]` snapshots, folder cursor | open, read, write, seek, close, unlink, mkdir, readdir; the closes of an exit | each open is a snapshot of the whole file, written back at close; several of one file; backends that keep part of a write | a close that answers 0 has written, an append takes nothing away, a reader never writes, the last close wins |
| VFS, RAM filesystem, trash: `drivers/vfs.c`, `ramfs.c`, `trash.c` | node table; trash slots, both in memory | as the FAT's; put, restore | a name is cut to the slot's length, a full trash refuses | a file is in the folder or in the trash |
| Network stack, `drivers/net.c`, `dns.h` | ARP cache, DHCP lease, one TCP connection, stream | `tcp_get_timeout`, `tcp_open`, `tcp_write`, `tcp_read`, `tcp_close`; `net_init`, resolve | lost, repeated, reordered and stale segments; nothing is ever sent again from this side; the end of a reply, or of the buffer, inside a segment | bytes in order, once; no false success; nothing acknowledged that is not here; a fetch ends |
| Self-update of the ARM64 port, `arch/arm64/update.c` | the staged files, `TRYBOOT.TXT`, `UPDATE.VER`, `KERNEL8.IMG`; the running version, retries | install, boot check, tick (commit), drop | power between any two file calls, refused writes and deletes, a kernel that does not start, an install over leftovers | what boots unasked has run before, no trial without its marker, every update decided |
| Home snapshots of the ARM64 port, `arch/arm64/snap.c` | `~/SNAP/<n>/` and its `_DONE` | take with prune, restore, pack, unpack | power between any two file calls, refused writes, listings that end at 24 entries | what counts as a snapshot is one, the newest are kept, restore and unpack lose nothing |
| Input: `kernel/irq.c`, `drivers/mouse.c`, `vmmouse.c` | scancode ring, packet state | IRQ push, pop | interrupt against reader, full ring | order kept, no torn packet |
| Sound, `drivers/sb16.c`, `speak.c` | DMA halves | IRQ, refill | refill racing the DMA | no half played twice |
| Disks and cards: `ata.c`, `blockdev.c`, `ramdisk.c`, `ne2k.c`, `rtl8139.c`, `pci.c` | device registers | sector and packet transfers | device behaviour | the contract the layers above assume |
| Desktop, graphics, fonts, images, parsers: `desktop.c`, `window.c`, `vbe.c`, `html.c`, `json.c`, `png.c`, `jpeg.c`, `inflate.c`, `ttf.c`, the app headers | pixels and documents | draw, parse | data, not order | outputs of pure functions |
| Rest of the ARM64 port, `arch/arm64/` | its own windows, accounts, Bluetooth, Wi-Fi, USB, browser | ... | radio and bus protocols, device timing | not modelled (section 6) |
| User programs `user/`, web worker `worker.js`, tools and checks | | | | not kernel state |

How they interact: a program calls in through `int 0x80` (`kernel/syscall.c`)
with interrupts off; the handler runs to its end as one step, except where it
turns interrupts on itself (a fetch). The desktop is task 0, runs with
interrupts on, and calls the drivers as plain functions. The timer switches
tasks round robin wherever interrupts are on. `drivers/vfs.c` holds interrupts
off round each file call, so one call at a time is in the FAT driver. Killing a
program only retargets it: it runs `task_exit` when it is next scheduled, and
`syscall_release_task` is the one place that gives back what it held.

## 2. Modules

| Module | Models | Kind |
|---|---|---|
| `FatStore` | what a caller of the FAT driver is promised: a tree of names changed by whole calls | abstract specification |
| `FatFs` | `drivers/fat.c` at the level of sector writes, with power cuts, I/O errors, mount and repair | specification, implements `FatStore` |
| `HttpGate` | `sys_http_get`, `sys_http_post`, `drivers/http.c` and the desktop's fetches, access by access | specification |
| `Allocator` | what the kernel's memory promises those who ask for some: pieces apart from all others, kept in place until they are given back | abstract specification |
| `KernelMemory` | `pmm.c`, `kheap.c`, `brk.c`, the directories of `paging.c`, and what `task.c` and `exec.c` take and give back | specification, implements `Allocator` |
| `R3Window` | the `r3wins` table, its blocks, the desktop's looks and blits, programs' calls, exits and kills | specification |
| `Update` | `arch/arm64/update.c` over a card whose files are written whole or not at all | specification |
| `Snapshots` | `arch/arm64/snap.c` over the same | specification |
| `ByteStream` | what a caller of the TCP client is promised of a reply | abstract specification |
| `TcpFetch` | `tcp_get_timeout` and the stream of `drivers/net.c`, a network that loses, repeats and reorders, and a server | specification, implements `ByteStream` |
| `TaskFiles` | the descriptors of `kernel/syscall.c` over two kinds of backend | specification |
| `FatFs_proofs`, `HttpGate_proofs`, `Update_proofs`, `TcpFetch_proofs`, `TaskFiles_proofs`, `R3Window_proofs`, `Snapshots_proofs`, `KernelMemory_proofs` | theorems about the module each is named after | proofs |
| `MCFatFs`, `MCR3Window`, `MCSnapshots`, `MCTcpFetch`, `MCTaskFiles` | constants a `.cfg` cannot write, constraints, symmetry | TLC |

How they compose: `Update` and `Snapshots` take a file call to be atomic under
a power cut and all-or-nothing when it is refused, which is what
`FatFs!AtomicStore` and `ResultHonest` establish of the FAT driver under them.
The transport that `HttpGate` has as one step with an answer or none
(`exchange`) is `TcpFetch`. `KernelMemory` gives `R3Window` what its `Freeing`
and `FreshBlocks` assume of `kmalloc` and `kfree`. They are checked apart:
each pair composed is far beyond what TLC can enumerate, and the interfaces
named here are small.

### 2.1 FatFs

A sector write is the atomic unit (an ATA write fails only before any data
moved). `op` is the call in progress, `op.pc` the write that comes next, and
each action makes one sector write of one call with whatever the code does up
to the next: `Alloc` (`alloc_cluster`), `Link` and `Seal` (the loop of
`write_file`), `WriteData`, `WriteEntry` (the one directory write at which a
call takes effect), `ReleaseStep` (`release_chain`), `Poke` (`fat_write_at`),
`MarkUnknown` (`fsinfo_unknown`). FAT writes go to each copy in turn
(`FatPut`, `op.cp`), so a cut or an error falls between two copies as well.
`Mount` scans as `fat_recover` does, `RepairRow` rewrites FAT sectors whose
copies differ or hold unreachable clusters, `FinishRepair` corrects FSInfo.
`PowerCut` drops the memory part of the state at any time.

`fat_recover` gives up, and the volume is mounted as it is, when the volume has
more than `ScanMax` clusters (fat.c:602-606, 658), when `kmalloc` has no memory
for the bitmap (659-660), when folders nest to `ScanDepth` (634) and on a sector
that cannot be read; the comment at fat.c:600-601 says so. The first three
happen on a disk that works. The second alternative of `Mount` takes this path, always
possible since the heap is everyone's; the first is open only to a volume that
is small and shallow enough. `left` is history: the clusters nobody reaches
(`left.lost`) and the FAT sectors whose copies differ (`left.rows`) that the
last mount found and left; both are empty after a repair. `NothingLost` and
`MirrorsAgree` are relative to it: whatever was left stays, nothing is added to
it, and no call hands out or links what is in it. That a cut's leftovers are
gone after the next mount is true of a mount whose repair ran, and of no other.

`ReadErrors` and `WriteErrors` let every read or write fail where the code
looks at the result, and the action then takes the code's error path: the
`failed:` label of `write_file`, the abandoned rest of `release_chain`,
`find_entry_in` saying "not there".

Reachability (`Live`) is the least set closed under links, stated as belonging
to every closed set rather than recursively.

Abstractions: a cluster is one sector; what it holds as file data is told apart
from a folder's sector (`VolumeAssumption`: no payload is in `DirSectors`),
which stands for the driver's reading as a folder only what an entry says is
one; a folder is one sector of `NSlots` entries; names, attributes, dates and byte offsets are left out; cluster
numbers start at 1; file sizes are counted in clusters; the place in a long
folder that `dir_get_sector` remembers (`walk_dir`, `walk_skip`,
`walk_cluster`) has no counterpart, since a folder here is one sector.

### 2.2 HttpGate

Between its `sti` and `cli` a system call is preemptible, and a desktop fetch
always is. `pc[t]` walks task `t` through the accesses to shared variables:
`wait` (`http_wait_idle`), `clear` (`last_status = 0`), `test` and `set` (the
two accesses to `in_flight`), `resolve`, `exchange` (`tcp_get_timeout`),
`parsed`, `leave`, `read` (`http_last_status`), `return`. `answer`, `carried`
and `result` record what the server said, whose header the request had and
what the call returns, so that properties can compare them. A kill takes a
program out of its fetch at any point and tells neither file. A program whose
wait for the connection ended well and that finds `in_flight` set all the same
(`refused`) is turned away with -EIO.

The desktop is not kept out by `http_busy`, so what passes between its fetches
and a program's is a race in the code, and the properties say exactly how far
it goes. Three history variables name the races, no guard reads them: `met`, the
fetches that were between their wait and their reading of the status while one
from the other side of `http_busy` was (`Beside`); `slipped`, that two tasks were
between the test and the set of `in_flight` at once; `killed`, that a program was
killed in a fetch.

### 2.3 R3Window

`rows` is `r3wins`. Programs' calls are one step each (interrupts are off in
them). The desktop's look at a row is split at the accesses the timer can come
between: `LookAt`, `ZeroOld`, `FreeOld`, `ForgetOld` (`r3win_free_old`),
`ReadWidth`, `ReadHeight`, `ReadDirty`, `ClearDirty`, `Fetch`
(`syscall_window_fb`, one step per access), `Ask` (`syscall_window_request_size`,
interrupts off), `Blit`. A size is a pair of width and height; `made` in a row
is the size its buffer was allocated for, which the code does not keep. `heap` is the set of
blocks given out, first fit; `wild` records a `kfree` through a stale pointer.
`Open` fails where the code does once the task exists: when its image or its
buffer cannot be mapped or no row is left (exec.c:176 frees the image, the later
paths do not).

Three marks on a look record what happened since it began: `look.gone`, the
program exited; `look.torn`, it re-opened its window between the reading of
the width and that of the buffer; `look.early`, it did between the latter and
the ask. Each is a way a blit can come to read what it should not (section 4).
A window's place and title are left out.

### 2.4 KernelMemory

Every operation runs with interrupts off, so it is one step: `Alloc` and `Free`
(`kmalloc`, `kfree`), `Launch` (`task_create_frame` with
`paging_new_task_directory`, then `paging_task_map_private`), `SetBrk`
(`brk_set`) and `Exit` (`task_exit_with` with `brk_release`). What is hard is
inside a step, where frames, page tables and block lists are taken one after
the other and any can be the one that is missing; so a call is a chain of
operators (`Grab`, `GrabMapped`, `GrowHeap`, `Kmalloc`, `NewDirectory`,
`MapOne`), each from a memory state to the next. `mem.bitmap` is pmm's bitmap,
`mem.pdes` the regions the kernel's directory maps, `mem.seen[t]` those in
task `t`'s copy; `heap.head` is the block list in its order.

Abstractions: addresses are words; a frame has 4 words and a block header 1
(1024 and 3 in the code), so that blocks cross frames and leave tails too small
to use; a task's heap is counted in pages; `MaxExtra` is what other maps, the
frame buffer above all, leave of the 16 extra page tables.

`Allocator` knows no frames, blocks or tables, only the pieces of memory given
out: the kernel's blocks, and of each program its stack, its own page and its
numbered heap pages. A piece is new memory, apart from every other, or it stays
what and where it was; a failed call gives and takes nothing; a heap grows and
shrinks at its top only. `Given` reads these pieces off the block list's holders
and the page tables, and `GivesMemory` is the refinement. A page unmapped but
not forgotten, or a table cleared too early, breaks it though no frame is lost.

### 2.5 Update

The ARM64 kernel is one poll loop, so nothing runs between the steps of a call
but the power can go between any two file calls; each file call is a step.
`img` is the version in `KERNEL8.IMG`, `card[f]` that in the staged file `f`,
`None` if it is not there and `Bad` when it would not read back. `Install`
begins a staging, `Stage` writes one of its four files and `Drop` deletes one
(`drop_staged`), each of which the card may refuse; `Tryboot` sets the
firmware's flag and restarts. `Boot` is `update_boot`, behind `PowerOn`, the
firmware (external: it takes `KERNEL8.NEW` once when its flag is set, else
`KERNEL8.IMG`). `Tick` and `Commit` are `update_tick`: the read of the staged
kernel with its retries, and the write of `KERNEL8.IMG`. A signature is whether
the file reads back as what was signed. `overlap` records that an install began
while another was still on the card, the condition of what holds alone.

### 2.6 Snapshots

`home` and the files of `snaps[n]` map paths to contents, in the order of their
folder entries. The wipe of a folder (`WipeEntry`, `WipePass`), the copy
(`CopyFile`, `Mark`), the restore (`RestoreFile`, `PruneFile`) and the unpacking
(`UnpackFile`) are walked one file call at a time, with a listing that ends at
`ListMax`. A file over
`SNAP_FILE_MAX` is `Big` and is skipped. Abstractions: reads succeed; paths
stand for files in any folder (the recursion over folders is a walk over
paths); `SNAP` itself takes no place in the home's listing; packing writes
nothing on the card and is left out. `taken`, `condemned` (the snapshots whose
drop as the oldest was begun and has not ended) and `before` are history: no
guard reads them.

### 2.7 TcpFetch

`client` is the one connection: `pc` is the wait the code is in, `mode` whether
it is a `tcp_get` or a stream, `next` the number it expects, `got` what the
caller has, `pend` the rest of a segment that a `tcp_read` did not take. `up` and
`down` are sets of segments: they are lost, repeated, and taken in any order.
The server of each connection sends again what is not acknowledged, cut up as it
likes, with a FIN alone or on its last data. `Deadline` may end a wait wherever
the code has one: for the SYN-ACK (`ConnectLate`), for the reply (`ReplyLate`),
in `tcp_read` (`ReadLate`). The stream's caller writes, reads until `tcp_read`
answers 0, which it takes for the end, or -1, and closes. `tcp_read` answers 0
to a reset as to a FIN, with no error set (net.c:1088), so the caller's `result`
is then "ok" too, and `ByteStream` promises a stream no more than that: success
with less than the whole reply, if the server broke off (`broken`). `tcp_open`
over a stream that is open drops it without a word to its server
(net.c:1037). Sequence numbers count from each side's first, so their wrap
round 2^32 is outside. `lost` is history: what of this fetch the server never got, or that it
broke off; no step of the client looks at it.

### 2.8 TaskFiles

A system call is a step. `fds[t][i]` is a descriptor: the bytes of its
snapshot, its position and mode, and whether it was written to. `Close` writes the whole buffer back and reads it to compare
(`flush_fd`); an exit does it for one descriptor a step in table order, with
nothing in between (`ExitClose`). `Cap` is what a backend keeps of a write:
`ramfs` cuts a file to its slot. `Other` stands for the changes that the desktop and the kernel's
own code make to a file between an open and its close. A write of nothing, or one
that cannot be taken, moves an appending descriptor to the end all the same
(`WriteNothing`, syscall.c:307-310).

## 3. Runs

| Run | Properties | Bounds |
|---|---|---|
| `fat_crash` | `VolumeSound` (`TypeOK`, `ChainsSound`, `UniqueNames`), `NothingLost`, `MirrorsAgree`, `FsInfoNeverWrong` under power cuts | 3 clusters in 2 FAT sectors, 2 FAT copies, FAT32, folders of 2 entries, 2 names, files of 1 and 2 clusters; folders nested in folders are too deep for the repair |
| `fat_ioerr` | `ChainsSound` (`NoDangling`, `NoCrossLink`, `WholeChains`), `CursorRight`, and `CallsReturn` under fairness, with read and write errors and cuts | one FAT copy, FAT16, files of 2 clusters |
| `fat_writeerr` | `ResultHonest`, and `AtomicStore` (refinement of `FatStore`), under cuts and write errors | as `fat_crash`, FAT16, files of 2 clusters |
| `gate_http` | `Ring3Alone` (`Ring3Exclusive`, `BounceMine`), `FlightGuards`, `StatusTrue`, `HeaderMine`, `NotOrphaned`, and `FetchEnds` under fairness, with kills and the desktop's fetches | 2 programs and the desktop, 2 statuses |
| `gate_race` | refutes `SocketExclusive` (finding) | the same |
| `win` | `WindowsSound` (`TypeOK`, `RowsOwned`, `BlocksApart`, `NoLeak`), `ResizeNotLost`, `BlitSafe` with exits, crashes, closes, refused launches and resizes | 2 tasks, 2 rows, 2 windows, 5 blocks, 2 widths and 2 heights, ring of 2, 1 refused launch |
| `mem_apart` | `MemorySound` (`TypeOK`, `HeapSound`, `FramesApart`, `NoDrift`, `NoWordLost`), `PagesHonest`, `NoFrameLost`, `GivesMemory` (refinement of `Allocator`) | 11 frames of 4 words, 3 regions of which 1 extra can be mapped, 2 programs, 2 other blocks of 2 words, heaps of 2 pages in 2 tables, 2 frames kept back |
| `update_trial` | `ImageWorksAlone`, `TrialNamed`, `MarkerGone`, `TrialKept`, and `UpdateEnds` under fairness | 4 releases of which the third does not start, 5 reads, 2 cuts, 2 faults |
| `update_untried` | refutes `ImageWorks` (finding) | 3 releases of which the third does not start, 2 cuts, no fault |
| `snap_cuts` | `SnapshotsSound` (`TypeOK`, `DoneIsWholeNewest`, `AtMostKeep`), `NoLitter`, `UnpackLosesNothing`, `RestoreExact`, `NewestKept` | 3 paths of which 2 are listed, 2 kept, 3 numbers, 1 edit, 1 cut, 1 refused write |
| `tcp_fetch` | `AckedIsHere`, `InOrderBytes` (refinement of `ByteStream`), and `Completes` under fairness | 2 connections, requests of 2 segments, replies of 3 bytes in segments of at most 2, windows of 2, buffers of 2 and 4, 1 segment lost or repeated |
| `task_files` | `DescriptorsSound` (`TypeOK`, `DeadHoldNothing`), `CloseHonest`, `AppendKeeps`, `ExitOrder`, `OnlyWritersWrite` | 2 programs of 2 descriptors, a disk file and a RAM file that keeps 1 byte, 2 opens, 2 writes of 1 byte, files of 2 bytes, 1 change by others, 1 fault |

Why the bounds are enough.

* FAT: three clusters are the fewest that hold a two-cluster file and a second
  owner to cross-link with, or a folder and a file in it, and that fill up in
  the middle of a write; two FAT sectors and two copies are the fewest in which
  a cut falls between sectors and between copies; two slots let a folder be
  full. Runs that are not about the read cursor leave reads out (`NoReads`).
  `fat_writeerr`, whose properties do not speak of `left`, tells no states apart
  by it (the VIEW `NoHistory`): it is history, so what follows is the same.
  `ScanDepth` 2 makes both answers of the depth test happen; on the give-up for
  want of heap nothing is bounded.
* Gate: every property is about a pair of fetches, of two programs or of one and
  the desktop, and what a third could do is proved.
* Windows: two programs and rows are the fewest in which a slot or a row is
  used again beside a live one; five blocks are two windows and one replaced
  buffer. Two widths and two heights, because with fewer sizes the one the
  desktop asks for after an early re-open is the one the window has and no
  second ask follows, and a torn size has a part of each of two.
  `MCBound` lets windows be resized only while one program has run, and stops
  at a double free (`FreedOnce`), after which the heap is anyone's. Both limits
  are TLC's alone: `R3Window_proofs` has neither.
* Memory: two programs are the fewest that can end in the wrong order and hand
  the heap a frame below its own; one extra table makes the last region
  unmappable, so the calls fail at their second and third frame as well as at
  their first; one page a table makes the second page need a new table; with 11
  frames a heap can grow, shrink and grow again. A block of 2 words
  in the place of a stack of 3 leaves a rest too small to be a block; what has
  been merged is split again. The
  reserve (`Floor`) is at least the number of tables, as 1024 is at least 2.
  `MaxLive` stops the miscount of `live_pages`, which has no end of its own.
* Update: an install over another needs three releases, one that does not
  start and one that works beyond it needs four; the finding needs two cuts.
* Snapshots: two kept is the least at which the oldest is dropped while a newer
  one stands; a listing one short of the paths makes a drop take two passes and
  a copy miss a file.
* TCP: a reply of three bytes in segments of at most two is cut in two ways,
  its end can share a segment with data and its FIN; a buffer of two ends
  inside it and one of four does not. The second connection meets what is left
  of the first: `MCBound` takes the server to have heard all that was sent and at
  most one stale segment to be on its way, or, of a stream that was dropped, the
  server to be sending one byte on and on.
* Files: two descriptors of one file in one program and one in another are
  every pair the properties speak of; the RAM file's one byte makes a write
  that is cut.

Fairness. `FatFs!FairSpec` has `WF_vars(Step)`: the driver is synchronous code
that runs with interrupts off, so a call that has started takes its next step.
Nothing is assumed of callers or of the power. `HttpGate!FairSpec` has weak
fairness of each task's next step: the scheduler is round robin over every used
slot, and each network wait in `net.c` is bounded in ticks, so an exchange ends
with an answer or without. `Update!FairSpec`: the poll loop comes round, the
board boots when it has power, and somebody cuts the power of one that hangs. `TcpFetch!FairSpec`: the client's loop polls
the card and takes what is there, the network brings what it does not lose
(of its own connection: the client looks at one segment at a time, and others'
may be in front, `OwnReceiving`),
the server answers and sends again; no fairness for the deadline, so `Completes`
says that a fetch ends by itself unless what it sent was lost.

Deadlock is checked in every run but `tcp_fetch`, where a bounded number of
fetches really comes to its end.

## 4. Findings

Two runs refute what the source says of itself:

* `update_untried`: `update_tick` makes `KERNEL8.IMG` of whatever signed kernel
  lies in `KERNEL8.NEW`, not of the one that ran (update.c:153); it compares
  `UPDATE.VER` with the running version at boot only (update.c:138). A cut
  between the commit and `drop_staged`, an install of a newer release that a
  second cut ends after `KERNEL8.SIG`, and the next boot commits a kernel that
  never ran. update.c:11-12: "The new kernel, once it has run UPDATE_SETTLE
  seconds, reads KERNEL8.NEW back ... and only then makes it KERNEL8.IMG".

* `gate_race`: http.c:62-64 says that the desktop and a program "can both be
  inside a fetch, so a second entry while one is in flight fails fast instead of
  sharing the socket". The test of `in_flight` and its set (http.c:114-115) are
  two accesses with interrupts on in both tasks; a tick between them lets both
  pass, and both are in `tcp_get_timeout` on the one socket (`SocketExclusive`).
  `FlightGuards` says that this is the only way.

These are reached by changing a constant or an invariant of a module, and have
no run of their own:

* `HttpGate!NotOrphaned` and `HeaderMine` without `~killed`: a program killed
  in a fetch leaves `http_busy`, `in_flight` or both set, and perhaps its header
  armed (syscall.c:927, 445); no path resets them. Every later program gets
  -EBUSY and every later fetch of the desktop's fails, until a reboot.
* `HttpGate!StatusTrue` for a fetch that is in `met`: the one `last_status` lets a
  fetch of the desktop's clear or set a program's status after the connection
  was given up and before it is read (http.c:60-66), and the other way round. For
  the header the same (`HeaderMine`): a POST of the desktop's takes the armed
  header of a program that waits to build its own.
* `R3Window!FreedOnce`: `r3win_free_old` frees the replaced buffer and then
  clears the pointer (syscall.c:625-626); a re-open in between frees it again.
* `R3Window!BlitSafe` without `~look.early`: the desktop fetches the buffer;
  the program answers an ask made before, and the buffer becomes the replaced
  one; the desktop asks for another size; the program answers, and
  `r3win_resize` frees the buffer that is being blitted (syscall.c:652). The
  comment at syscall.c:616-618 says that "a blit that was already reading it
  ... never sees freed memory".
* `R3Window!BlitSafe` without `~look.torn`: the desktop reads the width, or width
  and height, of the old buffer; the program answers an ask, and the buffer
  fetched (syscall.c:663-664) is the new one. A blit by the larger old size
  reads past the end of a smaller new buffer.
* `R3Window!BlitSafe` without `~look.gone`: an exit in the middle of the blit
  frees the buffer under it (syscall.c:684).
* `KernelMemory!LiveHonest`: a `SYS_BRK` refused for want of memory that asks
  for more pages than the task has leaves `live_pages` too high by what the task
  had: the adjustment at brk.c:118 clears `brk_pages` before brk.c:126
  subtracts it.
* `FatFs!UniqueNames` with `ReadErrors = TRUE`: `find_entry_in` (fat.c:290)
  takes a directory sector it cannot read for the end of the folder, so
  `write_file` and `fat_mkdir` make a second entry of a name that exists;
  `fat.h:47-48` promises 0 in that case.
* `Snapshots`: of `DoneIsWholeNewest` the word "newest" is needed. `wipe`
  (snap.c:78) deletes in the order of the folder, `_DONE` last, so a cut in the
  drop of the oldest leaves a folder that counts and lacks files; snap.h:7-8
  says a folder without `_DONE` is what a cut leaves.

Met while modelling, in the code and not in conflict with a promise:

* Gate: a fetch the desktop starts between a program's successful wait
  (syscall.c:930) and its test of `in_flight` (http.c:114) turns the program
  away with -EIO, where http.c:68-74 has it queue and be told -EBUSY; `FlightGuards`
  says that nothing else does.
* Memory: `brk_release` does nothing for a task whose only `SYS_BRK` failed
  after it made a page table, and that frame is lost (the exception in
  `NoFrameLost`; it takes a machine with more memory than the extra page tables
  map); `kheap_check` reports a sound heap as corrupt once a region lies below
  an older one (kheap.c:210).
* FAT: where `fat_recover` gives up on a working disk (section 2.1) the clusters
  a cut lost stay lost and the FAT copies stay different, at this mount and at
  each one after it that gives up; a volume over `SCAN_MAX_CLUSTERS` is never
  repaired. With write errors a stale FSInfo count can stay on the volume
  (`fsinfo_done` is set before the write, fat.c:147).
* Windows: a present between the read and the clear of `dirty` waits for the
  next repaint; a slot used again before the desktop reaped its window has two
  windows; the image of a launch refused after `exec_user_window` is never
  freed (`refused`).
* Update: a sector of `CONFIG.TXT` that cannot be read gives a `TRYBOOT.TXT`
  made of part of it (update.c:112-113); an install that is refused drops the
  staged files of the kernel on trial though it says that nothing changed; a cut
  before `UPDATE.VER` leaves staged files until the next install.
* Snapshots: a read that ends early is not compared with the file's size
  (snap.c:57); a restore removes files of the home that the snapshot lacks
  because its lookup failed, or because they were past the 24 listed entries
  when it was made (snap.c:102); entries past the listing are not counted as
  skipped.
* TCP: `tcp_get` drops a segment that comes early or twice without a word, so a
  lost acknowledgement under a full window stalls the fetch until its deadline
  (net.c:1029); the request's segments are sent without waiting, where the
  comment at net.c:918-925 has "push-then-wait-for-ack"; a reset in a reply is
  ignored by `tcp_get` and taken for the end of the stream by `tcp_read`
  (net.c:1088), so a reply cut short by a reset is told from a whole one by
  nobody (`InOrderBytes` without `broken` fails);
  the port ranges from 44000 and 46000 overlap after 2000 fetches (net.c:1036).
* Files: an open takes a read that failed for a shorter or a missing file, and
  `O_CREAT` then empties it (syscall.c:267).

## 5. Proofs

Each proofs module holds for every value of its constants that the named
`ASSUME` of its specification allows.

`HttpGate_proofs`, for any set of programs and of statuses, with kills and the
desktop's fetches in all of it (`GateAssumption`: the desktop is not a program;
statuses are three-digit):

* `TypeCorrect`: `Spec => []TypeOK`.
* `Exclusive`, `BounceKept` and from them `GateKept`: `Spec => []Ring3Alone`.
  Not inductive alone: the strengthening is that `http_busy` is set
  while any program is in a call. It is what makes `Enter`'s test meaningful;
  the rest of a fetch neither touches the gate nor starts a call, and a return
  frees the gate only when, by exclusion, no other program is in.
* `NobodyOrphans`: `[]NotOrphaned`. While nobody is past the test after a slip
  some task still holds the connection (`HeldBySomebody`); a kill ends it.
* `OneOnSocket`: `[](SocketExclusive \/ slipped)`; with the second conjunct,
  `FlightKept`: `[]FlightGuards`. Until a slip the tasks past the test are at
  most one, and one that is past the set has `in_flight` set, so the next test
  refuses; from a successful wait of a program to its test the connection stays
  free unless somebody comes in from the other side.
* `StatusKept` (`StatusTrue`) and `HeaderKept` (`HeaderMine`): a fetch that is
  not in `met` was alone between its wait and its reading of the status: the gate
  kept its own side out, `met` names the other; so from the answer to the return
  `last_status` is its own, and until a kill the header it armed is there for
  its own request, and nobody else's.

`Update_proofs`, for any number of releases, cuts, faults and reads:
`TypeCorrect`; `ImageStaysGood` (`ImageWorksAlone`), `TrialIsNamed`
(`TrialNamed`), `NeverGoesBack` (`KERNEL8.IMG` never goes back to an older
release) and `NoMarkerLeft` (`MarkerGone`). The strengthenings: `StageInv`, how
far a staging has come and that nothing else writes its files; and `AloneInv`,
for installs that do not overlap: the marker is written last, into an empty
place, so it tells what `KERNEL8.NEW` is, a kernel on trial is the one it names,
and the kernel that runs works and is no older than `KERNEL8.IMG`.

`TcpFetch_proofs`, for replies, segments, windows, buffers and faults of any
size and any number of connections: `TypeCorrect`; `BytesInOrder`
(`Spec => InOrderBytes`, the refinement of `ByteStream`: every step maps to a
step of it or a stutter); `NothingAckedAhead` (`AckedIsHere`); `RepliesWhole`,
the invariant under them. It has three parts. `NetInv`: segments and the
server's ends carry numbers of the reply and belong to the connection of their
port, so none of an earlier one is taken for this one's. `ClientInv`: what each
wait of the code goes with. `ReplyInv`: what was read, and what is kept for the
next read, are the reply's bytes from the first up to the number expected.
`AckInv` adds that no acknowledgement, on its way or arrived, is ahead of that
number. `EndInv` is why success is honest: a stream has come to its end (`fin`)
only with the whole reply or when the server broke off, which `lost` records
when it happens, before a reset can arrive.

`TaskFiles_proofs`, for any number of programs, descriptors, files and bytes:
`ZeroMeansWritten` (`CloseHonest`), `AppendsAdd` (`AppendKeeps`),
`LastOneCounts` (`ExitOrder`), `ReadersLeaveBe` (`OnlyWritersWrite`, an action
property), `TableInOrder` (`DescriptorsSound`). The strengthenings: `FdGood`, a
descriptor is dirty only by a write and one opened to append still begins with
what it found; `Progress`, what the exit under way has done to the table and to
the files of the descriptors it has passed; `CloseInv`, what the last close was
of.

`R3Window_proofs`, for any number of programs, rows, windows, blocks, sizes and
rings of any length: `TableSound` (`WindowsSound`), `AsksKept`
(`ResizeNotLost`) and `BlitReadsLive` (`BlitSafe`): everything the run `win`
checks. The inductive invariant adds `RowInv` (a free row holds nothing and
waits for nothing; one in use has a live program, a buffer and an image) and
`LookInv`: a row being looked at belongs to the program looked at or to nobody;
what `r3win_free_old` is about to free is there, unless the program has gone;
and the buffer being blitted is the row's, or the one before with no further
ask open, which is why the next re-open does not free it. For the sizes a
second invariant rests on the first, `SizeInv`: each buffer was made for its
row's size, and what a look has read of the row is the row's, or, once the buffer is
fetched, is what that was made for, unless the program re-opened the window
meanwhile. Blocks are in
`BlockInv` (`Apart`, `Given`, `Refusals`): a block given out has one place in
the table or is a refused launch's image. Like the run, these say nothing of the
heap once a double free has happened (`wild`).

`Snapshots_proofs`, for homes of any size, listings of any length, any number of
snapshots kept, and any number of edits, cuts and refused writes:
`SnapshotsAreSound` (`SnapshotsSound`), `CleansUp` (`NoLitter`), `NothingLost`
(`UnpackLosesNothing`), `RestoreIsExact` (`RestoreExact`) and `NewestAreKept`
(`NewestKept`, an action property): everything the run `snap_cuts` checks. The
inductive invariant has two parts. `FolderInv` holds between calls too: a
snapshot holds nothing but what was to be copied, and one whose drop was begun
is the lowest number that counts. `CallInv` says per place of a call what it
relies on: the new number is above all there are (`Fresh`, `Latest`), the done
numbers listed at the start are those there still, but for the victim, and on a
card that works what was cut short is on the list to be dropped (`Litter`).
`NewestAreKept` rests on the first: what loses a file and counts is the oldest
of at least `Keep`, so the others are newer, not begun to be dropped, and whole.
That a prune and a copy treat a snapshot's folder alike is `SubListed`: a
listing copied into an empty folder is listed whole.

`FatFs_proofs`, for volumes of any size, any number of FAT copies, FAT sectors
laid out in any way, folders of any length, files of any length and any payloads,
and any number of power cuts, at any write. What a theorem takes of the disk is
in its statement:

| Theorem | Property | Of the disk |
|---|---|---|
| `TypeCorrect`, `ChainsAreSound`, `CursorIsRight` | `TypeOK`, `ChainsSound`, `CursorRight` | any read and any write may fail |
| `NamesAreUnique`, `VolumeIsSound` | `UniqueNames`, `VolumeSound` | sectors can be read |
| `ResultIsHonest` | `ResultHonest` | sectors can be read |
| `StoreIsAtomic` | `AtomicStore`, the refinement of `FatStore` | sectors can be read |
| `MirrorsDoAgree`, `FsInfoIsNeverWrong`, `NothingIsLost` | `MirrorsAgree`, `FsInfoNeverWrong`, `NothingLost` | reads and writes succeed |

The last three say of a mount at which the repair gave up, on a disk that works
or not, that what it left is what there is (`left`): `Mirror` and `Kept` carry it
through every call, and only a repair that ran makes it empty. These are the
conditions under which the runs check them, and the properties
fail without them: a name whose folder could not be read is made twice
(section 4), and a repair whose write is refused leaves what it found.

The first half of the module is about one FAT copy `ft` and the sectors `dk` as
plain values: a chain (`ChainOf`, `Run`), what folders and clusters are reached
(`DirsOf`, `LiveOf`, least sets, so membership is proved by showing a closed
set), and `Sound(ft, dk)`, what the run's `ChainsSound` says put so that it can be
taken apart: folders are folders, reached clusters are in use, one entry or one
FAT link leads to each (`OneOwner`), and each entry's chain is as long as it says
(`Whole`). Three facts carry everything. `FatQuiet` and `DiskQuiet`: a FAT write
or a data write to clusters nobody reaches is `Quiet`, it changes nothing that
can be reached. `AddFact`: an entry put into a free slot, over a chain nobody
reaches, adds just that chain to what is reached. `RemoveFact`: an entry taken
away takes just its own clusters away, an empty folder's included.

The inductive invariant is `IInv`: `Typed`, `Sound`, and `CallOk`, which says per
place of the call in progress what it holds. While a chain is built (`Building`)
it is a run of clusters from `op.first` that nobody reaches, `op.i` of them
written, the last perhaps not yet linked; at the entry write (`EntryOk`) it is
complete and closed; while one is released (`Freeable`) nobody reaches what is
left of it; an overwrite (`PokeOk`) is at a cluster of its file. `QuietOr` is what
comes of it: every step is `Quiet`, or the entry write, or one overwritten
cluster, and the entry write is one `RemoveFact` and one `AddFact`
(`EntryPut`). That reaches through every error path and every cut, since neither
writes anything: only `CallOk` has to be established again, of no call at all
or of a release.

The others are invariants relative to it: `NamesOnce`; `CursorOk` (the cursor's
chain up to its place); `Mirror` (between calls the copies are the same; in a FAT
write they differ in one cell up to copy `op.cp`; in the repair all rows passed
are the same in all copies); `InfoOk` (once `fsinfo_done` is set the mark is on the
disk, which is why no FAT write can make a count wrong); `Kept` (what is in use is what is reached and what the call
holds, nothing else); `Honest` (until its entry write the call's own name shows what it
showed when the call began, and after it what the call promised). The refinement maps each `Quiet`
step to a stutter, the entry write to `Put`, `Delete`, `Mkdir` or `Rmdir`
(`EntryTree`), the overwritten cluster to `Overwrite` (`PokeTree`). A recursive
function such as `Chain` is shown to exist, and its values are followed, with `CountUp`.

`KernelMemory_proofs`, for any number of frames, words to a frame, regions, extra
page tables, programs and heap pages, any sizes asked, and every way a frame or a
page table can be missing inside a call: `MemoryIsSound` (`MemorySound`),
`PagesAreHonest` (`PagesHonest`), `NoWordIsLost` (`NoWordLost`),
`NoFrameIsLost` (`NoFrameLost`, an action property) and `MemoryIsGiven`
(`GivesMemory`, the refinement of `Allocator`): everything the run
`mem_apart` checks. Of the constants it uses what `MemoryAssumption` says: a block
fits in a frame, and what is counted is counted in naturals.

The calls are values of operators, so most of the module is a fact per operator.
`Took(m, n, A)` says that between two bitmaps the frames `A` were taken;
`GrabMapped`, `NewDirectory` and `MapOne` are each a `Took`, also where they give
up. `HeapOk` is a good block list and tail: no two share a word (`Apart`), the
frame below the limit is whole (`LastWhole`), and any other misses a few words at
its end (`Short`). `Extend`, `Split` and `Walk`, the steps of `grow_heap`, `kmalloc` and
`kfree`, each keep `HeapOk` and the words covered; `GrowTurn` ends because every
turn that succeeds takes one more frame, and there are `NFrames` of them. That
the walk of `kfree` keeps the blocks in use is carried by an invariant over the
list walked so far (`Walked`).

The inductive invariant `IInv` is `HeapOk` with five relations between the parts
of the state. `FramesOk`: each slot of a task's record (its directory, its tables,
its pages) names a frame no other slot, the heap or the kernel image has, which is
taken. `OwnersOk`: what callers hold and the tasks' stacks (the claims) are the
blocks in use, one to one. `SeenOk`: a task has a directory exactly when one is
kept for its slot (that its kernel half is the kernel's is in `MemOk`). `BrkOk`: the pages mapped are those
below the top and their tables are there. `LiveOk`: `live_pages` is never below
what the tasks have, so that a program's end does not take it below zero; it is
weaker than `LiveHonest`, which the code breaks (section 4). `NoneLost` goes
through every call with it: no frame is taken for nobody, and what is left taken
without an owner is in `LeftBehind`, the page tables of a task with neither a top nor
pages.

The refinement needs one invariant more, `OwnOk`: a task in use has a page of its
own. From it and `IInv`, `GivenRoom` and `GivenBeside` show that what is given out
lies in memory and is pairwise apart in every state: two blocks because no two
claims share a block, two frames because no two slots name the same, a block and
a frame because no task's frame is the heap's. So of a call that gives (`LendFact`)
only what is new remains to be shown. `Alloc` adds one piece and `Free` takes one,
`Launch` adds two (`LaunchBorn`) and `Exit` takes the task's (`WhoseFact`). For
`SetBrk`, `PagesStay` says that the loop over the pages, whether it ends, is taken
back half way or shrinks, leaves each page that is mapped before and after where
it was; with `PagesOk` before and after, the step is a growth (`PagesMore`) or a
shrinking (`PagesFewer`), by none when it failed.

Only model-checked: all liveness (`CallsReturn`, `FetchEnds`, `UpdateEnds`, `TrialKept`,
`Completes`), which this prover cannot treat.

## 6. Not modelled, and why

Drawing, fonts, image and document parsers, user programs: functions of their
input, with no state shared between actors; most of the repository's lines are
such code's data (wallpapers, icon and font bitmaps in headers), which is why
the map covers a small share of them. Device registers: what a device does is
outside the source. The scheduler beyond what `HttpGate`, `R3Window` and
`KernelMemory` use of it; ARP, DHCP, DNS and the port scan of `net.c`; the RAM
filesystem and the trash, single-step calls on memory tables; the interrupt
rings, of one writer and one reader; sound, whose question is a device's
timing; the radio and bus drivers of the ARM64 port; the web worker, the
landing page and the tools.

Of the modelled parts: `unlink`, `mkdir` and `readdir` of programs, which pass
straight to the VFS; window geometry, focus and titles; the one-shot server of
`net.c`; packing of snapshots; a `tcp_get` made while a stream is open and a
`tcp_open` from inside another fetch's idle loop, which net.h:88 forbids; a
`tcp_read` tried again after -1.

## 7. Running

    tlc -config MCFatFs_crash.cfg MCFatFs.tla
    tlc -config HttpGate_gate.cfg HttpGate.tla
    tlc -config MCR3Window.cfg MCR3Window.tla
    tlc -config KernelMemory_apart.cfg KernelMemory.tla
    tlc -config Update_trial.cfg Update.tla
    tlc -config MCSnapshots_cuts.cfg MCSnapshots.tla
    tlc -config MCTcpFetch.cfg MCTcpFetch.tla
    tlc -config MCTaskFiles.cfg MCTaskFiles.tla
    tlapm R3Window_proofs.tla        (likewise the other seven)

Each takes from seconds to about three minutes; `R3Window_proofs` two,
`TcpFetch_proofs` a few, `Snapshots_proofs` one, `FatFs_proofs` about eight, `KernelMemory_proofs` about six.

## 8. What could come next

Directory making with interrupts on (`exec_user`, paging.c:352) composed with
the scheduler; ARP and DNS over the network of `TcpFetch`; reads that fail in
`Snapshots`.
