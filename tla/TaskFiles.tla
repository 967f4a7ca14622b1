----------------------------- MODULE TaskFiles -----------------------------
(***************************************************************************)
(* Files of ring-3 programs: the descriptors of kernel/syscall.c.  An open *)
(* takes a snapshot of the whole file, reads, writes and seeks work on it, *)
(* and a close of a descriptor that was written to hands the whole buffer  *)
(* back, then reads it back to compare.  An exit closes what is open, in   *)
(* the order of the table.                                                 *)
(*                                                                         *)
(* A system call runs with interrupts off, so it is one step; an exit is   *)
(* one per descriptor, with nothing in between.  The walk to a file's      *)
(* folder and back is part of the step that uses it; a folder that went    *)
(* away is a write that is refused.  A file that is empty and one that is  *)
(* not there are the same to this layer.                                   *)
(***************************************************************************)
EXTENDS Integers, Sequences

CONSTANTS
  NTasks,      \* task slots for programs
  NFds,        \* descriptors of a task (MAX_FDS - FIRST_FD)
  Names, Data, \* files, bytes
  OpenMax,     \* OPEN_MAX_FILE
  WriteMax,    \* bound: bytes of a write
  Cap,         \* Cap[f]: what the backend of file f keeps of a write
  Modes,       \* access modes of an open
  Initially,   \* what the files may hold at first
  MaxOpens, MaxWrites, MaxOthers,  \* bounds: opens, writes, changes by others
  MaxFaults    \* bound: writes refused, reads back that fail

Tasks == 1..NTasks
Fds == 1..NFds

ASSUME FilesAssumption ==
  /\ NTasks \in Nat /\ NFds \in Nat \ {0} /\ {OpenMax, WriteMax} \subseteq Nat /\ Cap \in [Names -> Nat]
  /\ Modes \subseteq {"r", "w", "rw"}
  /\ \A f \in Initially : f \in [Names -> Seq(Data)] /\ \A n \in Names : Len(f[n]) <= OpenMax
  /\ {MaxOpens, MaxWrites, MaxOthers, MaxFaults} \subseteq Nat

VARIABLES
  files,   \* what the backend holds
  fds,     \* fds[t][i]
  alive,   \* alive[t]: a program runs in slot t
  exiting, \* the exit under way: its task (0 for none), the place in the table and
           \* the descriptors as they were
  last,    \* history: the close just made, and what it returned
  used     \* counters for the bounds

vars == <<files, fds, alive, exiting, last, used>>

NoFile == [open |-> FALSE, name |-> "", data |-> <<>>, pos |-> 0, mode |-> "r",
           append |-> FALSE, dirty |-> FALSE,
           orig |-> <<>>, wrote |-> FALSE]   \* history: the file at open, a write was made
NoExit == [task |-> 0, at |-> 0, were |-> <<>>, failed |-> FALSE]
NoClose == [file |-> NoFile, ret |-> 0]

Contents == UNION {[1..k -> Data] : k \in 0..OpenMax}
Pieces == {c \in Contents : Len(c) <= WriteMax}
First(s, k) == IF Len(s) <= k THEN s ELSE SubSeq(s, 1, k)
MayUse(what, max) == used[what] < max /\ used' = [used EXCEPT ![what] = @ + 1]

(* A program runs and no exit is under way. *)
Runs(t) == alive[t] /\ exiting.task = 0
-----------------------------------------------------------------------------
(* open: the first free descriptor and a buffer; the file is made, and is  *)
(* emptied, before the call returns.  A call that fails changes nothing.   *)
Flags == {f \in [mode : Modes, creat : BOOLEAN, trunc : BOOLEAN, append : BOOLEAN] :
            f.mode = "r" => ~f.creat /\ ~f.trunc /\ ~f.append}
Empties(name, flags) == files[name] = <<>> \/ flags.trunc
DirtyAtOpen_Mut == TRUE      \* mutated: as if it had been written to
DirtyAtOpen == FALSE
LowestFree(t, i) == ~fds[t][i].open /\ \A j \in 1..(i - 1) : fds[t][j].open
Open(t, name, flags) ==
  /\ Runs(t)
  /\ Len(files[name]) <= OpenMax
  /\ files[name] = <<>> => flags.creat
  /\ LET data == IF flags.trunc THEN <<>> ELSE files[name]
     IN  \E i \in Fds :
           /\ LowestFree(t, i)
           /\ fds' = [fds EXCEPT ![t][i] =
                [open |-> TRUE, name |-> name, data |-> data, mode |-> flags.mode,
                 pos |-> IF flags.append THEN Len(data) ELSE 0,
                 append |-> flags.append, dirty |-> DirtyAtOpen, orig |-> data,
                 wrote |-> FALSE]]
  /\ files' = IF Empties(name, flags) THEN [files EXCEPT ![name] = <<>>] ELSE files
  /\ MayUse("opens", MaxOpens)
  /\ last' = NoClose /\ UNCHANGED <<alive, exiting>>

(* write, lseek, read: of the buffer alone. *)
WriteAt_Mut(f) == f.pos      \* mutated: O_APPEND counts at open only
WriteAt(f) == IF f.append THEN Len(f.data) ELSE f.pos
Write(t, i, bytes) ==
  LET f == fds[t][i]
      from == WriteAt(f)
      to == from + Len(bytes)
  IN  /\ Runs(t) /\ f.open /\ f.mode # "r" /\ to <= OpenMax
      /\ fds' = [fds EXCEPT ![t][i] =
           [f EXCEPT !.data = [k \in 1..(IF to > Len(f.data) THEN to ELSE Len(f.data)) |->
                                 IF k > from /\ k <= to THEN bytes[k - from] ELSE f.data[k]],
                     !.pos = to, !.dirty = TRUE, !.wrote = TRUE]]
      /\ MayUse("writes", MaxWrites)
      /\ last' = NoClose /\ UNCHANGED <<files, alive, exiting>>
(* A write that stores nothing (of no bytes, past OPEN_MAX_FILE, from a bad *)
(* buffer) has put an O_APPEND descriptor at the end all the same.         *)
WriteNothing(t, i) ==
  /\ Runs(t) /\ fds[t][i].open /\ fds[t][i].mode # "r"
  /\ fds' = [fds EXCEPT ![t][i].pos = WriteAt(fds[t][i])]
  /\ last' = NoClose /\ UNCHANGED <<files, alive, exiting, used>>
SeekMax_Mut(f) == OpenMax      \* mutated: past the end of the file
SeekMax(f) == Len(f.data)
Seek(t, i, to) ==
  /\ Runs(t) /\ fds[t][i].open /\ to <= SeekMax(fds[t][i])
  /\ fds' = [fds EXCEPT ![t][i].pos = to]
  /\ last' = NoClose /\ UNCHANGED <<files, alive, exiting, used>>
Read(t, i, n) ==
  /\ Runs(t) /\ fds[t][i].open /\ fds[t][i].mode # "w"
  /\ fds[t][i].pos + n <= Len(fds[t][i].data)
  /\ fds' = [fds EXCEPT ![t][i].pos = @ + n]
  /\ last' = NoClose /\ UNCHANGED <<files, alive, exiting, used>>
-----------------------------------------------------------------------------
(* flush_fd: what it returns (0, or -1 for an error) and leaves in files.  *)
SameBack_Mut(f, kept) == TRUE      \* mutated: vfs_replace_file's word is taken
SameBack(f, kept) == kept = f.data
Fault == MayUse("faults", MaxFaults)
NoFault == UNCHANGED used
Flush(f, ret) ==
  LET kept == First(f.data, Cap[f.name])
  IN  IF ~f.dirty THEN ret = 0 /\ NoFault /\ UNCHANGED files
      ELSE \/ ret = -1 /\ Fault /\ UNCHANGED files      \* the write is refused
           \/ /\ files' = [files EXCEPT ![f.name] = kept]
              /\ \/ ret = -1 /\ Fault   \* no buffer to read it back, or no reading
                 \/ ret = (IF SameBack(f, kept) THEN 0 ELSE -1) /\ NoFault

(* close_fd: whatever the flush returns, the descriptor is free again.     *)
After_Mut(f, ret) == IF ret = 0 THEN NoFile ELSE f      \* mutated: kept when the flush fails
After(f, ret) == NoFile
CloseFd(t, i, ret) ==
  /\ Flush(fds[t][i], ret)
  /\ fds' = [fds EXCEPT ![t][i] = After(@, ret)]
  /\ last' = [file |-> [fds[t][i] EXCEPT !.pos = 0], ret |-> ret]

Close(t, i) ==
  /\ Runs(t) /\ fds[t][i].open
  /\ \E ret \in {0, -1} : CloseFd(t, i, ret)
  /\ UNCHANGED <<alive, exiting>>

(* An exit, a fault or a kill: syscall_release_task. *)
Place_Mut(n) == NFds + 1 - n      \* mutated: from the end of the table
Place(n) == n
Exit(t) ==
  /\ Runs(t)
  /\ exiting' = [task |-> t, at |-> 1, were |-> fds[t], failed |-> FALSE]
  /\ alive' = [alive EXCEPT ![t] = FALSE]
  /\ last' = NoClose /\ UNCHANGED <<files, fds, used>>
ExitClose ==
  /\ exiting.task # 0 /\ exiting.at <= NFds
  /\ LET i == Place(exiting.at)
     IN  IF fds[exiting.task][i].open
         THEN \E ret \in {0, -1} :
                /\ CloseFd(exiting.task, i, ret)
                /\ exiting' = [exiting EXCEPT !.at = @ + 1, !.failed = @ \/ ret # 0]
         ELSE exiting' = [exiting EXCEPT !.at = @ + 1] /\ UNCHANGED <<files, fds, last, used>>
  /\ UNCHANGED alive
ExitEnd ==
  /\ exiting.task # 0 /\ exiting.at > NFds
  /\ exiting' = NoExit /\ last' = NoClose
  /\ UNCHANGED <<files, fds, alive, used>>

(* A program is started in a free slot. *)
Launch(t) ==
  /\ ~alive[t] /\ exiting.task = 0
  /\ alive' = [alive EXCEPT ![t] = TRUE]
  /\ last' = NoClose /\ UNCHANGED <<files, fds, exiting, used>>

(* The desktop or the shell writes or deletes a file. *)
Other(name, content) ==
  /\ exiting.task = 0 /\ files[name] # content
  /\ MayUse("others", MaxOthers)
  /\ files' = [files EXCEPT ![name] = First(content, Cap[name])]
  /\ last' = NoClose /\ UNCHANGED <<fds, alive, exiting>>
-----------------------------------------------------------------------------
Init ==
  /\ files \in Initially
  /\ fds = [t \in Tasks |-> [i \in Fds |-> NoFile]]
  /\ alive = [t \in Tasks |-> FALSE]
  /\ exiting = NoExit /\ last = NoClose
  /\ used = [opens |-> 0, writes |-> 0, others |-> 0, faults |-> 0]

Program(t) ==
  \/ \E name \in Names, flags \in Flags : Open(t, name, flags)
  \/ \E i \in Fds :
       \/ \E bytes \in Pieces \ {<<>>} : Write(t, i, bytes)
       \/ WriteNothing(t, i)
       \/ \E k \in 0..OpenMax : Seek(t, i, k)
       \/ \E k \in 1..OpenMax : Read(t, i, k)
       \/ Close(t, i)
  \/ Exit(t)

Next ==
  \/ \E t \in Tasks : Program(t) \/ Launch(t)
  \/ ExitClose \/ ExitEnd
  \/ \E name \in Names, content \in Pieces : Other(name, content)

Spec == Init /\ [][Next]_vars
-----------------------------------------------------------------------------
(* Correctness. *)

(* Every variable stays in its range, and no descriptor stands past the    *)
(* end of its buffer or holds more than OPEN_MAX_FILE.                     *)
TypeOK ==
  /\ files \in [Names -> Contents]
  /\ \A t \in Tasks, i \in Fds :
       LET f == fds[t][i]
       IN  f.open => f.data \in Contents /\ f.pos \in 0..Len(f.data) /\ f.name \in Names
  /\ alive \in [Tasks -> BOOLEAN] /\ exiting.task \in {0} \cup Tasks

(* A close that returns 0 has told the truth: the file is what the program *)
(* saw through the descriptor, to the last byte, whatever the backend      *)
(* keeps of a write.                                                       *)
CloseHonest == last.file.dirty /\ last.ret = 0 => files[last.file.name] = last.file.data

(* A descriptor opened to append takes nothing away: what was there when   *)
(* it was opened begins the file it leaves, however it was moved about.    *)
AppendKeeps ==
  last.file.append /\ last.file.dirty /\ last.ret = 0 =>
    LET f == last.file IN Len(files[f.name]) >= Len(f.orig) /\ First(files[f.name], Len(f.orig)) = f.orig

(* A descriptor that was only read from never brings its old snapshot back *)
(* over what others have written since.                                    *)
OnlyWritersWrite ==
  [][\A t \in Tasks, i \in Fds :
       fds[t][i].open /\ ~fds'[t][i].open
         => \A name \in Names : files'[name] # files[name]
              => fds[t][i].name = name /\ fds[t][i].wrote]_vars

(* The descriptor i was the last of those in S to be written to its file.  *)
Wrote(i) == exiting.were[i].open /\ exiting.were[i].dirty
LastOf(i, S) ==
  Wrote(i) /\ \A j \in S : j > i /\ Wrote(j) => exiting.were[j].name # exiting.were[i].name

(* After an exit each file a program had written to through descriptors is *)
(* that of the last of them in the table, unless a flush failed.           *)
ExitOrder ==
  exiting.task # 0 /\ exiting.at > NFds /\ ~exiting.failed =>
    \A i \in Fds : LastOf(i, Fds) => files[exiting.were[i].name] = exiting.were[i].data

(* The next program in a slot finds no descriptor of the one before, also  *)
(* when its last flush failed.                                             *)
DeadHoldNothing ==
  \A t \in Tasks : ~alive[t] /\ exiting.task # t => \A i \in Fds : ~fds[t][i].open

(* The table of descriptors is in order, whoever ends and whatever fails.  *)
DescriptorsSound == TypeOK /\ DeadHoldNothing
=============================================================================
