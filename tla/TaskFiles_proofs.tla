-------------------------- MODULE TaskFiles_proofs --------------------------
(***************************************************************************)
(* What TLAPS proves of TaskFiles, for any number of programs, descriptors *)
(* and files, any backend and any number of faults: everything the run     *)
(* task_files checks of the descriptors of kernel/syscall.c.               *)
(***************************************************************************)
EXTENDS TaskFiles, SequenceTheorems, TLAPS

-----------------------------------------------------------------------------
(* What a file may hold. *)

LEMMA OpenMaxNat == OpenMax \in Nat
BY FilesAssumption DEF FilesAssumption

LEMMA MakeContents ==
  ASSUME NEW k \in 0..OpenMax, NEW s \in [1..k -> Data]
  PROVE  s \in Contents /\ Len(s) = k /\ s \in Seq(Data)
BY DEF Contents

LEMMA ContentsFact ==
  ASSUME NEW s \in Contents
  PROVE  s \in Seq(Data) /\ Len(s) \in 0..OpenMax /\ s \in [1..Len(s) -> Data]
<1>1. PICK k \in 0..OpenMax : s \in [1..k -> Data]
  BY DEF Contents
<1> QED BY <1>1, MakeContents

LEMMA SeqContents ==
  ASSUME NEW s \in Seq(Data), Len(s) <= OpenMax
  PROVE  s \in Contents
<1>1. s \in [1..Len(s) -> Data] /\ Len(s) \in 0..OpenMax
  BY FilesAssumption DEF FilesAssumption
<1> QED BY <1>1, MakeContents

LEMMA EmptyContents == <<>> \in Contents
<1>1. 0 \in 0..OpenMax /\ <<>> \in [1..0 -> Data]
  BY FilesAssumption DEF FilesAssumption
<1> QED BY <1>1, MakeContents

LEMMA FirstContents ==
  ASSUME NEW s \in Contents, NEW k \in Nat
  PROVE  First(s, k) \in Contents
<1>1. CASE Len(s) <= k
  BY <1>1 DEF First
<1>2. CASE Len(s) > k
  <2>1. s \in Seq(Data) /\ Len(s) \in 0..OpenMax /\ k \in 0..OpenMax
    BY <1>2, ContentsFact, FilesAssumption DEF FilesAssumption
  <2> DEFINE u == SubSeq(s, 1, k)
  <2>2. u \in Seq(Data) /\ Len(u) = k
    BY <1>2, <2>1, SubSeqProperties
  <2>3. ASSUME NEW v \in Seq(Data), Len(v) = k PROVE v \in Contents
    BY <2>1, <2>3, SeqContents, FilesAssumption DEF FilesAssumption
  <2> HIDE DEF u
  <2>4. u \in Contents
    BY <2>2, <2>3
  <2> QED BY <1>2, <2>4, ContentsFact DEF First, u
<1> QED BY <1>1, <1>2, ContentsFact

(* o is where s begins. *)
Begins(s, o) == Len(o) <= Len(s) /\ \A k \in 1..Len(o) : s[k] = o[k]

LEMMA BeginsFact ==
  ASSUME NEW s \in Contents, NEW o \in Contents, Begins(s, o)
  PROVE  Len(s) >= Len(o) /\ First(s, Len(o)) = o
<1>1. s \in Seq(Data) /\ o \in Seq(Data) /\ Len(o) \in Nat /\ Len(s) \in Nat
  BY ContentsFact
<1>2. CASE Len(s) <= Len(o)
  <2>1. Len(s) = Len(o)
    BY <1>1, <1>2 DEF Begins
  <2>2. s \in [1..Len(o) -> Data] /\ o \in [1..Len(o) -> Data]
    BY <2>1, ContentsFact
  <2>3. s = o
    BY <2>2 DEF Begins
  <2> QED BY <2>1, <2>3 DEF First
<1>3. CASE Len(s) > Len(o)
  <2>1. First(s, Len(o)) = [j \in 1..Len(o) |-> s[j]]
    BY <1>1, <1>3 DEF First
  <2>2. o \in [1..Len(o) -> Data]
    BY ContentsFact
  <2>3. [j \in 1..Len(o) |-> s[j]] = o
    BY <2>2 DEF Begins
  <2> QED BY <1>3, <2>1, <2>3, <1>1
<1> QED BY <1>1, <1>2, <1>3
-----------------------------------------------------------------------------
(* The descriptors. *)

FdType == [open: BOOLEAN, name: Names \cup {""}, data: Contents, pos: 0..OpenMax,
           mode: Modes \cup {"r"}, append: BOOLEAN, dirty: BOOLEAN, orig: Contents,
           wrote: BOOLEAN]

(* A descriptor that is open stands in its buffer, is dirty only by a      *)
(* write, and, opened to append, still begins with what it found.          *)
FdGood(f) ==
  /\ f.open => f.name \in Names /\ f.pos <= Len(f.data)
  /\ f.dirty => f.wrote
  /\ f.append => Begins(f.data, f.orig)

Exits == [task: {0} \cup Tasks, at: 0..(NFds + 1), were: {<<>>} \cup [Fds -> FdType],
          failed: BOOLEAN]

TypeInv ==
  /\ files \in [Names -> Contents]
  /\ fds \in [Tasks -> [Fds -> FdType]]
  /\ \A t \in Tasks, i \in Fds : FdGood(fds[t][i])
  /\ alive \in [Tasks -> BOOLEAN]
  /\ exiting \in Exits
  /\ exiting.task # 0 => exiting.at \in Nat \ {0} /\ exiting.were \in [Fds -> FdType]

LEMMA NoFileFact == NoFile \in FdType /\ FdGood(NoFile)
BY EmptyContents, FilesAssumption DEF NoFile, FdType, FdGood, FilesAssumption

LEMMA TypeInit == Init => TypeInv
<1> SUFFICES ASSUME Init PROVE TypeInv
  OBVIOUS
<1>1. files \in [Names -> Contents]
  BY SeqContents, FilesAssumption DEF Init, FilesAssumption
<1>2. exiting \in Exits /\ exiting.task = 0
  BY FilesAssumption DEF Init, NoExit, Exits, FilesAssumption
<1> QED BY <1>1, <1>2, NoFileFact DEF Init, TypeInv

(* One descriptor changes. *)
LEMMA OneFd ==
  ASSUME TypeInv, NEW t \in Tasks, NEW i \in Fds, NEW f \in FdType, FdGood(f),
         fds' = [fds EXCEPT ![t][i] = f]
  PROVE  /\ fds' \in [Tasks -> [Fds -> FdType]]
         /\ \A u \in Tasks, j \in Fds : FdGood(fds'[u][j])
<1>1. \A u \in Tasks, j \in Fds : fds'[u][j] = IF u = t /\ j = i THEN f ELSE fds[u][j]
  BY DEF TypeInv
<1> QED BY <1>1 DEF TypeInv

(* A flush of a buffer. *)
LEMMA FlushFact ==
  ASSUME TypeInv, NEW f \in FdType, f.dirty => f.name \in Names, NEW ret, Flush(f, ret)
  PROVE  /\ files' \in [Names -> Contents]
         /\ ~f.dirty => files' = files
         /\ \A n \in Names : n # f.name => files'[n] = files[n]
         /\ f.dirty /\ ret = 0 => files'[f.name] = f.data
<1>1. CASE ~f.dirty
  BY <1>1 DEF Flush, TypeInv
<1>2. CASE f.dirty
  <2>1. f.name \in Names /\ Cap[f.name] \in Nat
    BY <1>2, FilesAssumption DEF FilesAssumption
  <2>2. First(f.data, Cap[f.name]) \in Contents
    BY <2>1, FirstContents DEF FdType
  <2>3. CASE UNCHANGED files /\ ret = -1
    BY <2>3, <1>2 DEF TypeInv
  <2>4. CASE /\ files' = [files EXCEPT ![f.name] = First(f.data, Cap[f.name])]
             /\ ret = -1 \/ ret = (IF SameBack(f, First(f.data, Cap[f.name])) THEN 0 ELSE -1)
    BY <2>1, <2>2, <2>4, <1>2 DEF TypeInv, SameBack
  <2> QED BY <1>2, <2>3, <2>4 DEF Flush
<1> QED BY <1>1, <1>2 DEF FdType

LEMMA CloseFact ==
  ASSUME TypeInv, NEW t \in Tasks, NEW i \in Fds, fds[t][i].open, NEW ret, CloseFd(t, i, ret)
  PROVE  /\ files' \in [Names -> Contents]
         /\ ~fds[t][i].dirty => files' = files
         /\ \A n \in Names : n # fds[t][i].name => files'[n] = files[n]
         /\ fds[t][i].dirty /\ ret = 0 => files'[fds[t][i].name] = fds[t][i].data
         /\ fds' = [fds EXCEPT ![t][i] = NoFile]
<1>1. fds[t][i] \in FdType /\ FdGood(fds[t][i]) /\ fds[t][i].name \in Names
  BY DEF TypeInv, FdGood
<1>2. Flush(fds[t][i], ret) /\ fds' = [fds EXCEPT ![t][i] = NoFile]
  BY DEF CloseFd, After
<1> QED BY <1>1, <1>2, FlushFact

LEMMA OpenStep ==
  ASSUME TypeInv, NEW t \in Tasks, NEW name \in Names, NEW flags \in Flags, Open(t, name, flags)
  PROVE  TypeInv'
<1> DEFINE data == IF flags.trunc THEN <<>> ELSE files[name]
           new == [open |-> TRUE, name |-> name, data |-> data, mode |-> flags.mode,
                   pos |-> IF flags.append THEN Len(data) ELSE 0,
                   append |-> flags.append, dirty |-> DirtyAtOpen, orig |-> data,
                   wrote |-> FALSE]
<1>1. PICK i \in Fds : fds' = [fds EXCEPT ![t][i] = new]
  BY DEF Open
<1>2. data \in Contents /\ files' \in [Names -> Contents]
  BY EmptyContents DEF Open, TypeInv
<1>3. Len(data) \in 0..OpenMax
  BY <1>2, ContentsFact
<1>4. flags.mode \in Modes /\ flags.append \in BOOLEAN
  BY DEF Flags
<1> HIDE DEF data
<1>5. new \in FdType
  <2>1. (IF flags.append THEN Len(data) ELSE 0) \in 0..OpenMax
    BY <1>3, OpenMaxNat
  <2> QED BY <1>2, <1>4, <2>1 DEF FdType, DirtyAtOpen
<1>6. FdGood(new)
  BY <1>3, <1>4 DEF FdGood, DirtyAtOpen, Begins
<1> HIDE DEF new
<1> QED BY <1>1, <1>2, <1>5, <1>6, OneFd DEF Open, TypeInv

LEMMA WriteStep ==
  ASSUME TypeInv, NEW t \in Tasks, NEW i \in Fds, NEW bytes \in Pieces, Write(t, i, bytes)
  PROVE  TypeInv'
<1> DEFINE f == fds[t][i]
           from == WriteAt(f)
           to == from + Len(bytes)
           long == IF to > Len(f.data) THEN to ELSE Len(f.data)
           data == [k \in 1..long |-> IF k > from /\ k <= to THEN bytes[k - from] ELSE f.data[k]]
           new == [f EXCEPT !.data = data, !.pos = to, !.dirty = TRUE, !.wrote = TRUE]
<1>1. f \in FdType /\ FdGood(f) /\ f.open /\ to <= OpenMax
  BY DEF TypeInv, Write
<1> HIDE DEF f
<1>2. /\ Len(f.data) \in 0..OpenMax /\ f.data \in [1..Len(f.data) -> Data]
      /\ Len(bytes) \in 0..OpenMax /\ bytes \in [1..Len(bytes) -> Data]
  BY <1>1, ContentsFact DEF FdType, Pieces
<1>3. from \in 0..Len(f.data) /\ (f.append => from = Len(f.data))
  <2>1. f.pos \in 0..OpenMax /\ f.append \in BOOLEAN
    BY <1>1 DEF FdType
  <2>2. f.pos <= Len(f.data)
    BY <1>1 DEF FdGood
  <2> QED BY <1>2, <2>1, <2>2, OpenMaxNat DEF WriteAt
<1>4. to \in 0..OpenMax /\ long \in 0..OpenMax /\ to <= long /\ Len(f.data) <= long
  BY <1>1, <1>2, <1>3, FilesAssumption DEF FilesAssumption
<1>5. data \in [1..long -> Data]
  <2> SUFFICES ASSUME NEW k \in 1..long
               PROVE  (IF k > from /\ k <= to THEN bytes[k - from] ELSE f.data[k]) \in Data
    OBVIOUS
  <2>1. CASE k > from /\ k <= to
    <3>1. k - from \in 1..Len(bytes)
      BY <2>1, <1>2, <1>3
    <3> QED BY <2>1, <3>1, <1>2
  <2>2. CASE ~(k > from /\ k <= to)
    <3>1. k \in 1..Len(f.data)
      BY <2>2, <1>2, <1>3, <1>4
    <3> QED BY <2>2, <3>1, <1>2
  <2> QED BY <2>1, <2>2
<1>6. data \in Contents /\ Len(data) = long
  BY <1>4, <1>5, MakeContents
<1>7. f.append => Begins(data, f.orig)
  <2> SUFFICES ASSUME f.append PROVE Begins(data, f.orig)
    OBVIOUS
  <2>1. Begins(f.data, f.orig) /\ from = Len(f.data)
    BY <1>1, <1>3 DEF FdGood
  <2>0. Len(f.orig) \in Nat
    <3>1. f.orig \in Contents
      BY <1>1 DEF FdType
    <3> QED BY <3>1, ContentsFact, OpenMaxNat
  <2>2. \A k \in 1..Len(f.orig) : k \in 1..long /\ ~(k > from)
    BY <2>0, <2>1, <1>2, <1>4 DEF Begins
  <2>3. \A k \in 1..Len(f.orig) : data[k] = f.orig[k]
    BY <2>1, <2>2 DEF Begins
  <2>4. Len(f.orig) <= long
    BY <2>0, <2>1, <1>2, <1>4 DEF Begins
  <2> HIDE DEF data
  <2> QED BY <2>3, <2>4, <1>6 DEF Begins
<1> HIDE DEF data, to
<1>8. new \in FdType /\ FdGood(new)
  BY <1>1, <1>4, <1>6, <1>7 DEF FdType, FdGood
<1>9. fds' = [fds EXCEPT ![t][i] = new]
  BY DEF Write, data, to, f
<1> HIDE DEF new
<1> QED BY <1>8, <1>9, OneFd DEF Write, TypeInv

LEMMA MoveStep ==
  ASSUME TypeInv, NEW t \in Tasks, NEW i \in Fds, NEW to \in 0..OpenMax,
         to <= Len(fds[t][i].data), fds' = [fds EXCEPT ![t][i].pos = to],
         UNCHANGED <<files, alive, exiting>>
  PROVE  TypeInv'
<1> DEFINE new == [fds[t][i] EXCEPT !.pos = to]
<1>1. fds' = [fds EXCEPT ![t][i] = new]
  BY DEF TypeInv
<1>2. new \in FdType /\ FdGood(new)
  <2> DEFINE f == fds[t][i]
  <2>1. f \in FdType /\ FdGood(f) /\ to <= Len(f.data)
    BY DEF TypeInv
  <2> HIDE DEF f
  <2>2. [f EXCEPT !.pos = to] \in FdType
    BY <2>1 DEF FdType
  <2>3. FdGood([f EXCEPT !.pos = to])
    BY <2>1 DEF FdType, FdGood
  <2> QED BY <2>2, <2>3 DEF f
<1> HIDE DEF new
<1> QED BY <1>1, <1>2, OneFd DEF TypeInv

LEMMA CloseStep ==
  ASSUME TypeInv, NEW t \in Tasks, NEW i \in Fds, fds[t][i].open, NEW ret, CloseFd(t, i, ret),
         UNCHANGED alive, exiting' \in Exits,
         exiting'.task # 0 => exiting'.at \in Nat \ {0} /\ exiting'.were \in [Fds -> FdType]
  PROVE  TypeInv'
BY CloseFact, NoFileFact, OneFd DEF TypeInv

LEMMA ExitCloseStep ==
  ASSUME TypeInv, ExitClose
  PROVE  TypeInv'
<1>1. /\ exiting \in Exits /\ exiting.task \in Tasks /\ exiting.at \in Fds
      /\ exiting.were \in [Fds -> FdType] /\ NFds \in Nat
  BY FilesAssumption DEF ExitClose, TypeInv, Exits, Fds, FilesAssumption
<1>2. CASE /\ UNCHANGED <<files, fds>> /\ exiting' = [exiting EXCEPT !.at = @ + 1]
  <2>1. exiting' \in Exits /\ exiting'.at \in Nat \ {0} /\ exiting'.were = exiting.were
    BY <1>1, <1>2 DEF Exits, Fds
  <2> QED BY <1>1, <1>2, <2>1 DEF TypeInv, ExitClose
<1>3. ASSUME NEW ret \in {0, -1}, fds[exiting.task][exiting.at].open,
             CloseFd(exiting.task, exiting.at, ret),
             exiting' = [exiting EXCEPT !.at = @ + 1, !.failed = @ \/ ret # 0]
      PROVE  TypeInv'
  <2> DEFINE b == exiting.failed \/ ret # 0
  <2>0. b \in BOOLEAN /\ exiting' = [exiting EXCEPT !.at = @ + 1, !.failed = b]
    BY <1>3
  <2> HIDE DEF b
  <2>1. exiting' \in Exits /\ exiting'.at \in Nat \ {0} /\ exiting'.were = exiting.were
    <3>1. exiting.at + 1 \in 0..(NFds + 1) /\ exiting.at + 1 \in Nat \ {0}
      BY <1>1 DEF Fds
    <3> DEFINE next == exiting.at + 1
    <3>2. exiting' = [exiting EXCEPT !.at = next, !.failed = b]
      BY <2>0
    <3> HIDE DEF next
    <3>3. next \in 0..(NFds + 1) /\ next \in Nat \ {0}
      BY <3>1 DEF next
    <3>4. exiting' \in Exits
      BY <1>1, <2>0, <3>2, <3>3 DEF Exits
    <3> QED BY <1>1, <2>0, <3>2, <3>3, <3>4 DEF Exits
  <2> QED BY <1>1, <1>3, <2>1, CloseStep DEF ExitClose
<1> QED BY <1>1, <1>2, <1>3 DEF ExitClose, Place

LEMMA ExitStep ==
  ASSUME TypeInv, NEW t \in Tasks, Exit(t)
  PROVE  TypeInv'
<1>1. exiting' \in Exits /\ exiting'.at = 1 /\ exiting'.were \in [Fds -> FdType]
  BY FilesAssumption DEF Exit, TypeInv, Exits, FilesAssumption
<1> QED BY <1>1 DEF Exit, TypeInv

LEMMA EndStep == TypeInv /\ ExitEnd => TypeInv'
<1>1. NoExit \in Exits /\ NoExit.task = 0
  BY FilesAssumption DEF NoExit, Exits, FilesAssumption
<1> QED BY <1>1 DEF ExitEnd, TypeInv

LEMMA OtherStep ==
  ASSUME TypeInv, NEW name \in Names, NEW content \in Pieces, Other(name, content)
  PROVE  TypeInv'
<1>1. First(content, Cap[name]) \in Contents
  BY FirstContents, FilesAssumption DEF Pieces, FilesAssumption
<1> QED BY <1>1 DEF Other, TypeInv

LEMMA ProgramStep ==
  ASSUME TypeInv, NEW t \in Tasks, Program(t)
  PROVE  TypeInv'
<1>1. CASE \E name \in Names, flags \in Flags : Open(t, name, flags)
  BY <1>1, OpenStep
<1>2. ASSUME NEW i \in Fds, NEW bytes \in Pieces, Write(t, i, bytes) PROVE TypeInv'
  BY <1>2, WriteStep
<1>3. ASSUME NEW i \in Fds, NEW k \in 0..OpenMax, Seek(t, i, k) PROVE TypeInv'
  BY <1>3, MoveStep DEF Seek, SeekMax
<1>4. ASSUME NEW i \in Fds, NEW k \in 1..OpenMax, Read(t, i, k) PROVE TypeInv'
  <2> DEFINE f == fds[t][i]
  <2>1. f \in FdType /\ f.pos + k <= Len(f.data)
    BY <1>4 DEF TypeInv, Read
  <2>2. f.pos \in 0..OpenMax /\ Len(f.data) \in 0..OpenMax
    BY <2>1, ContentsFact DEF FdType
  <2>3. f.pos + k \in 0..OpenMax
    BY <2>1, <2>2, OpenMaxNat
  <2>4. fds' = [fds EXCEPT ![t][i].pos = f.pos + k]
    BY <1>4 DEF Read, TypeInv
  <2> QED BY <1>4, <2>1, <2>3, <2>4, MoveStep DEF Read
<1>5. ASSUME NEW i \in Fds, Close(t, i) PROVE TypeInv'
  BY <1>5, CloseStep DEF Close, TypeInv
<1>6. CASE Exit(t)
  BY <1>6, ExitStep
<1>7. ASSUME NEW i \in Fds, WriteNothing(t, i) PROVE TypeInv'
  <2> DEFINE f == fds[t][i]
  <2>1. f \in FdType /\ FdGood(f) /\ f.open
    BY <1>7 DEF TypeInv, WriteNothing
  <2>2. f.pos \in 0..OpenMax /\ Len(f.data) \in 0..OpenMax /\ f.pos <= Len(f.data)
    BY <2>1, ContentsFact DEF FdType, FdGood
  <2> HIDE DEF f
  <2>3. WriteAt(f) \in 0..OpenMax /\ WriteAt(f) <= Len(f.data)
    BY <2>2, OpenMaxNat DEF WriteAt
  <2> USE DEF f
  <2> QED BY <1>7, <2>3, MoveStep DEF WriteNothing
<1> QED BY <1>1, <1>2, <1>3, <1>4, <1>5, <1>6, <1>7 DEF Program

LEMMA TypeStep == TypeInv /\ [Next]_vars => TypeInv'
<1> SUFFICES ASSUME TypeInv, [Next]_vars PROVE TypeInv'
  OBVIOUS
<1>1. CASE \E t \in Tasks : Program(t)
  BY <1>1, ProgramStep
<1>2. CASE \E t \in Tasks : Launch(t)
  BY <1>2 DEF Launch, TypeInv
<1>3. CASE ExitClose
  BY <1>3, ExitCloseStep
<1>4. CASE ExitEnd
  BY <1>4, EndStep
<1>5. CASE \E name \in Names, content \in Pieces : Other(name, content)
  BY <1>5, OtherStep
<1>6. CASE UNCHANGED vars
  BY <1>6 DEF vars, TypeInv
<1> QED BY <1>1, <1>2, <1>3, <1>4, <1>5, <1>6 DEF Next

LEMMA TypeAlways == Spec => []TypeInv
<1> QED BY TypeInit, TypeStep, PTL DEF Spec

(* Every variable stays in its range; a position never passes the end of   *)
(* its buffer (sys_lseek, sys_write).                                      *)
THEOREM TypeCorrect == Spec => []TypeOK
<1>1. TypeInv => TypeOK
  <2> SUFFICES ASSUME TypeInv PROVE TypeOK
    OBVIOUS
  <2>1. ASSUME NEW t \in Tasks, NEW i \in Fds, fds[t][i].open
        PROVE  LET f == fds[t][i]
               IN  f.data \in Contents /\ f.pos \in 0..Len(f.data) /\ f.name \in Names
    <3>1. fds[t][i] \in FdType /\ FdGood(fds[t][i])
      BY DEF TypeInv
    <3>2. /\ fds[t][i].data \in Contents /\ fds[t][i].pos \in 0..OpenMax
          /\ fds[t][i].pos <= Len(fds[t][i].data) /\ fds[t][i].name \in Names
      BY <2>1, <3>1 DEF FdType, FdGood
    <3> QED BY <3>2, ContentsFact, OpenMaxNat
  <2> QED BY <2>1 DEF TypeInv, TypeOK, Exits
<1> QED BY <1>1, TypeAlways, PTL

LEMMA WritersStep ==
  ASSUME TypeInv, [Next]_vars, NEW t \in Tasks, NEW i \in Fds,
         fds[t][i].open, ~fds'[t][i].open, NEW name \in Names, files'[name] # files[name]
  PROVE  fds[t][i].name = name /\ fds[t][i].wrote
<1>1. ASSUME NEW u \in Tasks, NEW j \in Fds, fds[u][j].open, NEW ret, CloseFd(u, j, ret)
      PROVE  fds[t][i].name = name /\ fds[t][i].wrote
  <2>1. fds' = [fds EXCEPT ![u][j] = NoFile]
    BY <1>1, CloseFact
  <2>2. u = t /\ j = i
    BY <2>1 DEF TypeInv
  <2>3. fds[t][i].dirty /\ fds[t][i].name = name
    BY <1>1, <2>2, CloseFact
  <2> QED BY <2>3 DEF TypeInv, FdGood
<1>2. ASSUME NEW u \in Tasks, Program(u)
      PROVE  fds[t][i].name = name /\ fds[t][i].wrote
  <2>1. ASSUME NEW n \in Names, NEW flags \in Flags, Open(u, n, flags) PROVE fds'[t][i].open
    BY <2>1 DEF Open, TypeInv
  <2>2. ASSUME NEW j \in Fds, NEW bytes \in Pieces, Write(u, j, bytes) PROVE UNCHANGED files
    BY <2>2 DEF Write
  <2>3. ASSUME NEW j \in Fds, NEW k \in Nat, Seek(u, j, k) \/ Read(u, j, k) \/ WriteNothing(u, j) PROVE UNCHANGED files
    BY <2>3 DEF Seek, Read, WriteNothing
  <2>4. ASSUME NEW j \in Fds, Close(u, j) PROVE fds[t][i].name = name /\ fds[t][i].wrote
    BY <2>4, <1>1 DEF Close
  <2>5. CASE Exit(u)
    BY <2>5 DEF Exit
  <2>6. 0..OpenMax \subseteq Nat /\ 1..OpenMax \subseteq Nat
    BY OpenMaxNat
  <2> QED BY <1>2, <2>1, <2>2, <2>3, <2>4, <2>5, <2>6 DEF Program
<1>3. CASE \E u \in Tasks : Launch(u)
  BY <1>3 DEF Launch
<1>4. CASE ExitClose
  <2>1. exiting.task \in Tasks /\ exiting.at \in Fds
    BY <1>4, FilesAssumption DEF ExitClose, TypeInv, Exits, Fds, FilesAssumption
  <2> QED BY <1>1, <1>4, <2>1 DEF ExitClose, Place
<1>5. CASE ExitEnd \/ UNCHANGED vars
  BY <1>5 DEF ExitEnd, vars
<1>6. CASE \E n \in Names, content \in Pieces : Other(n, content)
  BY <1>6 DEF Other
<1> QED BY <1>2, <1>3, <1>4, <1>5, <1>6 DEF Next

(* A descriptor that was only read from never brings its snapshot back     *)
(* over what others wrote since (flush_fd's test of dirty).                *)
THEOREM ReadersLeaveBe == Spec => OnlyWritersWrite
<1>1. TypeInv /\ [Next]_vars =>
        [\A t \in Tasks, i \in Fds :
           fds[t][i].open /\ ~fds'[t][i].open
             => \A name \in Names : files'[name] # files[name]
                  => fds[t][i].name = name /\ fds[t][i].wrote]_vars
  BY WritersStep
<1> QED BY <1>1, TypeAlways, PTL DEF Spec, OnlyWritersWrite
-----------------------------------------------------------------------------
(* An exit. *)

(* What the exit under way has done: the descriptors before its place are  *)
(* closed, the others as they were, and each file of the closed ones holds *)
(* what the last of them to be written had.                                *)
Passed == 1..(exiting.at - 1)
Progress ==
  exiting.task # 0 =>
    /\ \A i \in Fds : i < exiting.at => ~fds[exiting.task][i].open
    /\ \A i \in Fds : ~(i < exiting.at) => fds[exiting.task][i] = exiting.were[i]
    /\ \A i \in Fds : FdGood(exiting.were[i])
    /\ ~exiting.failed =>
         \A i \in Fds : i < exiting.at /\ LastOf(i, Passed)
           => files[exiting.were[i].name] = exiting.were[i].data
ExitInv == DeadHoldNothing /\ Progress

LEMMA ExitInit == Init => ExitInv
<1> SUFFICES ASSUME Init PROVE ExitInv
  OBVIOUS
<1>1. DeadHoldNothing
  BY DEF Init, DeadHoldNothing, NoFile
<1>2. exiting.task = 0
  BY DEF Init, NoExit
<1> QED BY <1>1, <1>2 DEF ExitInv, Progress

(* A step of a program or of others, while no exit is under way.           *)
LEMMA LivingStep ==
  ASSUME TypeInv, ExitInv, NEW t \in Tasks, alive[t], exiting.task = 0, exiting'.task = 0,
         UNCHANGED alive, NEW i \in Fds, NEW f, fds' = [fds EXCEPT ![t][i] = f]
  PROVE  ExitInv'
<1>1. \A u \in Tasks : u # t => fds'[u] = fds[u]
  BY DEF TypeInv
<1> QED BY <1>1 DEF ExitInv, DeadHoldNothing, Progress

LEMMA ExitingStep ==
  ASSUME TypeInv, ExitInv, ExitClose
  PROVE  ExitInv'
<1> DEFINE t == exiting.task
           at == exiting.at
           were == exiting.were
<1>1. /\ exiting \in Exits /\ t \in Tasks /\ t # 0 /\ at \in Fds /\ NFds \in Nat
      /\ were \in [Fds -> FdType]
  BY FilesAssumption DEF ExitClose, TypeInv, Exits, Fds, Tasks, FilesAssumption
<1>2. /\ exiting'.task = t /\ exiting'.at = at + 1 /\ exiting'.were = were
      /\ exiting'.failed = FALSE => exiting.failed = FALSE
      /\ UNCHANGED alive
  BY <1>1 DEF ExitClose, Exits
<1>3. fds[t][at] = were[at]
  BY <1>1 DEF ExitInv, Progress, Fds
<1>4. CASE ~fds[t][at].open
  <2>1. UNCHANGED <<files, fds>> /\ exiting'.failed = exiting.failed
    BY <1>1, <1>4 DEF ExitClose, Place, Exits
  <2>2. \A i \in Fds : i < at + 1 <=> i < at \/ i = at
    BY <1>1 DEF Fds
  <2>3. \A i \in Fds : LastOf(i, Passed)' => LastOf(i, Passed) /\ i # at
    BY <1>1, <1>2, <1>3, <1>4 DEF LastOf, Wrote, Passed, Fds
  <2>4. DeadHoldNothing'
    BY <1>2, <2>1 DEF ExitInv, DeadHoldNothing
  <2>5. Progress'
    BY <1>1, <1>2, <1>3, <1>4, <2>1, <2>2, <2>3 DEF ExitInv, Progress
  <2> QED BY <2>4, <2>5 DEF ExitInv
<1>5. CASE fds[t][at].open
  <2>1. PICK ret \in {0, -1} : CloseFd(t, at, ret) /\ exiting' = [exiting EXCEPT !.at = @ + 1, !.failed = @ \/ ret # 0]
    BY <1>1, <1>5 DEF ExitClose, Place
  <2>2. /\ \A u \in Tasks, i \in Fds : fds'[u][i] = IF u = t /\ i = at THEN NoFile ELSE fds[u][i]
        /\ ~fds[t][at].dirty => files' = files
        /\ \A n \in Names : n # fds[t][at].name => files'[n] = files[n]
        /\ fds[t][at].dirty /\ ret = 0 => files'[fds[t][at].name] = fds[t][at].data
    BY <1>1, <1>5, <2>1, CloseFact DEF TypeInv
  <2>3. ~exiting'.failed => ret = 0 /\ ~exiting.failed
    BY <1>1, <2>1 DEF Exits
  <2>4. DeadHoldNothing'
    BY <1>2, <2>2 DEF ExitInv, DeadHoldNothing, NoFile
  <2>5. ASSUME ~exiting'.failed, NEW i \in Fds, i < at + 1, LastOf(i, Passed)'
        PROVE  files'[were[i].name] = were[i].data
    <3>1. CASE i = at
      <4>1. were[at].dirty
        BY <1>2, <2>5, <3>1 DEF LastOf, Wrote
      <4> QED BY <1>3, <2>2, <2>3, <2>5, <3>1, <4>1
    <3>2. CASE i < at
      <4>1. LastOf(i, Passed) /\ were[i].name \in Names
        BY <1>1, <1>2, <2>5, <3>2 DEF LastOf, Wrote, Passed, Fds, ExitInv, Progress, FdGood
      <4>2. files[were[i].name] = were[i].data
        BY <1>1, <2>3, <2>5, <3>2, <4>1 DEF ExitInv, Progress
      <4>3. fds[t][at].dirty => were[at].name # were[i].name
        BY <1>1, <1>2, <1>3, <1>5, <2>5, <3>2 DEF LastOf, Wrote, Passed, Fds
      <4> QED BY <1>3, <2>2, <4>1, <4>2, <4>3
    <3> QED BY <1>1, <2>5, <3>1, <3>2 DEF Fds
  <2>6. ASSUME NEW i \in Fds
        PROVE  /\ i < at + 1 => ~fds'[t][i].open
               /\ ~(i < at + 1) => fds'[t][i] = were[i]
    <3>1. CASE i = at
      <4>1. fds'[t][i] = NoFile /\ i < at + 1
        BY <1>1, <2>2, <3>1 DEF Fds
      <4>2. ~NoFile.open
        BY DEF NoFile
      <4> HIDE DEF t, at, were
      <4> QED BY <4>1, <4>2
    <3>2. CASE i # at
      <4>1. fds'[t][i] = fds[t][i] /\ (i < at + 1 <=> i < at)
        BY <1>1, <2>2, <3>2 DEF Fds
      <4> QED BY <1>1, <4>1 DEF ExitInv, Progress
    <3> QED BY <3>1, <3>2
  <2>7. Progress'
    BY <1>1, <1>2, <2>5, <2>6 DEF ExitInv, Progress
  <2> QED BY <2>4, <2>7 DEF ExitInv
<1> QED BY <1>4, <1>5

LEMMA ExitInvStep == TypeInv /\ ExitInv /\ [Next]_vars => ExitInv'
<1> SUFFICES ASSUME TypeInv, ExitInv, [Next]_vars PROVE ExitInv'
  OBVIOUS
<1>1. ASSUME NEW t \in Tasks, Program(t), ~Exit(t) PROVE ExitInv'
  <2>1. ASSUME NEW name \in Names, NEW flags \in Flags, Open(t, name, flags) PROVE ExitInv'
    <3>1. PICK i \in Fds : \E f : fds' = [fds EXCEPT ![t][i] = f]
      BY <2>1 DEF Open
    <3>2. PICK f : fds' = [fds EXCEPT ![t][i] = f]
      BY <3>1
    <3> QED BY <2>1, <3>2, LivingStep DEF Open, Runs
  <2>2. ASSUME NEW i \in Fds, NEW bytes \in Pieces, Write(t, i, bytes) PROVE ExitInv'
    BY <2>2, LivingStep DEF Write, Runs
  <2>3. ASSUME NEW i \in Fds, NEW k \in Nat, Seek(t, i, k) \/ Read(t, i, k) \/ WriteNothing(t, i) PROVE ExitInv'
    <3>1. fds' = [fds EXCEPT ![t][i] = fds'[t][i]]
      BY SMTT(30), <2>3 DEF Seek, Read, WriteNothing, TypeInv
    <3>2. /\ alive[t] /\ exiting.task = 0 /\ exiting'.task = 0
          /\ UNCHANGED alive
      BY <2>3 DEF Seek, Read, WriteNothing, Runs
    <3>3. PICK f : f = fds'[t][i]
      OBVIOUS
    <3>4. fds' = [fds EXCEPT ![t][i] = f]
      BY ONLY <3>1, <3>3
    <3> QED BY <3>2, <3>4, LivingStep
  <2>4. ASSUME NEW i \in Fds, Close(t, i) PROVE ExitInv'
    BY <2>4, CloseFact, LivingStep DEF Close, Runs
  <2>5. 0..OpenMax \subseteq Nat /\ 1..OpenMax \subseteq Nat
    BY OpenMaxNat
  <2> QED BY <1>1, <2>1, <2>2, <2>3, <2>4, <2>5 DEF Program
<1>2. ASSUME NEW t \in Tasks, Exit(t) PROVE ExitInv'
  <2>1. DeadHoldNothing'
    BY <1>2 DEF Exit, Runs, ExitInv, DeadHoldNothing, TypeInv, Tasks
  <2>2. /\ exiting'.task = t /\ exiting'.at = 1 /\ exiting'.were = fds[t] /\ exiting'.failed = FALSE
        /\ UNCHANGED fds
    BY <1>2 DEF Exit
  <2>3. \A i \in Fds : ~(i < 1) /\ FdGood(fds[t][i])
    BY DEF TypeInv, Fds
  <2>4. Progress'
    BY <2>2, <2>3 DEF Progress
  <2> QED BY <2>1, <2>4 DEF ExitInv
<1>3. CASE \E t \in Tasks : Launch(t)
  BY <1>3 DEF Launch, ExitInv, DeadHoldNothing, Progress, TypeInv
<1>4. CASE ExitClose
  BY <1>4, ExitingStep
<1>5. CASE ExitEnd
  <2>1. \A i \in Fds : i < exiting.at
    BY <1>5, FilesAssumption DEF ExitEnd, TypeInv, Exits, Fds, FilesAssumption
  <2> QED BY <1>5, <2>1 DEF ExitEnd, ExitInv, DeadHoldNothing, Progress, NoExit
<1>6. CASE \E name \in Names, content \in Pieces : Other(name, content)
  BY <1>6 DEF Other, ExitInv, DeadHoldNothing, Progress
<1>7. CASE UNCHANGED vars
  BY <1>7 DEF vars, ExitInv, DeadHoldNothing, Progress, LastOf, Wrote, Passed
<1> QED BY <1>1, <1>2, <1>3, <1>4, <1>5, <1>6, <1>7 DEF Next

LEMMA ExitAlways == Spec => []ExitInv
<1> QED BY ExitInit, ExitInvStep, TypeAlways, PTL DEF Spec

(* The next program in a slot finds no descriptor of the one before        *)
(* (syscall_release_task, close_fd), whichever flush failed.               *)
THEOREM SlotsLeftEmpty == Spec => []DeadHoldNothing
<1>1. ExitInv => DeadHoldNothing
  BY DEF ExitInv
<1> QED BY <1>1, ExitAlways, PTL

(* After an exit whose flushes all worked, each file a program had written *)
(* to is that of the last descriptor in the table (syscall_release_task).  *)
THEOREM LastOneCounts == Spec => []ExitOrder
<1>1. TypeInv /\ ExitInv => ExitOrder
  <2> SUFFICES ASSUME TypeInv, ExitInv, exiting.task # 0, exiting.at > NFds, ~exiting.failed,
                      NEW i \in Fds, LastOf(i, Fds)
               PROVE  files[exiting.were[i].name] = exiting.were[i].data
    BY DEF ExitOrder
  <2>1. Passed = Fds /\ i < exiting.at
    BY FilesAssumption DEF TypeInv, Exits, Fds, Passed, FilesAssumption
  <2> QED BY <2>1 DEF ExitInv, Progress
<1> QED BY <1>1, TypeAlways, ExitAlways, PTL
-----------------------------------------------------------------------------
(* A close. *)

(* What the last close was of, and that it told the truth.                 *)
CloseInv ==
  /\ CloseHonest
  /\ last.file.data \in Contents /\ last.file.orig \in Contents
  /\ last.file.append => Begins(last.file.data, last.file.orig)

LEMMA NoCloseFact ==
  /\ NoClose.file.dirty = FALSE /\ NoClose.file.append = FALSE
  /\ NoClose.file.data \in Contents /\ NoClose.file.orig \in Contents
BY EmptyContents DEF NoClose, NoFile

LEMMA ClosingStep ==
  ASSUME TypeInv, NEW t \in Tasks, NEW i \in Fds, fds[t][i].open, NEW ret, CloseFd(t, i, ret)
  PROVE  CloseInv'
<1> DEFINE f == fds[t][i]
<1>1. f \in FdType /\ FdGood(f)
  BY DEF TypeInv
<1>2. f.dirty /\ ret = 0 => files'[f.name] = f.data
  BY CloseFact
<1>3. last' = [file |-> [f EXCEPT !.pos = 0], ret |-> ret]
  BY DEF CloseFd
<1> HIDE DEF f
<1>4. /\ last'.file.dirty = f.dirty /\ last'.file.name = f.name /\ last'.file.data = f.data
      /\ last'.file.orig = f.orig /\ last'.file.append = f.append /\ last'.ret = ret
      /\ f.data \in Contents /\ f.orig \in Contents
  BY <1>1, <1>3 DEF FdType
<1>5. CloseHonest'
  BY <1>2, <1>4 DEF CloseHonest
<1>6. last'.file.append => Begins(last'.file.data, last'.file.orig)
  BY <1>1, <1>4 DEF FdGood
<1> QED BY <1>4, <1>5, <1>6 DEF CloseInv

LEMMA CloseInvStep == TypeInv /\ CloseInv /\ [Next]_vars => CloseInv'
<1> SUFFICES ASSUME TypeInv, CloseInv, [Next]_vars PROVE CloseInv'
  OBVIOUS
<1>1. last' = NoClose => CloseInv'
  BY NoCloseFact DEF CloseInv, CloseHonest
<1>2. ASSUME NEW t \in Tasks, NEW i \in Fds, Close(t, i) PROVE CloseInv'
  BY <1>2, ClosingStep DEF Close
<1>3. CASE ExitClose
  <2>1. exiting.task \in Tasks /\ exiting.at \in Fds
    BY <1>3, FilesAssumption DEF ExitClose, TypeInv, Exits, Fds, FilesAssumption
  <2>2. CASE UNCHANGED <<files, last>>
    BY <2>2 DEF CloseInv, CloseHonest
  <2> QED BY <1>3, <2>1, <2>2, ClosingStep DEF ExitClose, Place
<1>4. CASE UNCHANGED vars
  BY <1>4 DEF vars, CloseInv, CloseHonest
<1>5. ASSUME NEW t \in Tasks, Program(t), \A i \in Fds : ~Close(t, i) PROVE last' = NoClose
  BY <1>5 DEF Program, Open, Write, WriteNothing, Seek, Read, Exit
<1>6. ASSUME NEW t \in Tasks, Launch(t) PROVE last' = NoClose
  BY <1>6 DEF Launch
<1>7. ExitEnd => last' = NoClose
  BY DEF ExitEnd
<1>8. ASSUME NEW name \in Names, NEW content \in Pieces, Other(name, content) PROVE last' = NoClose
  BY <1>8 DEF Other
<1> QED BY <1>1, <1>2, <1>3, <1>4, <1>5, <1>6, <1>7, <1>8 DEF Next

LEMMA CloseAlways == Spec => []CloseInv
<1>1. Init => CloseInv
  BY NoCloseFact DEF Init, CloseInv, CloseHonest
<1> QED BY <1>1, CloseInvStep, TypeAlways, PTL DEF Spec

(* A close that returns 0 has told the truth, to the last byte, whatever   *)
(* the backend keeps of a write (flush_fd's read back).                    *)
THEOREM ZeroMeansWritten == Spec => []CloseHonest
<1>1. CloseInv => CloseHonest
  BY DEF CloseInv
<1> QED BY <1>1, CloseAlways, PTL

(* A descriptor opened to append takes nothing away of what it found       *)
(* (write_file_fd's O_APPEND).                                             *)
THEOREM AppendsAdd == Spec => []AppendKeeps
<1>1. CloseInv => AppendKeeps
  BY BeginsFact DEF CloseInv, CloseHonest, AppendKeeps
<1> QED BY <1>1, CloseAlways, PTL

(* The run's invariant, from its two halves.                               *)
THEOREM TableInOrder == Spec => []DescriptorsSound
BY TypeCorrect, SlotsLeftEmpty, PTL DEF DescriptorsSound
=============================================================================
