------------------------------- MODULE FatFs -------------------------------
(***************************************************************************)
(* drivers/fat.c: the FAT16/FAT32 driver as the sequence of sector writes  *)
(* it issues.  A sector write is the atomic unit: it happens whole, or not *)
(* at all (drivers/ata.c reports a failure only before any data moved).    *)
(* Between any two of them the power may fail (PowerCut); the next mount   *)
(* runs fat_recover.  drivers/vfs.c holds interrupts off round every call, *)
(* so one call at a time is in the driver: op is that call.                *)
(*                                                                         *)
(* Abstractions.  A cluster is one sector.  A file's size is counted in    *)
(* clusters.  A folder is one sector of Slots entries (the driver never    *)
(* grows one): dir_get_sector's remembered place in a longer folder        *)
(* (walk_dir, walk_skip, walk_cluster) is left out, and so are "." and     *)
(* "..".  An entry deleted with 0xE5 and one never used are both NoEntry:  *)
(* the first free slot is always taken, so no live entry follows a 0x00.   *)
(* Cluster numbers start at 1, not 2.                                      *)
(***************************************************************************)
EXTENDS Integers, FiniteSets, FiniteSetsExt, Sequences

CONSTANTS
  NClusters,    \* data clusters on the volume (total_clusters)
  NumFats,      \* copies of the FAT (num_fats)
  Row,          \* Row[c]: the FAT sector that holds c's entry
  NSlots,       \* entries in a folder's sector
  Names,        \* 8.3 names
  Payloads,     \* what one cluster of file data can hold
  MaxLen,       \* the longest file, in clusters
  Written,      \* the data callers write
  ScanMax,      \* SCAN_MAX_CLUSTERS: fat_recover leaves a larger volume alone
  ScanDepth,    \* SCAN_DEPTH: and one with a folder nested this deep
  Fat32,        \* has an FSInfo sector (fat32 and a valid fsinfo_lba)
  ReadErrors,   \* sector reads can fail
  WriteErrors   \* sector writes can fail

Clusters == 1..NClusters
Copies == 1..NumFats
Slots == 1..NSlots
Rows == {Row[c] : c \in Clusters}

FREE == 0               \* FAT value of a free cluster
EOC == NClusters + 1    \* end-of-chain mark (eoc_mark)
Root == 0               \* the root folder; also "no cluster" in an entry
Unknown == NClusters + 1 \* 0xFFFFFFFF in FSInfo: no count

(* What a sector can hold as a folder: it is told apart from file data.    *)
DirSectors == [Slots -> [kind: {"none", "file", "dir"}, name: Names \cup {""},
                         first: Clusters \cup {0}, size: 0..MaxLen]]

ASSUME VolumeAssumption ==
  /\ NClusters \in Nat \ {0} /\ NumFats \in Nat \ {0} /\ NSlots \in Nat \ {0}
  /\ ScanMax \in Nat \ {0} /\ ScanDepth \in Nat \ {0}
  /\ MaxLen \in Nat /\ Payloads # {} /\ \A x \in Payloads : x \notin DirSectors
  /\ Row \in [Clusters -> Nat]
  /\ Written \subseteq UNION {[1..k -> Payloads] : k \in 0..MaxLen}
  /\ {Fat32, ReadErrors, WriteErrors} \subseteq BOOLEAN

VARIABLES
  fat,      \* fat[f][c]: entry of cluster c in FAT copy f            (disk)
  disk,     \* disk[0]: root folder sector; disk[c]: cluster c        (disk)
  fsinfo,   \* free-cluster count in FSInfo, or Unknown               (disk)
  mounted,  \* mounted                                                (memory)
  fsDone,   \* fsinfo_done: FSInfo was already marked unknown         (memory)
  hint,     \* alloc_hint                                             (memory)
  at,       \* at_first, at_index, at_cluster: the read cursor        (memory)
  op,       \* the call in progress
  left      \* history: what the mount's fat_recover, giving up, left as it was

diskVars == <<fat, disk, fsinfo>>
vars == <<fat, disk, fsinfo, mounted, fsDone, hint, at, op, left>>
-----------------------------------------------------------------------------
(* Directory entries, sectors and chains. *)

NoEntry == [kind |-> "none", name |-> "", first |-> 0, size |-> 0]
Entry(kind, name, first, size) ==
  [kind |-> kind, name |-> name, first |-> first, size |-> size]
EmptyDir == [s \in Slots |-> NoEntry]

Contents == UNION {[1..k -> Payloads] : k \in 0..MaxLen}

(* Chain(first)[k]: the k-th cluster of the chain that starts at first,    *)
(* read from the first FAT copy; EOC or FREE once it has ended.            *)
Chain(first) ==
  LET at_[k \in 1..NClusters] ==
        IF k = 1 THEN first
        ELSE IF at_[k - 1] \in Clusters THEN fat[1][at_[k - 1]] ELSE EOC
  IN  at_

(* fat_read_at: what a caller reads from entry e.  A chain that ends early *)
(* cuts the file short.                                                    *)
Content(e) ==
  LET ch == Chain(e.first)
      have == {k \in 1..e.size : \A j \in 1..k : ch[j] \in Clusters}
  IN  [k \in have |-> disk[ch[k]]]

(* find_entry_in and find_free_slot: the first match in slot order, or 0. *)
FirstSlot(d, P(_)) ==
  LET hits == {s \in Slots : P(disk[d][s])} IN IF hits = {} THEN 0 ELSE Min(hits)
SlotOf(d, n) == FirstSlot(d, LAMBDA e : e.kind # "none" /\ e.name = n)
FreeSlot(d) == FirstSlot(d, LAMBDA e : e.kind = "none")
-----------------------------------------------------------------------------
(* Reachability, which fat_recover's scan computes: the least sets closed  *)
(* under "an entry of a reached folder names it" and "the FAT entry of a   *)
(* reached cluster names it".  Being least is stated as belonging to every *)
(* closed set.                                                             *)

IsFolder(d) == disk[d] \notin Payloads
Firsts(d, kinds) ==
  {disk[d][s].first : s \in {t \in Slots : disk[d][t].kind \in kinds}} \cap Clusters
FatLinks(X) == {fat[1][c] : c \in X} \cap Clusters

LiveDirs ==
  LET closed == {D \in SUBSET (Clusters \cup {Root}) :
                   Root \in D /\ \A d \in D : IsFolder(d) => Firsts(d, {"dir"}) \subseteq D}
  IN  {d \in Clusters \cup {Root} : \A D \in closed : d \in D}

Live ==
  LET named == UNION {Firsts(d, {"file", "dir"}) : d \in {e \in LiveDirs : IsFolder(e)}}
      closed == {X \in SUBSET Clusters : named \subseteq X /\ FatLinks(X) \subseteq X}
  IN  {c \in Clusters : \A X \in closed : c \in X}
-----------------------------------------------------------------------------
(* The call in progress.  pc says which sector write comes next:           *)
(*   idle     no call                                                      *)
(*   alloc    alloc_cluster marks a free cluster end-of-chain              *)
(*   link     the previous cluster of the new chain points to first free   *)
(*   data     the new cluster's sector                                     *)
(*   seal     the last cluster of the new chain is marked end-of-chain     *)
(*   entry    the directory sector: the call takes effect here             *)
(*   poke     fat_write_at, one cluster                                    *)
(*   release  release_chain frees cluster rel, then does what then says    *)
(*   row, fsinfo   fat_recover                                             *)
(*   done     about to return ret                                          *)
NoOp == [pc |-> "idle", kind |-> "none", dir |-> Root, name |-> "", data |-> <<>>,
         slot |-> 0, old |-> 0, first |-> 0, prev |-> 0, cur |-> 0, i |-> 0,
         rel |-> 0, then |-> "none", cp |-> 1, ret |-> 0, live |-> {}, before |-> <<>>]

Done(o, r) == [NoOp EXCEPT !.pc = "done", !.kind = o.kind, !.dir = o.dir, !.name = o.name,
                           !.data = o.data, !.ret = r, !.before = o.before]

(* release_chain(c), then: "ok" return 1; "fail" return 0; "failed" the    *)
(* failed: label of write_file, which releases the chain built so far.     *)
AfterRelease_Mut(o, then) ==   \* mutated: no "return 1" ahead of the failed: label
  IF o.first # 0 /\ then # "fail"
  THEN [o EXCEPT !.pc = "release", !.rel = o.first, !.then = "fail", !.cp = 1] ELSE Done(o, 0)
AfterRelease_Mut2(o, then) == Done(o, 1)      \* mutated: failure reported as success
AfterRelease(o, then) ==
  CASE then = "ok" -> Done(o, 1)
    [] then = "failed" /\ o.first # 0 ->
         [o EXCEPT !.pc = "release", !.rel = o.first, !.then = "fail", !.cp = 1]
    [] OTHER -> Done(o, 0)
Release_Mut(o, c, then) == AfterRelease(o, then)      \* mutated: nothing freed
Release(o, c, then) ==
  IF c \in Clusters THEN [o EXCEPT !.pc = "release", !.rel = c, !.then = then, !.cp = 1]
  ELSE AfterRelease(o, then)
Failed(o) == Release(o, o.first, "fail")

(* The node called n in folder d, as a caller sees it. *)
NodeAt(d, n) ==
  LET s == SlotOf(d, n)
  IN  IF s = 0 THEN [kind |-> "none"]
      ELSE IF disk[d][s].kind = "dir" THEN [kind |-> "dir", id |-> disk[d][s].first]
      ELSE [kind |-> "file", content |-> Content(disk[d][s])]
-----------------------------------------------------------------------------
(* Writing the FAT. *)

NoAt == [first |-> 0, index |-> 0, cluster |-> 0]

(* fsinfo_unknown: before the first FAT change after a mount.  fsinfo_done *)
(* is set even when the sector cannot be read or written.                  *)
NeedsUnknown_Mut == Fat32 /\ ~fsDone /\ op.kind # "delete"   \* mutated: fat_delete forgets it
NeedsUnknown == Fat32 /\ ~fsDone
MarkUnknown ==
  /\ NeedsUnknown
  /\ fsDone' = TRUE
  /\ \/ fsinfo' = Unknown
     \/ (ReadErrors \/ WriteErrors) /\ UNCHANGED fsinfo
  /\ UNCHANGED <<fat, disk, mounted, hint, at, op, left>>

(* fat_entry_write(c, v): the sector is read from the first copy, changed, *)
(* and written to every copy in turn; op.cp is the copy written next.  At  *)
(* the last copy the call goes on as ok, at a failure as fail.  mid is the *)
(* call between two copies.                                                *)
FatPut(c, v, mid, ok, fail) ==
  /\ ~NeedsUnknown
  /\ \/ /\ fat' = [fat EXCEPT ![op.cp] =
                     [k \in Clusters |-> IF k = c THEN v
                                         ELSE IF Row[k] = Row[c] THEN fat[1][k]
                                         ELSE fat[op.cp][k]]]
        /\ op' = IF op.cp = NumFats THEN [ok EXCEPT !.cp = 1]
                 ELSE [mid EXCEPT !.cp = op.cp + 1]
     \/ /\ WriteErrors \/ (ReadErrors /\ op.cp = 1)
        /\ op' = [fail EXCEPT !.cp = 1]
        /\ UNCHANGED fat
  /\ UNCHANGED <<disk, fsinfo, mounted, fsDone, at, left>>

(* alloc_cluster: the first free cluster from the hint on, wrapping. *)
FromHint(k) == 1 + ((hint + k) % NClusters)
FreeFromHint_Mut ==      \* mutated: an end-of-chain entry taken for a free one
  {k \in 0..(NClusters - 1) : fat[1][FromHint(k)] \in {FREE, EOC}}
FreeFromHint == {k \in 0..(NClusters - 1) : fat[1][FromHint(k)] = FREE}

Alloc ==
  /\ op.pc = "alloc"
  /\ \/ /\ op.cp = 1
        /\ FreeFromHint = {} \/ ReadErrors
        /\ op' = Failed(op)
        /\ UNCHANGED <<fat, disk, fsinfo, mounted, fsDone, hint, at, left>>
     \/ /\ op.cp > 1 \/ FreeFromHint # {}
        /\ LET c == IF op.cp > 1 THEN op.cur ELSE FromHint(Min(FreeFromHint))
               mid == [op EXCEPT !.cur = c]
               ok == IF op.first = 0 THEN [mid EXCEPT !.pc = "data", !.first = c, !.prev = c]
                     ELSE [mid EXCEPT !.pc = "link"]
           IN  /\ FatPut(c, EOC, mid, ok, Failed(op))
               /\ hint' = IF op'.pc \in {"data", "link"} THEN c ELSE hint

Link ==
  /\ op.pc = "link"
  /\ FatPut(op.prev, op.cur, op, [op EXCEPT !.pc = "data", !.prev = op.cur],
            Release(op, op.cur, "failed"))
  /\ UNCHANGED hint

Seal ==
  /\ op.pc = "seal"
  /\ FatPut(op.prev, EOC, op, [op EXCEPT !.pc = "entry"], Failed(op))
  /\ UNCHANGED hint

(* release_chain: the next cluster is read before this one is freed; a     *)
(* failed read or write leaves the rest of the chain allocated.            *)
ReleaseStep ==
  /\ op.pc = "release"
  /\ \E next \in IF op.cp > 1 THEN {op.cur}
                 ELSE {fat[1][op.rel]} \cup (IF ReadErrors THEN {EOC} ELSE {}) :
       FatPut(op.rel, FREE, [op EXCEPT !.cur = next],
              IF next \in Clusters THEN [op EXCEPT !.rel = next] ELSE AfterRelease(op, op.then),
              AfterRelease(op, op.then))
  /\ UNCHANGED hint
-----------------------------------------------------------------------------
(* Writing data and directory sectors. *)

memVars == <<mounted, fsDone, hint, at, left>>

(* The new cluster's sector: file data, or the empty folder of fat_mkdir. *)
WriteData ==
  /\ op.pc = "data"
  /\ \/ /\ disk' = [disk EXCEPT ![op.cur] =
                      IF op.kind = "mkdir" THEN EmptyDir ELSE op.data[op.i + 1]]
        /\ op' = IF op.kind = "mkdir" THEN [op EXCEPT !.pc = "entry"]
                 ELSE [op EXCEPT !.i = @ + 1,
                                 !.pc = IF op.i + 1 < Len(op.data) THEN "alloc" ELSE "seal"]
     \/ WriteErrors /\ op' = Failed(op) /\ UNCHANGED disk
  /\ UNCHANGED <<fat, fsinfo, memVars>>

FileEntry_Mut == Entry("file", op.name, op.first, Len(op.data) + 1)   \* mutated: size rounded up once too often
FileEntry_Mut2 == Entry("file", op.name, op.prev, Len(op.data))      \* mutated: last cluster for first
FileEntry == Entry("file", op.name, op.first, Len(op.data))
NewEntry ==
  CASE op.kind = "write" -> FileEntry
    [] op.kind = "mkdir" -> Entry("dir", op.name, op.first, 0)
    [] OTHER -> NoEntry     \* name[0] = 0xE5

(* The one directory sector write that makes the call take effect.  The    *)
(* old clusters are freed after it, and only then.                         *)
WriteEntry ==
  /\ op.pc = "entry"
  /\ \/ /\ disk' = [disk EXCEPT ![op.dir][op.slot] = NewEntry]
        /\ op' = Release(op, op.old, "ok")
     \/ /\ ReadErrors /\ op.kind # "delete"
        /\ op' = IF op.kind = "rmdir" THEN Done(op, 0) ELSE Failed(op)
        /\ UNCHANGED disk
     \/ /\ WriteErrors
        /\ op' = IF op.kind = "mkdir" THEN Failed(op) ELSE Done(op, 0)
        /\ UNCHANGED disk
  /\ UNCHANGED <<fat, fsinfo, memVars>>

(* fat_write_at, one whole cluster in place. *)
Poke ==
  /\ op.pc = "poke"
  /\ \/ /\ op.cur \in Clusters
        /\ disk' = [disk EXCEPT ![op.cur] = op.data[op.i + 1]]
        /\ \E next \in {fat[1][op.cur]} \cup (IF ReadErrors THEN {EOC} ELSE {}) :
             op' = IF op.i + 1 < Len(op.data) /\ next \in Clusters
                   THEN [op EXCEPT !.i = @ + 1, !.cur = next]
                   ELSE Done(op, op.i + 1)
     \/ /\ op.cur \notin Clusters \/ WriteErrors
        /\ op' = Done(op, op.i)
        /\ UNCHANGED disk
  /\ UNCHANGED <<fat, fsinfo, memVars>>
-----------------------------------------------------------------------------
(* The calls.  Each starts in the current folder d, which is any folder a  *)
(* caller can have walked to, and forgets the read cursor.                 *)

Idle == mounted /\ op.pc = "idle"
Folders == {d \in LiveDirs : IsFolder(d)}

(* find_entry_in says "not there" for a sector it cannot read. *)
Find_Mut(d, n) == {0}      \* mutated: no name ever matches
Find(d, n) == {SlotOf(d, n)} \cup (IF ReadErrors THEN {0} ELSE {})

Begin_Mut(o) ==      \* mutated: the read cursor is kept
  /\ op' = [o EXCEPT !.before = NodeAt(o.dir, o.name)]
  /\ UNCHANGED <<diskVars, memVars>>
Begin(o) ==
  /\ op' = [o EXCEPT !.before = NodeAt(o.dir, o.name)]
  /\ at' = NoAt
  /\ UNCHANGED <<diskVars, mounted, fsDone, hint, left>>

Call(kind, d, n) == [NoOp EXCEPT !.kind = kind, !.dir = d, !.name = n]

(* fat_write_file (replace FALSE) and fat_replace_file (replace TRUE). *)
WriteFile(d, n, data, replace) ==
  /\ Idle
  /\ \E s \in Find(d, n) :
       LET old == IF s = 0 THEN NoEntry ELSE disk[d][s]
           slot == IF s = 0 THEN FreeSlot(d) ELSE s
       IN  /\ slot # 0
           /\ s # 0 => replace /\ old.kind = "file"
           /\ Begin([Call("write", d, n) EXCEPT
                       !.data = data, !.slot = slot, !.old = old.first,
                       !.pc = IF data = <<>> THEN "entry" ELSE "alloc"])

(* fat_write_at from cluster i of the file on.  The walk to it ends, and   *)
(* nothing is written, where a FAT sector cannot be read.                  *)
WriteAt(d, n, i, data) ==
  /\ Idle
  /\ \E s \in Find(d, n) \ {0} :
       /\ disk[d][s].kind = "file"
       /\ i + Len(data) <= disk[d][s].size
       /\ \/ Begin([Call("writeat", d, n) EXCEPT
                      !.data = data, !.cur = Chain(disk[d][s].first)[i + 1], !.pc = "poke"])
          \/ ReadErrors /\ i > 0 /\ Begin([Call("writeat", d, n) EXCEPT !.pc = "done"])

(* fat_delete looks for the name itself, and passes folders over. *)
FileSlotOf(d, n) == FirstSlot(d, LAMBDA e : e.kind = "file" /\ e.name = n)
DeleteFile(d, n) ==
  /\ Idle
  /\ \E s \in {FileSlotOf(d, n)} \ {0} :
       /\ Begin([Call("delete", d, n) EXCEPT
                   !.slot = s, !.old = disk[d][s].first, !.pc = "entry"])

MakeDir(d, n) ==
  /\ Idle
  /\ 0 \in Find(d, n)
  /\ FreeSlot(d) # 0
  /\ Begin([Call("mkdir", d, n) EXCEPT !.slot = FreeSlot(d), !.pc = "alloc"])

(* fat_rmdir's scan. *)
IsEmptyFolder_Mut(d) == IsFolder(d)      \* mutated: not scanned
IsEmptyFolder(d) == disk[d] = EmptyDir
RemoveDir(d, n) ==
  /\ Idle
  /\ \E s \in Find(d, n) \ {0} :
       /\ disk[d][s].kind = "dir"
       /\ IsEmptyFolder(disk[d][s].first)
       /\ Begin([Call("rmdir", d, n) EXCEPT
                   !.slot = s, !.old = disk[d][s].first, !.pc = "entry"])

(* fat_read_at, one cluster: the chain is walked from the cursor when it   *)
(* is for this file and not past the cluster wanted, else from the start.  *)
CursorServes(first, want) == at # NoAt /\ at.first = first /\ at.index <= want
ReadAt(d, n, want) ==
  /\ Idle
  /\ \E s \in Find(d, n) \ {0} :
       LET e == disk[d][s]
           from == IF CursorServes(e.first, want) THEN at.cluster ELSE e.first
           skip == IF CursorServes(e.first, want) THEN at.index ELSE 0
           cluster == Chain(from)[want - skip + 1]
       IN  /\ e.kind = "file"
           /\ want < e.size
           /\ cluster \in Clusters
           /\ at' = [first |-> e.first, index |-> want, cluster |-> cluster]
  /\ UNCHANGED <<diskVars, mounted, fsDone, hint, op, left>>

(* A call that changes files and is refused still forgets the cursor. *)
Refused ==
  /\ Idle
  /\ at' = NoAt
  /\ UNCHANGED <<diskVars, mounted, fsDone, hint, op, left>>

Return ==
  /\ op.pc = "done"
  /\ op' = NoOp
  /\ UNCHANGED <<diskVars, memVars>>
-----------------------------------------------------------------------------
(* Mounting, with fat_recover, and the power failing. *)

(* The folders k levels down, and whether the scan meets one too deep.     *)
Nested ==
  LET at_[k \in 0..ScanDepth] ==
        IF k = 0 THEN {Root} ELSE UNION {Firsts(d, {"dir"}) : d \in {e \in at_[k - 1] : IsFolder(e)}}
  IN  at_
TooDeep == Nested[ScanDepth] # {}

(* What a mount that repairs nothing leaves: the clusters that no entry    *)
(* reaches, and the FAT sectors whose copies differ.                       *)
Used == {c \in Clusters : fat[1][c] # FREE}
NothingLeft == [lost |-> {}, rows |-> {}]
Leftover == [lost |-> Used \ Live,
             rows |-> {Row[c] : c \in {k \in Clusters : \E f \in Copies : fat[f][k] # fat[1][k]}}]

(* fat_mount, and the scan of fat_recover.  It gives up, and the volume is *)
(* mounted as it is, when the volume is too large or too deep, on a sector *)
(* it cannot read, and whenever kmalloc has no memory for its bitmap.      *)
Mount ==
  /\ ~mounted /\ op.pc = "idle"
  /\ mounted' = TRUE /\ fsDone' = FALSE /\ hint' = 0 /\ at' = NoAt
  /\ \/ /\ NClusters <= ScanMax /\ ~TooDeep
        /\ op' = [NoOp EXCEPT !.kind = "mount", !.pc = "row", !.cur = Min(Rows), !.live = Live]
        /\ left' = NothingLeft
     \/ /\ op' = Done([NoOp EXCEPT !.kind = "mount"], 0)
        /\ left' = Leftover
  /\ UNCHANGED diskVars

(* The entries of FAT sector r with what no entry reaches freed. *)
Repaired(c) == IF c \in op.live THEN fat[1][c] ELSE FREE
InRow(r) == {c \in Clusters : Row[c] = r}
Dirty_Mut(r) == \E c \in InRow(r) : fat[1][c] # Repaired(c)      \* mutated: copies not compared
Dirty(r) == op.cp > 1 \/ \E f \in Copies, c \in InRow(r) : fat[f][c] # Repaired(c)
NextRow_Mut ==       \* mutated: wraps round to the rows already done
  LET later == {r \in Rows : r # op.cur}
  IN  [op EXCEPT !.cp = 1, !.pc = IF later = {} THEN "fsinfo" ELSE "row",
                 !.cur = IF later = {} THEN 0 ELSE Min(later)]
NextRow ==
  LET later == {r \in Rows : r > op.cur}
  IN  [op EXCEPT !.cp = 1, !.pc = IF later = {} THEN "fsinfo" ELSE "row",
                 !.cur = IF later = {} THEN 0 ELSE Min(later)]

RepairRow ==
  /\ op.pc = "row"
  /\ \/ /\ ~Dirty(op.cur)
        /\ op' = NextRow
        /\ UNCHANGED <<fat, left>>
     \/ /\ ReadErrors /\ op.cp = 1
        /\ op' = Done(op, 0)
        /\ left' = Leftover
        /\ UNCHANGED fat
     \/ /\ Dirty(op.cur) /\ ~NeedsUnknown
        /\ \/ fat' = [fat EXCEPT ![op.cp] =
                        [c \in Clusters |-> IF Row[c] = op.cur THEN Repaired(c) ELSE @[c]]]
           \/ WriteErrors /\ UNCHANGED fat
        /\ op' = IF op.cp < NumFats THEN [op EXCEPT !.cp = @ + 1] ELSE NextRow
        /\ UNCHANGED left
  /\ UNCHANGED <<disk, fsinfo, mounted, fsDone, hint, at>>

FreeCount == Cardinality({c \in Clusters : Repaired(c) = FREE})
FinishRepair ==
  /\ op.pc = "fsinfo"
  /\ op' = Done(op, 1)
  /\ \/ /\ Fat32 /\ fsinfo # FreeCount
        /\ fsinfo' = FreeCount /\ fsDone' = FALSE
     \/ /\ ~Fat32 \/ fsinfo = FreeCount \/ ReadErrors \/ WriteErrors
        /\ UNCHANGED <<fsinfo, fsDone>>
  /\ UNCHANGED <<fat, disk, mounted, hint, at, left>>

(* The power fails between two sector writes: memory is gone, the disk is  *)
(* as it is.                                                               *)
PowerCut ==
  /\ mounted
  /\ mounted' = FALSE /\ fsDone' = FALSE /\ hint' = 0 /\ at' = NoAt /\ op' = NoOp
  /\ left' = NothingLeft
  /\ UNCHANGED diskVars
-----------------------------------------------------------------------------
(* A freshly formatted volume. *)
Blank == CHOOSE x \in Payloads : TRUE
Init ==
  /\ fat = [f \in Copies |-> [c \in Clusters |-> FREE]]
  /\ disk = [d \in {Root} \cup Clusters |-> IF d = Root THEN EmptyDir ELSE Blank]
  /\ fsinfo = IF Fat32 THEN NClusters ELSE Unknown
  /\ mounted = FALSE /\ fsDone = FALSE /\ hint = 0 /\ at = NoAt /\ op = NoOp
  /\ left = NothingLeft

(* The call is about to write a FAT sector. *)
FatNext ==
  \/ op.pc \in {"link", "seal", "release"}
  \/ op.pc = "alloc" /\ FreeFromHint # {}
  \/ op.pc = "row" /\ Dirty(op.cur)

(* One step of the call in progress. *)
Step ==
  \/ FatNext /\ op.cp = 1 /\ MarkUnknown
  \/ Alloc \/ Link \/ Seal \/ ReleaseStep
  \/ WriteData \/ WriteEntry \/ Poke
  \/ RepairRow \/ FinishRepair \/ Return

Start ==
  \E d \in Folders, n \in Names :
    \/ \E data \in Written, replace \in BOOLEAN : WriteFile(d, n, data, replace)
    \/ \E i \in 0..(MaxLen - 1), data \in Written \ {<<>>} : WriteAt(d, n, i, data)
    \/ DeleteFile(d, n)
    \/ MakeDir(d, n)
    \/ RemoveDir(d, n)
    \/ \E want \in 0..(MaxLen - 1) : ReadAt(d, n, want)

Next == Step \/ Start \/ Refused \/ Mount \/ PowerCut

Spec == Init /\ [][Next]_vars

(* The driver is synchronous code with interrupts off: a call that has     *)
(* started always takes its next step.                                     *)
FairSpec == Spec /\ WF_vars(Step)
-----------------------------------------------------------------------------
(* Correctness. *)

Ops == [pc: {"idle", "alloc", "link", "data", "seal", "entry", "poke", "release", "row",
             "fsinfo", "done"},
        kind: {"none", "write", "writeat", "delete", "mkdir", "rmdir", "mount"},
        dir: Clusters \cup {Root}, name: Names \cup {""}, data: Contents,
        slot: Slots \cup {0}, old: Clusters \cup {0}, first: Clusters \cup {0},
        prev: Clusters \cup {0}, cur: Nat, i: 0..MaxLen, rel: Clusters \cup {0},
        then: {"none", "ok", "fail", "failed"}, cp: Copies, ret: 0..(MaxLen + 1),
        live: SUBSET Clusters, before: {<<>>}]

(* Every variable stays in its range; in particular no chain step, failed  *)
(* write or repair ever leaves a cluster number off the volume in the FAT, *)
(* a folder or the call in progress.                                       *)
TypeOK ==
  /\ fat \in [Copies -> [Clusters -> {FREE, EOC} \cup Clusters]]
  /\ disk \in [{Root} \cup Clusters -> Payloads \cup DirSectors]
  /\ fsinfo \in 0..NClusters \cup {Unknown}
  /\ mounted \in BOOLEAN /\ fsDone \in BOOLEAN /\ hint \in 0..NClusters
  /\ at \in [first: Clusters \cup {0}, index: Nat, cluster: Clusters \cup {0}]
  /\ [op EXCEPT !.before = <<>>] \in Ops
  /\ left \in [lost: SUBSET Clusters, rows: SUBSET Rows]

(* Whatever was cut short or failed, a cluster that a caller can reach is  *)
(* marked used, so alloc_cluster never hands it out a second time.         *)
NoDangling == \A c \in Live : fat[1][c] # FREE

(* A reachable cluster has one owner: one directory entry or one FAT link  *)
(* leads to it, never two ("never links one twice", fat_delete).           *)
NoCrossLink ==
  LET folders == Folders
      live == Live
      owners(c) ==
        {o \in folders \X Slots : disk[o[1]][o[2]].kind # "none" /\ disk[o[1]][o[2]].first = c}
        \cup {<<x>> : x \in {y \in live : fat[1][y] = c}}
  IN  \A c \in live : Cardinality(owners(c)) = 1

(* At every instant, and so after a cut at any of them, the chain of each  *)
(* file is as long as its entry says and ends there, and each folder's     *)
(* cluster holds a folder: the old file or the new one, never a part.      *)
WholeChains ==
  \A d \in LiveDirs :
    /\ IsFolder(d)
    /\ \A s \in Slots : disk[d][s].kind = "file" =>
         LET e == disk[d][s]
             ch == Chain(e.first)
         IN  IF e.size = 0 THEN e.first = 0
             ELSE /\ \A k \in 1..e.size : ch[k] \in Clusters /\ disk[ch[k]] \in Payloads
                  /\ fat[1][ch[e.size]] = EOC

(* Two files of one folder never have the same name: fat_write_file        *)
(* "returns 0 if the name already exists" (fat.h:47), so does fat_mkdir.   *)
UniqueNames ==
  \A d \in Folders, s, t \in Slots :
    disk[d][s].kind # "none" /\ disk[d][t].kind # "none" /\ disk[d][s].name = disk[d][t].name
      => s = t

(* At every instant, what a caller can reach is whole: marked used, owned  *)
(* once, and as long as its entry says.                                    *)
ChainsSound == NoDangling /\ NoCrossLink /\ WholeChains

(* With a disk that works, power cuts or not, that holds, no name is       *)
(* doubled, and no cluster number is off the volume.                       *)
VolumeSound == TypeOK /\ ChainsSound /\ UniqueNames

(* With a sound disk, no cluster is lost outside a call: every path out of *)
(* every call frees what it took and did not link, a full disk's included, *)
(* and mounting frees what a cut left.  Where fat_recover gave up, what it *)
(* found lost stays lost, is never handed out, and nothing joins it.       *)
NothingLost ==
  Idle => /\ Used = Live \cup left.lost
          /\ Live \cap left.lost = {}

(* With a sound disk, whenever the volume is mounted and no FAT write is   *)
(* under way, all the copies of the FAT are equal, but for the sectors     *)
(* whose copies already differed when fat_recover gave up.                 *)
MirrorsAgree ==
  mounted /\ op.pc \in {"idle", "done", "data", "entry", "poke"} =>
    \A f \in Copies, c \in Clusters : Row[c] \notin left.rows => fat[f][c] = fat[1][c]

(* FSInfo's free count is right or marked unknown at every instant, so an  *)
(* OS that mounts the volume next never trusts a stale count.              *)
FsInfoNeverWrong ==
  Fat32 => fsinfo \in {Unknown, Cardinality({c \in Clusters : fat[1][c] = FREE})}

(* The remembered read position is the one a walk from the start of any    *)
(* file it will be used for would reach: no reused cluster is ever read as *)
(* the old file's.                                                         *)
CursorRight ==
  at # NoAt => \A d \in Folders, s \in Slots :
    disk[d][s].kind = "file" /\ disk[d][s].first = at.first
      => Chain(at.first)[at.index + 1] = at.cluster

(* A call that reports success has taken effect and one that reports       *)
(* failure has changed nothing a caller can see, whichever write failed.   *)
ResultHonest ==
  op.pc = "done" /\ op.kind \in {"write", "delete", "mkdir", "rmdir"} =>
    LET now == NodeAt(op.dir, op.name)
    IN  IF op.ret = 0 THEN now = op.before
        ELSE CASE op.kind = "write" -> now = [kind |-> "file", content |-> op.data]
               [] op.kind = "mkdir" -> now.kind = "dir" /\ op.before.kind = "none"
                                       /\ disk[now.id] = EmptyDir
               [] OTHER -> now.kind = "none" /\ op.before.kind # "none"

(* Every call returns, whatever chain it walks: power cuts aside, the      *)
(* driver never spins.                                                     *)
CallsReturn == (op.pc # "idle") ~> (op.pc = "idle")

(* The driver implements the atomic store: each sector write either leaves *)
(* the tree a caller sees alone or makes one whole call's change.          *)
Tree == [d \in Folders |-> [n \in Names |-> NodeAt(d, n)]]
Store == INSTANCE FatStore WITH tree <- Tree, Ids <- Clusters
AtomicStore == Store!Spec
=============================================================================
