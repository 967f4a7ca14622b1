------------------------------ MODULE FatStore ------------------------------
(***************************************************************************)
(* What drivers/fat.c promises its callers, with no sectors in it: a tree  *)
(* of folders, each a map from names to nodes, that every call changes in  *)
(* one indivisible step or not at all, whatever the power does.  FatFs.tla *)
(* is the driver itself and is shown to implement this module.             *)
(*                                                                         *)
(* A folder is known by an opaque id (the driver's first cluster); FAT has *)
(* no rename or move here, so an id names the same folder all its life.    *)
(***************************************************************************)
EXTENDS Integers, Sequences

CONSTANTS Names,      \* 8.3 names
          Payloads,   \* what one cluster of file data can hold
          MaxLen,     \* the longest file, in clusters
          Ids,        \* ids a new folder can get
          Root        \* the id of the root folder, not one of Ids

VARIABLE tree         \* tree[d][n]: the node called n in folder d

Absent == [kind |-> "none"]
File(content) == [kind |-> "file", content |-> content]
Folder(id) == [kind |-> "dir", id |-> id]

Contents == UNION {[1..k -> Payloads] : k \in 0..MaxLen}
EmptyFolder == [n \in Names |-> Absent]

Init == tree = [d \in {Root} |-> EmptyFolder]

(* fat_write_file and fat_replace_file: the whole new content, at once. *)
Put(d, n, content) ==
  /\ tree[d][n].kind # "dir"
  /\ tree' = [tree EXCEPT ![d][n] = File(content)]

(* fat_write_at: the one call that is not atomic.  It overwrites a file in *)
(* place, cluster by cluster, and never changes its length.                *)
Overwrite(d, n, i, p) ==
  /\ tree[d][n].kind = "file"
  /\ i \in DOMAIN tree[d][n].content
  /\ tree' = [tree EXCEPT ![d][n].content[i] = p]

(* fat_delete: files only. *)
Delete(d, n) ==
  /\ tree[d][n].kind = "file"
  /\ tree' = [tree EXCEPT ![d][n] = Absent]

(* fat_mkdir: the new folder is empty the moment it can be seen. *)
Mkdir(d, n, id) ==
  /\ tree[d][n] = Absent
  /\ id \in Ids \ DOMAIN tree
  /\ tree' = [e \in DOMAIN tree \cup {id} |->
                IF e = id THEN EmptyFolder
                ELSE IF e = d THEN [tree[d] EXCEPT ![n] = Folder(id)]
                ELSE tree[e]]

(* fat_rmdir: empty folders only. *)
Rmdir(d, n) ==
  /\ tree[d][n].kind = "dir"
  /\ tree[tree[d][n].id] = EmptyFolder
  /\ tree' = [e \in DOMAIN tree \ {tree[d][n].id} |->
                IF e = d THEN [tree[d] EXCEPT ![n] = Absent] ELSE tree[e]]

(* A step that changes nothing is a stuttering step, never looked for. *)
Next == tree' # tree /\
  \E d \in DOMAIN tree, n \in Names :
    \/ \E content \in Contents : Put(d, n, content)
    \/ \E i \in DOMAIN (IF tree[d][n].kind = "file" THEN tree[d][n].content ELSE <<>>),
          p \in Payloads : Overwrite(d, n, i, p)
    \/ Delete(d, n)
    \/ \E id \in Ids : Mkdir(d, n, id)
    \/ Rmdir(d, n)

Spec == Init /\ [][Next]_tree
=============================================================================
