------------------------------- MODULE FsTree -------------------------------
(***************************************************************************)
(* What the file system promises: a tree of named directories and files    *)
(* (README.md:133-153, source/fs.h:109-262), with no entries, chains or    *)
(* blocks.  Every path is absent, a directory, or a file with contents.    *)
(*                                                                         *)
(* Running out of space is not part of the promise: Nsfs implements this   *)
(* specification on disks large enough for what its calls store.           *)
(***************************************************************************)
EXTENDS Naturals, Sequences

CONSTANTS
  Universe,      (* The paths, [disk, comps], closed under parents; the    *)
                 (* root directories are not in it: they always exist.     *)
  WriteCalls, MkdirPaths, DeletePaths, CopyPairs, MovePairs, Sparse,
  SystemDisk, FormatDisks

VARIABLES
  tree,          (* tree[p]: what path p is                                *)
  call           (* the last call and its outcome                          *)

treeVars == <<tree, call>>

Absent  == [kind |-> "none", data |-> <<>>]
ADir    == [kind |-> "dir",  data |-> <<>>]
File(f) == [kind |-> "file", data |-> f]

Prefix(s, n)  == SubSeq(s, 1, n)
IsAbove(p, q) == /\ p.disk = q.disk
                 /\ Len(p.comps) <= Len(q.comps)
                 /\ Prefix(q.comps, Len(p.comps)) = p.comps
Parent(p)     == [p EXCEPT !.comps = Prefix(@, Len(@) - 1)]
IsRoot(p)     == p.comps = <<>>

(* The path q below a, as seen when a is called b.                         *)
Rebase(q, a, b) == [disk  |-> b.disk,
                    comps |-> b.comps \o SubSeq(q.comps, Len(a.comps) + 1, Len(q.comps))]

Exists(t, p)      == t[p].kind # "none"
ParentIsDir(t, p) == IsRoot(Parent(p)) \/ t[Parent(p)] = ADir

(* One block v at position off of f.                                       *)
Written(f, off, v, truncate) ==
  LET size == IF off + 1 > Len(f) \/ truncate THEN off + 1 ELSE Len(f)
  IN  [i \in 1 .. size |-> IF i = off + 1 THEN v ELSE f[i]]

Pruned(t, p)       == [q \in Universe |-> IF IsAbove(p, q) THEN Absent ELSE t[q]]
Grafted(t, to, a, b) ==
  [q \in Universe |-> IF IsAbove(b, q)
                      THEN IF Rebase(q, b, a) \in Universe THEN t[Rebase(q, b, a)]
                                                           ELSE Absent
                      ELSE to[q]]

(* The checks of copy and move, in their order.                            *)
PairOutcome(t, a, b) ==
  CASE ~ParentIsDir(t, b) -> "not_found"
    [] ParentIsDir(t, b) /\ Exists(t, b) -> "exists"
    [] ParentIsDir(t, b) /\ ~Exists(t, b) /\ ~Exists(t, a) -> "not_found"
    [] OTHER -> "ok"

Says(op, args, out) == call' = [op |-> op, args |-> args, out |-> out]

-----------------------------------------------------------------------------

Init == /\ tree = [p \in Universe |-> Absent]
        /\ call = [op |-> "none", args |-> <<>>, out |-> "ok"]

Write ==
  \E c \in WriteCalls :
    LET p  == c.path
        ok == \/ tree[p].kind = "file"
              \/ ~Exists(tree, p) /\ c.create /\ ParentIsDir(tree, p)
    IN  /\ Says("write", <<c>>, IF ok THEN "ok" ELSE "not_found")
        /\ Sparse \/ c.off <= Len(tree[p].data)
        /\ tree' = IF ok THEN [tree EXCEPT ![p] =
                                 File(Written(@.data, c.off, c.val, c.truncate))]
                         ELSE tree

CreateDirectory ==
  \E p \in MkdirPaths :
    LET out == CASE ~ParentIsDir(tree, p) -> "not_found"
                 [] ParentIsDir(tree, p) /\ Exists(tree, p) -> "exists"
                 [] OTHER -> "ok"
    IN  /\ Says("mkdir", <<p>>, out)
        /\ tree' = IF out = "ok" THEN [tree EXCEPT ![p] = ADir] ELSE tree

Delete ==
  \E p \in DeletePaths :
    /\ Says("delete", <<p>>, IF Exists(tree, p) THEN "ok" ELSE "not_found")
    /\ tree' = Pruned(tree, p)

Copy ==
  \E c \in CopyPairs :
    /\ Says("copy", c, PairOutcome(tree, c[1], c[2]))
    /\ tree' = IF PairOutcome(tree, c[1], c[2]) = "ok"
               THEN Grafted(tree, tree, c[1], c[2]) ELSE tree

Move ==
  \E c \in MovePairs :
    /\ ~IsAbove(c[1], c[2])
    /\ Says("move", c, PairOutcome(tree, c[1], c[2]))
    /\ tree' = IF PairOutcome(tree, c[1], c[2]) = "ok"
               THEN Grafted(tree, Pruned(tree, c[1]), c[1], c[2]) ELSE tree

(* Formatting leaves no path of the disk, cloning those of the system      *)
(* disk.  When that has none the last result is that the boot program      *)
(* exists.                                                                 *)
Root(d)  == [disk |-> d, comps |-> <<>>]
IsEmpty(d) == \A q \in Universe : q.disk = d => ~Exists(tree, q)

Format ==
  \E d \in FormatDisks :
    /\ Says("format", <<Root(d)>>, "ok")
    /\ tree' = Pruned(tree, Root(d))

Clone ==
  \E d \in FormatDisks :
    /\ Says("clone", <<Root(d)>>, IF IsEmpty(SystemDisk) THEN "exists" ELSE "ok")
    /\ tree' = Grafted(tree, tree, Root(SystemDisk), Root(d))

Next == Write \/ CreateDirectory \/ Delete \/ Copy \/ Move \/ Format \/ Clone

Spec == Init /\ [][Next]_treeVars

-----------------------------------------------------------------------------
(* A file system is a tree: whatever exists is in a directory              *)
(* (README.md:133, "the directories are its branches").                    *)
IsTree == \A p \in Universe : Exists(tree, p) => ParentIsDir(tree, p)
=============================================================================
