------------------------------- MODULE MCNsfs -------------------------------
(* Values for the constants of Nsfs, for model checking.                   *)
EXTENDS Nsfs

HD(comps) == [disk |-> "hd0", comps |-> comps]
FD(comps) == [disk |-> "fd0", comps |-> comps]

A  == HD(<<"a">>)
B  == HD(<<"b">>)
D  == HD(<<"d">>)
DA == HD(<<"d", "a">>)
DB == HD(<<"d", "b">>)

SameName == [x \in {"a", "b", "d", "e", KernelName} |-> x]

Put(p, off, v, trunc) ==
  [path |-> p, off |-> off, val |-> v, create |-> TRUE, truncate |-> trunc]

(* Files: two files of up to two blocks, written, overwritten, truncated,  *)
(* deleted, copied and moved over each other, with room for all of them.   *)
FilePaths  == {A, B}
FileWrites == {Put(A, 0, "x", TRUE), Put(A, 1, "y", FALSE),
               Put(B, 0, "y", TRUE), Put(B, 1, "x", FALSE)}
FilePairs  == {<<A, B>>, <<B, A>>}

(* Trees: a file in a directory, of one block or two, the directories      *)
(* created, deleted, copied and moved with what they hold, within a hard   *)
(* disk and to a floppy disk, which is formatted and cloned to.            *)
E   == HD(<<"e">>)
EA  == HD(<<"e", "a">>)
FE  == FD(<<"e">>)
FEA == FD(<<"e", "a">>)
TreePaths   == {D, DA, E, EA, FE, FEA, FD(<<"d">>), FD(<<"d", "a">>)}
TreeDirs    == {D}
TreeWrites  == {Put(DA, 0, "x", TRUE), Put(EA, 1, "y", FALSE)}
TreeDeletes == {FE}
TreeMoves   == {<<D, E>>, <<E, FE>>}
TreeCopies  == {<<D, FE>>}

(* Cut: the same trees with files of one block, for calls cut short.       *)
CutWrites  == {Put(DA, 0, "x", TRUE), Put(DA, 0, "y", TRUE)}
CutMoves   == {<<D, E>>, <<E, FE>>}
(* Whatever stops the formatting of a disk stops a clone; nothing comes    *)
(* after.                                                                  *)
CutSpec    == Init /\ [][Next /\ call'.op # "format" /\ call.op # "clone"]_vars

(* Small: what it takes to fill a disk.                                    *)
SmallPaths  == {A, B, D}
SmallWrites == {Put(A, 0, "x", TRUE), Put(A, 1, "x", FALSE), Put(B, 0, "y", TRUE)}
SmallDirs   == {D}
SmallMoves  == {<<A, B>>}

(* A full table: a directory holding two files, after a file of the root   *)
(* was deleted.  The boot program is among the paths watched.              *)
FullPaths   == {A, D, DA, DB, HD(<<KernelName>>)}
FullWrites  == {Put(A, 0, "x", TRUE), Put(DA, 0, "x", TRUE), Put(DB, 0, "y", TRUE)}
FullDeletes == {A, D, DA}
FullDirs    == {D}
=============================================================================
