------------------------------ MODULE NsfsTree ------------------------------
(***************************************************************************)
(* Nsfs implements FsTree.  The refinement mapping reads every path of the *)
(* disk back through fs_get_entry and the references of its entry; its     *)
(* value is kept in the history variable tree, which no action reads.      *)
(***************************************************************************)
EXTENDS Nsfs

VARIABLE tree   (* what a reader sees of the disk, path by path            *)

TreeInit == Init /\ tree = Tree
TreeNext == Next /\ tree' = TreeOf(tab', data')
TreeSpec == TreeInit /\ [][TreeNext]_<<vars, tree>>

Promise == INSTANCE FsTree

(* On a disk with room for everything its calls store, every call has the  *)
(* outcome the tree of paths gives it, and leaves the disk reading as that *)
(* tree: nothing else appears, disappears or changes contents.             *)
ImplementsTree == Promise!Spec
=============================================================================
