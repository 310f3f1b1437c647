----------------------------- MODULE MCNsfsTree -----------------------------
(* The instances of MCNsfs, for the refinement.  In a behaviour disks are  *)
(* formatted and cloned to, or directories deleted and copied: with both   *)
(* there are too many layouts.                                             *)
EXTENDS NsfsTree, MCNsfs

VARIABLE formats

(* The files on disks that are formatted have one block.                   *)
OneBlockFile == WriteFile /\ call'.args[1].off = 0

MCInit == TreeInit /\ formats \in BOOLEAN
MCNext ==
  /\ \/ formats /\ (OneBlockFile \/ CreateDirectory \/ Move \/ Format \/ Clone)
     \/ ~formats /\ (WriteFile \/ CreateDirectory \/ Move \/ Delete \/ Copy)
  /\ tree' = TreeOf(tab', data')
  /\ UNCHANGED formats
MCSpec == MCInit /\ [][MCNext]_<<vars, tree, formats>>
=============================================================================
