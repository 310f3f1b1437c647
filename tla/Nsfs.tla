-------------------------------- MODULE Nsfs --------------------------------
(***************************************************************************)
(* The file system as a state machine: the calls of NsfsWriting, and those *)
(* that delete, copy and move, and format and clone disks.                 *)
(***************************************************************************)
EXTENDS NsfsWriting, NsfsOps

CONSTANTS
  DeletePaths,
  CopyPairs, MovePairs,  (* <<source, destination>>                        *)
  SystemDisk,  (* The disk the system was started from.                    *)
  FormatDisks  (* Disks that are formatted, or cloned to.  The command     *)
               (* line refuses the system disk: formatting that erases the *)
               (* boot program before it is copied.                        *)

ASSUME FormatAssumption == FormatDisks \subseteq Disks \ {SystemDisk}

Delete ==
  \E p \in DeletePaths : Finish(fs_delete(Now, p), "delete", <<p>>)

Copy ==
  \E c \in CopyPairs : Finish(fs_copy(Now, c[1], c[2]), "copy", c)

Move ==
  \E c \in MovePairs : Finish(fs_move(Now, c[1], c[2]), "move", c)

Format ==
  \E d \in FormatDisks : Finish(fs_format(Now, SystemDisk, d), "format", <<Path(d, <<>>)>>)

Clone ==
  \E d \in FormatDisks : Finish(cli_clone(Now, SystemDisk, d), "clone", <<Path(d, <<>>)>>)

Next == WriteFile \/ CreateDirectory \/ Delete \/ Copy \/ Move \/ Format \/ Clone

Spec == Init /\ [][Next]_vars

-----------------------------------------------------------------------------
(* Properties.                                                             *)

(* The path q below a, as it is called when a is called b.                 *)
Rebase(q, a, b) == [disk  |-> b.disk,
                    comps |-> b.comps \o SubSeq(q.comps, Len(a.comps) + 1, Len(q.comps))]

(* A move loses nothing on the way: wherever it stops, each file of the    *)
(* source is whole under its old or its new path.                          *)
MoveNeverLoses ==
  [][LET before == Tree
         after  == TreeOf(tab', data')
     IN  call'.op = "move" =>
            \A q \in Universe : (IsAbove(call'.args[1], q) /\ before[q].kind = "file") =>
              before[q] \in {after[q], after[Rebase(q, call'.args[1], call'.args[2])]}]_vars

(* A delete, wherever it stops, leaves each file whole or gone.            *)
DeletesWhole ==
  [][LET before == Tree
         after  == TreeOf(tab', data')
     IN  call'.op = "delete" =>
            \A q \in Universe : after[q] \in {before[q], Absent}]_vars
=============================================================================
