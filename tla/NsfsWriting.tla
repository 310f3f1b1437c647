---------------------------- MODULE NsfsWriting -----------------------------
(***************************************************************************)
(* The file system as a state machine, as far as programs create files,    *)
(* write, extend and truncate them, and create directories: one action per *)
(* file-system system call of the kernel (source/kernel.c), each the whole *)
(* handler, on disks whose only state is what is stored on them; and what  *)
(* a reader finds on the disks.  Nsfs adds the other calls.                *)
(*                                                                         *)
(* Which calls are made, on which paths, is a parameter: a configuration   *)
(* names the calls of the programs it considers.                           *)
(***************************************************************************)
EXTENDS FiniteSets, NsfsEntries

CONSTANTS
  Vals,        (* Contents a program writes into a block.                  *)
  Universe,    (* Every path some call may name, with their parents.       *)
  WriteCalls,  (* [path, off, val, create, truncate] of write_file calls.  *)
  MkdirPaths,
  Sparse,      (* Whether programs write beyond the end of a file; those   *)
               (* of the repository write sequentially.                    *)
  Reboot       (* Whether calls go on after one was cut short: there is    *)
               (* no repair, the disk is used as it was left.              *)

VARIABLES
  tab,    (* tab[d][n]: entries table of disk d                            *)
  data,   (* data[d][b]: blocks of disk d                                  *)
  call    (* the last call and its outcome                                 *)

vars == <<tab, data, call>>

Boot   == "boot"      (* contents of the boot block                        *)
Kernel == "kernel"    (* contents of the boot program                      *)
Blank  == "blank"     (* contents of a block never written                 *)
KernelName == "kernel.n16"
KernelEntry == 1

Now == [tab |-> tab, data |-> data, ret |-> 0, seen |-> {}]

Outcome(v) == CASE v = NOT_FOUND -> "not_found"
                [] v = EXISTS    -> "exists"
                [] v = NO_SPACE  -> "no_space"
                [] OTHER         -> "ok"

NoCall == [op |-> "none", args |-> <<>>, out |-> "ok"]

-----------------------------------------------------------------------------
(* A disk as mkfs leaves it: a root directory and the boot program in      *)
(* entry 1, its block the first data block.                                *)

FreshTable ==
  [n \in EntryIds |->
     CASE n = 0 -> [FreeEntry EXCEPT !.kind = "dir", !.name = ROOT_DIR_NAME,
                                     !.size = 1, !.ref[0] = KernelEntry]
       [] n = KernelEntry -> [FreeEntry EXCEPT !.kind = "file", !.name = KernelName,
                                               !.size = 1, !.ref[0] = FirstData]
       [] OTHER -> FreeEntry]

FreshData ==
  [b \in Blocks |-> CASE b = BootBlock -> Boot
                      [] b = FirstData -> Kernel
                      [] OTHER         -> Blank]

Init ==
  /\ tab  = [d \in Disks |-> FreshTable]
  /\ data = [d \in Disks |-> FreshData]
  /\ call = NoCall

(* The call returns: its state is the disk, its result the caller's.  Or,  *)
(* where the model is Cuttable, a sector write fails or the power goes at  *)
(* some point of it, and the disk stays as it was at that point.           *)
Complete(s, op, args) ==
  /\ tab' = s.tab
  /\ data' = s.data
  /\ call' = [op |-> op, args |-> args, out |-> Outcome(s.ret)]

CutShort(s, op, args) ==
  \E x \in s.seen : /\ tab' = x.tab
                    /\ data' = x.data
                    /\ call' = [op |-> op, args |-> args, out |-> "cut"]

Finish(s, op, args) == /\ Reboot \/ call.out # "cut"
                       /\ Complete(s, op, args) \/ CutShort(s, op, args)

SizeOf(p) == LET n == fs_get_entry(Now, p)
             IN  IF IsError(n) THEN 0 ELSE tab[p.disk][n].size

WriteFile ==
  \E c \in WriteCalls :
    /\ Sparse \/ c.off <= SizeOf(c.path)
    /\ Finish(fs_write_file(Now, c.path, c.off, c.val, c.create, c.truncate),
              "write", <<c>>)

CreateDirectory ==
  \E p \in MkdirPaths : Finish(fs_create_directory(Now, p), "mkdir", <<p>>)

WritingNext == WriteFile \/ CreateDirectory
WritingSpec == Init /\ [][WritingNext]_vars

-----------------------------------------------------------------------------
(* Reading the disk back.                                                  *)

Used(d, n)    == tab[d][n].kind # "free"
Chained(d, n) == /\ n # 0
                 /\ Used(d, n)
                 /\ tab[d][tab[d][n].parent].next = n
Heads(d)      == {n \in EntryIds : Used(d, n) /\ ~Chained(d, n)}
Dirs(d)       == {n \in Heads(d) : tab[d][n].kind = "dir"}
Files(d)      == {n \in Heads(d) : tab[d][n].kind = "file"}
Listed(d, n)  == LET list == fs_list(Now, d, n) IN {list[i] : i \in DOMAIN list}

(* The contents a reader gets through a path: absent, a directory, or the  *)
(* blocks of a file in order.                                              *)
Absent == [kind |-> "none", data |-> <<>>]
ADir   == [kind |-> "dir",  data |-> <<>>]
Content(t, x, p) ==
  LET n == Resolve(t, p)
  IN  CASE IsError(n) -> Absent
        [] ~IsError(n) /\ t[n].kind = "dir" -> ADir
        [] OTHER -> [kind |-> "file",
                     data |-> [i \in 1 .. t[n].size |-> BlockAt(t, x, n, i - 1)]]

TreeOf(t, x) == [p \in Universe |-> Content(t[p.disk], x[p.disk], p)]
Tree == TreeOf(tab, data)

-----------------------------------------------------------------------------
(* Properties.                                                             *)

(* Every entry, block and reference stays within the disk's layout, and a  *)
(* reference of a directory is an entry index, one of a file a data block  *)
(* or unused.                                                              *)
TypeOK ==
  /\ DOMAIN tab = Disks /\ DOMAIN data = Disks
  /\ \A d \in Disks :
       /\ DOMAIN tab[d] = EntryIds /\ DOMAIN data[d] = Blocks
       /\ \A n \in EntryIds :
            /\ tab[d][n].kind \in {"free", "dir", "file"}
            /\ tab[d][n].size \in 0 .. WORD - 1
            /\ tab[d][n].parent \in EntryIds /\ tab[d][n].next \in EntryIds
            /\ \A i \in RefIds : tab[d][n].ref[i] \in
                 IF tab[d][n].kind = "file" THEN {0} \cup DataBlocks ELSE EntryIds
       /\ \A b \in Blocks : data[d][b] \in Vals \cup {Boot, Kernel, Blank}

(* fs.h:80-97.  A chain is what next and parent say from both sides: the   *)
(* next entry is in use, is of the same kind and names this one as its     *)
(* parent, and no two entries share a next.                                *)
ChainsSound ==
  \A d \in Disks : \A n \in EntryIds :
    (Used(d, n) /\ tab[d][n].next # 0) =>
      LET m == tab[d][n].next
      IN  /\ tab[d][m].kind = tab[d][n].kind
          /\ tab[d][m].parent = n
          /\ \A k \in EntryIds \ {n} : Used(d, k) => tab[d][k].next # m

(* fs.h:83: chained entries carry the name of their head.                  *)
ChainNames ==
  \A d \in Disks : \A n \in EntryIds :
    (Used(d, n) /\ tab[d][n].next # 0) =>
      tab[d][tab[d][n].next].name = tab[d][n].name

(* A directory lists exactly the files and directories whose parent it is, *)
(* each once; its size counts them and its used references are packed      *)
(* before the unused ones (fs.h:77-90).  Every file and directory other    *)
(* than the root has a directory for parent.                               *)
DirectoriesConsistent ==
  \A d \in Disks :
    /\ \A n \in Heads(d) \ {0} : tab[d][n].parent \in Dirs(d)
    /\ \A p \in Dirs(d) :
         /\ Listed(d, p) = {n \in Heads(d) \ {0} : tab[d][n].parent = p}
         /\ Cardinality(Listed(d, p)) = tab[d][p].size
         /\ \A i \in RefIds : i >= tab[d][p].size => tab[d][p].ref[i] = 0

(* The directories form a tree: every file and directory is below the      *)
(* root, so that nothing allocated is out of reach of paths.               *)
Below(d) == Folded(LAMBDA seen, k : seen \cup {n \in EntryIds : Used(d, n) /\ tab[d][n].parent \in seen},
                   {0}, Hops)
NoOrphans ==
  \A d \in Disks : {n \in EntryIds : Used(d, n)} \subseteq Below(d)

(* README.md:153: a name is unique inside its directory, and looking it up *)
(* finds that file or directory and not a chained entry.                   *)
NamesUnique ==
  \A d \in Disks : \A n \in Heads(d) \ {0} :
    /\ LookupIn(tab[d], tab[d][n].parent, tab[d][n].name) = n
    /\ \A m \in Heads(d) \ {0, n} : <<tab[d][m].parent, tab[d][m].name>>
                                   # <<tab[d][n].parent, tab[d][n].name>>

(* Every block within a file's size is a data block of its own: no two     *)
(* positions of the same or of different files are stored in one block,    *)
(* and none in the boot block.                                             *)
Positions(d) == {x \in Files(d) \X RefIds : x[2] < tab[d][x[1]].size}
BlocksOwned ==
  \A d \in Disks :
    /\ \A x \in Positions(d) : tab[d][x[1]].ref[x[2]] \in DataBlocks
    /\ \A x, y \in Positions(d) :
         x # y => tab[d][x[1]].ref[x[2]] # tab[d][y[1]].ref[y[2]]

(* A freshly written disk still boots: the boot block and the boot program *)
(* in entry 1 are as they were when no call names them.                    *)
Bootable ==
  \A d \in Disks :
    /\ data[d][BootBlock] = Boot
    /\ tab[d][KernelEntry] = FreshTable[KernelEntry]
    /\ data[d][FirstData] = Kernel

(* The paths the last call concerns: those it names, and all below them.   *)
IsAbove(p, q) == /\ p.disk = q.disk
                 /\ Len(p.comps) <= Len(q.comps)
                 /\ SubSeq(q.comps, 1, Len(p.comps)) = p.comps
Named(c) == CASE c.op = "none"  -> {}
              [] c.op = "write" -> {c.args[1].path}
              [] OTHER          -> {c.args[i] : i \in 1 .. Len(c.args)}
Concerned(c) == {q \in Universe : \E p \in Named(c) : IsAbove(p, q)}

(* A call changes nothing but what its arguments name: every other path    *)
(* reads the same before and after, also when the call fails or is cut.    *)
OthersUntouched ==
  [][LET before == Tree
         after  == TreeOf(tab', data')
     IN  \A q \in Universe \ Concerned(call') : after[q] = before[q]]_vars
=============================================================================
