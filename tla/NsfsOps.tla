------------------------------ MODULE NsfsOps ------------------------------
(***************************************************************************)
(* The calls that take entries out of directories or walk trees of them:   *)
(* delete, copy, move, format and clone (source/fs.c), on the entries and  *)
(* blocks of NsfsEntries.                                                  *)
(***************************************************************************)
EXTENDS FiniteSets, NsfsEntries

-----------------------------------------------------------------------------
(* Directory references.                                                   *)

(* The search loop of remove_ref_in_entry.  c is its local state: the      *)
(* index and copy of the current entry, the copy whose references are      *)
(* shifted in, the reference count it now believes and whether it found    *)
(* the reference.                                                          *)
RECURSIVE ShiftOut(_, _, _, _, _)
ShiftOut(s, d, ref, r, c) ==
  IF r >= c.count THEN [state |-> s, c |-> c]
  ELSE
    LET hop   == r = ENTRYREFS
        at    == c.cur.next
        here  == get_entry_n(write_entry(s, d, c.n, c.cur), d, at)
        s1    == IF hop THEN write_entry(s, d, c.n, c.cur) ELSE s
        r1    == IF hop THEN 0 ELSE r
        c1    == IF hop THEN [c EXCEPT !.n = at, !.cur = here, !.count = here.size]
                 ELSE IF r + 1 = ENTRYREFS
                 THEN [c EXCEPT !.nxt = IF c.nxt.next = 0 THEN FreeEntry
                                        ELSE get_entry_n(s, d, c.nxt.next)]
                 ELSE c
        found == c1.found \/ c1.cur.ref[r1] = ref
        c2    == [c1 EXCEPT !.found = found,
                            !.cur.ref[r1] = IF found
                               THEN c1.nxt.ref[(r1 + 1) % ENTRYREFS] ELSE @]
    IN  ShiftOut(s1, d, ref, r1 + 1, c2)

remove_ref_in_entry(s, d, n, ref) ==
  LET e    == get_entry_n(s, d, n)
      out  == ShiftOut(s, d, ref, 0,
                [n |-> n, cur |-> e, nxt |-> e, count |-> e.size, found |-> FALSE])
      c    == out.c
  IN  IF ~c.found THEN Return(out.state, 0)
      ELSE Then(set_entry_refcount(write_entry(out.state, d, c.n, c.cur),
                                   d, n, c.count - 1),
             LAMBDA t : IF e.kind = "dir"
                        THEN set_entry_size(t, d, n, c.count - 1)
                        ELSE t)
-----------------------------------------------------------------------------
(* Delete.                                                                 *)

(* delete_n works on the copy e of the entry it read first: the references *)
(* and the chain it follows are those from before its own changes.         *)
RECURSIVE delete_n(_, _, _)
RECURSIVE DeleteRefs(_, _, _, _)
DeleteRefs(s, d, e, b) ==
  IF e.kind # "dir" \/ b >= Lower(e.size, ENTRYREFS) THEN s
  ELSE Then(delete_n(s, d, e.ref[b]), LAMBDA t : DeleteRefs(t, d, e, b + 1))

delete_n_head(s, d, n) ==
  LET e == get_entry_n(s, d, n)
      emptied == Then(remove_ref_in_entry(s, d, e.parent, n),
                      LAMBDA t : DeleteRefs(t, d, e, 0))
  IN  Then(emptied, LAMBDA t : write_entry(t, d, n, FreeEntry))
delete_n_empties(s, d, n) ==
  LET e == get_entry_n(s, d, n)
      unlisted == remove_ref_in_entry(set_entry_size(s, d, n, 0), d, e.parent, n)
      emptied  == Then(unlisted, LAMBDA t : DeleteRefs(t, d, e, 0))
      chain    == Then(emptied, LAMBDA t :
                    IF e.next = 0 THEN t ELSE delete_n(t, d, e.next))
  IN  Then(chain, LAMBDA t : write_entry(t, d, n, FreeEntry))

delete_n(s, d, n) ==
  LET e == get_entry_n(s, d, n)
      unlisted == remove_ref_in_entry(s, d, e.parent, n)
      emptied  == Then(unlisted, LAMBDA t : DeleteRefs(t, d, e, 0))
      chain    == Then(emptied, LAMBDA t :
                    IF e.next = 0 THEN t ELSE delete_n(t, d, e.next))
  IN  Then(chain, LAMBDA t : write_entry(t, d, n, FreeEntry))

fs_delete(s, p) ==
  LET n == fs_get_entry(s, p)
  IN  IF IsError(n) THEN Return(s, n) ELSE delete_n(s, p.disk, n)
-----------------------------------------------------------------------------
(* Copy and move.                                                          *)

Child(p, name) == [p EXCEPT !.comps = Append(@, name)]

(* Copy a file block by block, both paths resolved again for every block.  *)
RECURSIVE CopyBlocks(_, _, _, _)
CopyBlocks(s, src, dst, off) ==
  LET n == fs_get_entry(s, src)
  IN  CASE IsError(n) -> Return(s, n)
        [] ~IsError(n) /\ off >= s.tab[src.disk][n].size -> Return(s, 0)
        [] OTHER ->
             Then(fs_write_file(s, dst, off, BlockAt(s.tab[src.disk], s.data[src.disk], n, off), TRUE, FALSE),
                  LAMBDA t : CopyBlocks(t, src, dst, off + 1))

RECURSIVE fs_copy(_, _, _)
RECURSIVE CopyRefs(_, _, _, _, _)
CopyRefs(s, e, src, dst, r) ==
  IF r >= e.size THEN Return(s, 0)
  ELSE LET name == get_entry_n(s, src.disk, e.ref[r]).name
       IN  Then(fs_copy(s, Child(src, name), Child(dst, name)),
                LAMBDA t : CopyRefs(t, e, src, dst, r + 1))

(* The checks fs_copy and fs_move share: destination parent, destination   *)
(* absent, source present.  0 when all hold.                               *)
CheckPair_over(s, src, dst) ==
  LET parent == ParentOf(s, dst)
  IN  IF IsError(parent) THEN parent ELSE Lower(fs_get_entry(s, src), 0)
CheckPair(s, src, dst) ==
  LET parent == ParentOf(s, dst)
      n == fs_get_entry(s, src)
  IN  CASE IsError(parent) -> parent
        [] ~IsError(parent)
             /\ ~IsError(LookupIn(s.tab[dst.disk], parent, Clean[NameOf(dst)])) -> EXISTS
        [] OTHER -> Lower(n, 0)

fs_copy(s, src, path) ==
  LET dst == Sanitize(path)
      e   == get_entry_n(s, src.disk, fs_get_entry(s, src))
  IN  CASE IsError(CheckPair(s, src, path)) -> Return(s, CheckPair(s, src, path))
        [] ~IsError(CheckPair(s, src, path)) /\ e.kind = "file" ->
             CopyBlocks(s, src, dst, 0)
        [] OTHER -> Then(fs_create_directory(s, dst),
                         LAMBDA t : CopyRefs(t, e, src, dst, 0))

(* Within one disk the entry is unlisted, rewritten with its new name and  *)
(* parent, and listed again; the chained entries are not rewritten.        *)
Relink_keeps(s, d, n, parent, name) ==
  LET e == get_entry_n(s, d, n)
  IN  Then(add_ref_in_entry(
             write_entry(s, d, n, [e EXCEPT !.name = name, !.parent = parent]),
             d, parent, n),
           LAMBDA u : Return(u, n))
Relink_frees(s, d, n, parent, name) ==
  LET e == get_entry_n(s, d, n)
  IN  Then(remove_ref_in_entry(write_entry(s, d, n, FreeEntry), d, e.parent, n), LAMBDA t :
        Then(add_ref_in_entry(
               write_entry(t, d, n, [e EXCEPT !.name = name, !.parent = parent]),
               d, parent, n),
             LAMBDA u : Return(u, n)))
Relink(s, d, n, parent, name) ==
  LET e == get_entry_n(s, d, n)
  IN  Then(remove_ref_in_entry(s, d, e.parent, n), LAMBDA t :
        Then(add_ref_in_entry(
               write_entry(t, d, n, [e EXCEPT !.name = name, !.parent = parent]),
               d, parent, n),
             LAMBDA u : Return(u, n)))

fs_move(s, src, dst) ==
  LET n == fs_get_entry(s, src)
  IN  CASE IsError(CheckPair(s, src, dst)) -> Return(s, CheckPair(s, src, dst))
        [] ~IsError(CheckPair(s, src, dst)) /\ src.disk # dst.disk ->
             Then(fs_copy(s, src, dst), LAMBDA t :
               Then(delete_n(t, src.disk, n), LAMBDA u : Return(u, n)))
        [] OTHER -> Relink(s, src.disk, n, ParentOf(s, dst), Clean[NameOf(dst)])

-----------------------------------------------------------------------------
(* Format and clone.                                                       *)

Path(d, comps) == [disk |-> d, comps |-> comps]

RECURSIVE EraseEntries(_, _, _)
EraseEntries(s, d, n) ==
  IF n = NENT THEN s ELSE EraseEntries(write_entry(s, d, n, FreeEntry), d, n + 1)

(* The boot block, an empty root and an empty table are written, and entry *)
(* 1 of the system disk, the boot program, is copied.  The super block is  *)
(* the layout.                                                             *)
fs_format_quick(s, sys, d) ==
  LET boot == write_block(s, d, BootBlock, s.data[sys][BootBlock])
      root == write_entry(boot, d, 0, [FreeEntry EXCEPT !.kind = "dir", !.name = ROOT_DIR_NAME])
      name == get_entry_n(s, sys, 1).name
  IN  fs_copy(root, Path(sys, <<name>>), Path(d, <<name>>))
fs_format(s, sys, d) ==
  LET boot == write_block(s, d, BootBlock, s.data[sys][BootBlock])
      root == write_entry(boot, d, 0, [FreeEntry EXCEPT !.kind = "dir", !.name = ROOT_DIR_NAME])
      name == get_entry_n(s, sys, 1).name
  IN  fs_copy(EraseEntries(root, d, 1), Path(sys, <<name>>), Path(d, <<name>>))

(* The command clone of the command line: format, and copy what the root   *)
(* of the system disk lists from the i-th on; that something exists, as    *)
(* the boot program does, is no reason to stop.                            *)
RECURSIVE CopyListed(_, _, _, _)
CopyListed(s, sys, d, i) ==
  LET list == fs_list(s, sys, 0)
      name == get_entry_n(s, sys, list[i]).name
      t    == fs_copy(s, Path(sys, <<name>>), Path(d, <<name>>))
  IN  CASE i \notin DOMAIN list -> s
        [] i \in DOMAIN list /\ t.ret \notin {EXISTS, 0} -> t
        [] OTHER -> CopyListed(t, sys, d, i + 1)

cli_clone(s, sys, d) == Then(fs_format(s, sys, d), LAMBDA t : CopyListed(t, sys, d, 0))
=============================================================================
