---------------------------- MODULE NsfsEntries -----------------------------
(***************************************************************************)
(* The on-disk file system of NANO S16 (source/fs.c, source/fs.h) as       *)
(* operators over an explicit disk state.  The code keeps no cache: every  *)
(* call reads the entries table from disk and writes it back entry by      *)
(* entry, so a call is a function from a disk state to a disk state, and   *)
(* the sequence of its sector writes is what an I/O error or a power loss  *)
(* can cut short.                                                          *)
(*                                                                         *)
(* A state s is a record                                                   *)
(*   tab[d][n]   entry n of the entries table of disk d                    *)
(*   data[d][b]  contents of block b of disk d (0 is the boot block)       *)
(*   ret         result of the last internal call: a value, or an error    *)
(*   seen        the disk states passed through, when Cuttable             *)
(*                                                                         *)
(* Sizes and offsets are counted in blocks: the read-modify-write of a     *)
(* partial block is below this level.  A path is a disk and a sequence of  *)
(* names.                                                                  *)
(*                                                                         *)
(* An operator named f_x is f with a plausible bug x, for checking that a  *)
(* property would notice it; nothing uses it.                              *)
(***************************************************************************)
EXTENDS Integers, Ulib

CONSTANTS
  Disks,        (* Disk identifiers with media, e.g. {"fd0", "hd0"}.       *)
  NENT,         (* superblock.nentries: length of the entries table.       *)
  NBLK,         (* Number of data blocks (superblock.size - 2 - NENT).     *)
  ENTRYREFS,    (* SFS_ENTRYREFS: references in one entry.                 *)
  WORD,         (* uint is 16 bits: sizes wrap at 2^16 bytes, WORD blocks. *)
  Clean,        (* string_to_name: raw name -> valid name.                 *)
  Cuttable      (* Whether the states inside a call are recorded.          *)

ASSUME NentAssumption == NENT \in Nat /\ NENT >= 2
ASSUME NblkAssumption == NBLK \in Nat \ {0}
ASSUME RefsAssumption == ENTRYREFS \in Nat /\ ENTRYREFS >= 2
ASSUME WordAssumption == WORD \in Nat /\ WORD > ENTRYREFS
ASSUME CutAssumption  == Cuttable \in BOOLEAN

-----------------------------------------------------------------------------
(* Layout (fs.h: boot block, super block, entries table, data blocks).     *)

EntryIds   == 0 .. NENT - 1
RefIds     == 0 .. ENTRYREFS - 1
FirstData  == 2 + NENT
DataBlocks == FirstData .. FirstData + NBLK - 1
BootBlock  == 0
Blocks     == {BootBlock} \cup DataBlocks

(* Results at or above ERROR_ANY are errors; here they are the negatives.  *)
NOT_FOUND == -1
EXISTS    == -2
NO_SPACE  == -4
IsError(v) == v < 0

ROOT_DIR_NAME == "."
NoRefs    == [i \in RefIds |-> 0]
FreeEntry == [kind |-> "free", name |-> "", size |-> 0, parent |-> 0,
              next |-> 0, ref |-> NoRefs]

Lower(a, b) == IF a < b THEN a ELSE b
Wrap_none(n) == n
Wrap(n)      == n % WORD

Return(s, v)  == [s EXCEPT !.ret = v]
Then(s, F(_)) == IF IsError(s.ret) THEN s ELSE F(s)

Record(s) == IF Cuttable
             THEN [s EXCEPT !.seen = @ \cup {[tab |-> s.tab, data |-> s.data]}]
             ELSE s

get_entry_n(s, d, n)    == s.tab[d][n]
write_entry(s, d, n, e) == Record([s EXCEPT !.tab[d][n] = e, !.ret = 0])
write_block(s, d, b, v) == Record([s EXCEPT !.data[d][b] = v, !.ret = 0])

-----------------------------------------------------------------------------
(* Lookup.                                                                 *)

(* fs_get_entry on a single name, in the entries table t: the first used   *)
(* entry with this parent and this name, chained entries included.         *)
LookupIn(t, parent, name) ==
  LET found == {n \in EntryIds : /\ t[n].parent = parent
                                 /\ t[n].name = name
                                 /\ t[n].kind # "free"}
  IN  IF found = {} THEN NOT_FOUND ELSE Min(found)

(* path_parse_disk_parent_name walks the components from the root; it does *)
(* not ask that they be directories.                                       *)
Walk(t, from, comps) ==
  Folded(LAMBDA n, name : IF IsError(n) THEN n ELSE LookupIn(t, n, name), from, comps)

NameOf(p)      == p.comps[Len(p.comps)]
DirPart(p)     == SubSeq(p.comps, 1, Len(p.comps) - 1)
ParentOf(s, p) == Walk(s.tab[p.disk], 0, DirPart(p))

(* A path that is only a disk names its root directory.                    *)
Resolve(t, p) == Walk(t, 0, IF p.comps = <<>> THEN <<ROOT_DIR_NAME>> ELSE p.comps)
fs_get_entry(s, p) == Resolve(s.tab[p.disk], p)

(* string_to_name edits the last component in place.                       *)
Sanitize(p) ==
  [p EXCEPT !.comps = Append(DirPart(p), Clean[NameOf(p)])]

-----------------------------------------------------------------------------
(* Free entries and blocks.                                                *)

find_free_entry(s, d) ==
  LET free == {n \in EntryIds : s.tab[d][n].kind = "free"}
  IN  IF free = {} THEN NO_SPACE ELSE Min(free)

(* The blocks an entry on disk accounts for: the first needed_blocks(size) *)
(* references of its own, whatever they hold.                              *)
CountedBlocks_short(e) ==
  IF e.kind = "file" THEN {e.ref[i] : i \in 0 .. Lower(e.size, ENTRYREFS) - 2} ELSE {}
CountedBlocks_head(e) == IF e.kind = "file" THEN {e.ref[0]} ELSE {}
CountedBlocks(e) ==
  IF e.kind = "file" THEN {e.ref[i] : i \in 0 .. Lower(e.size, ENTRYREFS) - 1}
                     ELSE {}

find_free_block(s, d) ==
  LET free == DataBlocks \ UNION {CountedBlocks(s.tab[d][n]) : n \in EntryIds}
  IN  IF free = {} THEN NO_SPACE ELSE Min(free)

-----------------------------------------------------------------------------
(* Chains of entries.                                                      *)

(* A loop along a chain ends within as many rounds as there are entries.   *)
Hops == [k \in 1 .. NENT |-> k]

(* Index of the chained entry said to hold reference nref.  The loop       *)
(* divides nref itself, so it advances once for every power of ENTRYREFS.  *)
NextFor(t, c) ==
  IF IsError(c.at) \/ c.nref \div ENTRYREFS = 0 THEN c
  ELSE [at |-> IF t[c.at].next = 0 THEN NOT_FOUND ELSE t[c.at].next, nref |-> c.nref \div ENTRYREFS]
get_nref_entry_from_entry(t, n, nref) ==
  IF nref \div ENTRYREFS = 0 THEN n
  ELSE Folded(LAMBDA c, k : NextFor(t, c), [at |-> n, nref |-> nref], Hops).at

(* A chained entry after entry n, a copy of it but for its place.          *)
ChainedEntry_parent(e, n) == [e EXCEPT !.next = 0, !.size = 0, !.ref = NoRefs]
ChainedEntry(e, n) == [e EXCEPT !.parent = n, !.next = 0, !.size = 0, !.ref = NoRefs]

(* Advance k entries along the chain of n, creating those that lack; the   *)
(* result is the index reached.                                            *)
Advance(s, d) ==
  LET n == s.ret
      e == get_entry_n(s, d, n)
      f == find_free_entry(s, d)
      linked  == write_entry(s, d, n, [e EXCEPT !.next = f])
      created == write_entry(linked, d, f, ChainedEntry(e, n))
  IN  CASE e.next # 0 -> Return(s, e.next)
        [] e.next = 0 /\ IsError(f) -> Return(s, f)
        [] OTHER -> Return(created, f)
ExtendChain(s, d, n, k) ==
  Folded(LAMBDA t, i : Then(t, LAMBDA u : Advance(u, d)), Return(s, n), [i \in 1 .. k |-> i])

(* Free the chained entries from n on.                                     *)
FreeOne(s, d, n) ==
  IF n = 0 THEN s ELSE Return(write_entry(s, d, n, FreeEntry), s.tab[d][n].next)
FreeChain(s, d, n) == Folded(LAMBDA t, k : FreeOne(t, d, t.ret), Return(s, n), Hops)

(* One entry is visited for every ENTRYREFS references, counted after the  *)
(* head: a chained entry exists as soon as there is one reference.         *)
set_entry_refcount(s, d, n, refcount) ==
  Then(ExtendChain(s, d, n, (refcount + ENTRYREFS - 1) \div ENTRYREFS),
    LAMBDA t :
      LET last == t.ret
          e == get_entry_n(t, d, last)
          cleared == [e EXCEPT !.ref =
            [i \in RefIds |-> IF i >= refcount % ENTRYREFS THEN 0 ELSE @[i]]]
          t1 == write_entry(t, d, last, cleared)
      IN  IF e.next = 0 THEN t1
          ELSE FreeChain(write_entry(t1, d, last, [cleared EXCEPT !.next = 0]),
                         d, e.next))

(* The size of an entry and, less ENTRYREFS for each before, of those      *)
(* chained to it.                                                          *)
SetSize(s, d, n, size) == write_entry(s, d, n, [get_entry_n(s, d, n) EXCEPT !.size = size])
SizeNext(c, d) ==
  IF c.at = 0 THEN c
  ELSE [state |-> SetSize(c.state, d, c.at, c.size), at |-> c.state.tab[d][c.at].next,
        size |-> Wrap(c.size - ENTRYREFS)]
set_entry_size(s, d, n, size) ==
  Folded(LAMBDA c, k : SizeNext(c, d),
         [state |-> SetSize(s, d, n, size), at |-> s.tab[d][n].next, size |-> Wrap(size - ENTRYREFS)],
         Hops).state

-----------------------------------------------------------------------------
(* Directory references.                                                   *)

(* When the chain lacks the entry for the new reference, the index used is *)
(* the result of set_entry_refcount, which is 0.                           *)
add_ref_in_entry(s, d, n, ref) ==
  LET e     == get_entry_n(s, d, n)
      count == e.size
      at    == get_nref_entry_from_entry(s.tab[d], n, count)
      ready == IF IsError(at) THEN set_entry_refcount(s, d, n, count + 1)
                              ELSE Return(s, at)
  IN  Then(ready, LAMBDA t :
        LET put == write_entry(t, d, t.ret,
                     [t.tab[d][t.ret] EXCEPT !.ref[count % ENTRYREFS] = ref])
        IN  IF e.kind = "dir" THEN set_entry_size(put, d, n, Wrap(e.size + 1))
                              ELSE put)
-----------------------------------------------------------------------------
(* Files.                                                                  *)

(* Contents of block i of file n in table t and blocks x, through the      *)
(* chained entry it should be in.                                          *)
BlockAt(t, x, n, i) == x[t[get_nref_entry_from_entry(t, n, i)].ref[i % ENTRYREFS]]

(* A new file: a free entry, then a reference in the parent.  The raw name *)
(* has been looked up, the clean one is stored, unchecked.                 *)
CreateFile(s, p) ==
  LET parent == ParentOf(s, p)
      n == find_free_entry(s, p.disk)
      e == [FreeEntry EXCEPT !.kind = "file", !.parent = parent,
                             !.name = Clean[NameOf(p)]]
  IN  CASE IsError(parent) -> Return(s, parent)
        [] ~IsError(parent) /\ IsError(n) -> Return(s, n)
        [] OTHER -> Then(add_ref_in_entry(write_entry(s, p.disk, n, e),
                                          p.disk, parent, n),
                         LAMBDA t : Return(t, n))

(* Chain and size grow first; then blocks are searched with the references *)
(* already chosen still in memory, so one call finds the same free block   *)
(* for all of them.                                                        *)
Grow(s, d, n, from, to) ==
  Then(set_entry_refcount(s, d, n, to), LAMBDA t :
    LET sized == set_entry_size(t, d, n, to)
        e == get_entry_n(sized, d, n)
        b == find_free_block(sized, d)
    IN  IF IsError(b) THEN Return(sized, b)
        ELSE write_entry(sized, d, n, [e EXCEPT !.ref =
               [i \in RefIds |-> IF i \in from .. to - 1 THEN b ELSE @[i]]]))

(* set_entry_refcount is called here without its third argument (fs.c:1136)*)
(* and reads the word that follows the two pushed ones on the stack: the   *)
(* block-local nblocks, which is the value it needs.                       *)
Shrink(s, d, n, to) ==
  Then(set_entry_refcount(s, d, n, to),
       LAMBDA t : set_entry_size(t, d, n, to))

(* One kernel chunk: one block v at offset off.  The time stamp of the     *)
(* final step is not modelled.                                             *)
fs_write_file(s, p, off, v, create, truncate) ==
  LET d == p.disk
      n == fs_get_entry(s, p)
      to == Wrap(off + 1)
      found == IF n = NOT_FOUND /\ create THEN CreateFile(s, p) ELSE Return(s, n)
      write(t, m) ==
        LET size  == t.tab[d][m].size
            grown == IF size < to THEN Grow(t, d, m, size, to) ELSE Return(t, 0)
            fit   == Then(grown, LAMBDA u :
                       IF u.tab[d][m].size > to /\ truncate
                       THEN Shrink(u, d, m, to) ELSE u)
        IN  Then(fit, LAMBDA u :
              Return(write_block(u, d, u.tab[d][m].ref[off], v), 1))
  IN  IF ~IsError(n) /\ s.tab[d][n].kind = "dir" THEN Return(s, NOT_FOUND)
      ELSE Then(found, LAMBDA t : write(t, t.ret))
-----------------------------------------------------------------------------
(* Directories.                                                            *)

fs_create_directory(s, path) ==
  LET parent == ParentOf(s, path)
      p == Sanitize(path)
      d == p.disk
      n == find_free_entry(s, d)
      e == [FreeEntry EXCEPT !.kind = "dir", !.parent = parent, !.name = NameOf(p)]
  IN  CASE IsError(parent) -> Return(s, parent)
        [] ~IsError(parent) /\ ~IsError(LookupIn(s.tab[d], parent, NameOf(p))) ->
             Return(s, EXISTS)
        [] ~IsError(parent) /\ IsError(LookupIn(s.tab[d], parent, NameOf(p)))
             /\ IsError(n) -> Return(s, n)
        [] OTHER -> Then(write_entry(s, d, n, e), LAMBDA t :
                      Then(IF n = parent THEN t ELSE add_ref_in_entry(t, d, parent, n),
                           LAMBDA u : Return(u, n)))

(* fs_list: the entries a listing of directory n shows, in order.  The     *)
(* reference is taken from the chained entry without reducing its index,   *)
(* so beyond ENTRYREFS elements the code reads past the entry.             *)
fs_list(s, d, n) ==
  [i \in 0 .. Lower(s.tab[d][n].size, ENTRYREFS) - 1 |-> s.tab[d][n].ref[i]]
=============================================================================
