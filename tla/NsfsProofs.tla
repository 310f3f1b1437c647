----------------------------- MODULE NsfsProofs ------------------------------
(***************************************************************************)
(* Proofs about the file system (NsfsWriting), for tables, disks and       *)
(* entries of every size, every set of disks and every set of calls that   *)
(* is Orderly, below: what creating files, writing, extending and          *)
(* truncating them and creating directories do to a disk with room.        *)
(*                                                                         *)
(* The argument has three parts.  Each operator of NsfsEntries is first    *)
(* brought into a closed form: on the disk d of a state On(d, t, x, r),    *)
(* the call is a change of the table t and of the blocks x, the loops      *)
(* along chains being short on the chains there are.  Then the changes are *)
(* shown to keep the inductive invariant Disk, an entry added to a         *)
(* directory (MadeSound) and a file rewritten (RewriteSound) being the two *)
(* that matter, and to leave alone what the call does not name (Spares).   *)
(* Last, Disk is shown to imply the properties; that everything is below   *)
(* the root needs a rank that decreases along parents (Rooted), and that   *)
(* other paths read the same needs that two ways from the root to one      *)
(* entry are the same (SameWay).                                           *)
(***************************************************************************)
EXTENDS NsfsWriting, DataLemmas, FiniteSetTheorems, FunctionTheorems

-----------------------------------------------------------------------------
(* What the calls are assumed to be: no call is cut short, programs write  *)
(* a file from its start on, into the references of its first entry, no    *)
(* name has to be cleaned and none is that of files and directories both,  *)
(* the boot program is left alone.                                         *)
Comps(p)  == {p.comps[k] : k \in 1 .. Len(p.comps)}
Inner(p)  == {p.comps[k] : k \in 1 .. Len(p.comps) - 1}
DirNames  == {ROOT_DIR_NAME} \cup (UNION {Comps(p) : p \in MkdirPaths})
                \cup (UNION {Inner(c.path) : c \in WriteCalls})
FileNames == {KernelName} \cup {NameOf(c.path) : c \in WriteCalls}
IsPath(p) == /\ p = [disk |-> p.disk, comps |-> p.comps] /\ p.disk \in Disks
             /\ IsSeq(p.comps) /\ p.comps # <<>> /\ ROOT_DIR_NAME \notin Comps(p)
Orderly ==
  /\ ~Cuttable /\ ~Sparse
  /\ \A c \in WriteCalls : /\ IsPath(c.path) /\ c.path.comps # <<KernelName>>
                           /\ Clean[NameOf(c.path)] = NameOf(c.path)
                           /\ c.off \in RefIds /\ c.val \in Vals
  /\ \A p \in MkdirPaths : IsPath(p) /\ Clean[NameOf(p)] = NameOf(p)
  /\ DirNames \cap FileNames = {}
(* Those who look through paths take no file for a directory.              *)
OrderlyPaths == \A q \in Universe : IsPath(q) /\ Inner(q) \cap FileNames = {}

(* Room: each disk has a free block, and each directory for one more       *)
(* reference in its entry.                                                 *)
Roomy == \A d \in Disks :
  /\ ~IsError(find_free_block(Now, d))
  /\ \A n \in EntryIds : tab[d][n].kind = "dir" => tab[d][n].size < ENTRYREFS

-----------------------------------------------------------------------------
(* The inductive invariant, for the table t and the blocks x of a disk.    *)
EntrySet == [kind : {"free", "dir", "file"}, name : {""} \cup DirNames \cup FileNames,
             size : 0 .. WORD - 1, parent : EntryIds, next : EntryIds,
             ref : [RefIds -> EntryIds \cup DataBlocks]]

(* Files and directories have a directory for parent, a chained entry has  *)
(* a file for it.                                                          *)
IsDir(t, n)   == t[n].kind = "dir"
IsFile(t, n)  == t[n].kind = "file" /\ IsDir(t, t[n].parent)
IsChain(t, n) == t[n].kind = "file" /\ t[t[n].parent].kind = "file"
IsHead(t, n)  == IsDir(t, n) \/ IsFile(t, n)

RootThere(t) == IsDir(t, 0) /\ t[0].name = ROOT_DIR_NAME /\ t[0].parent = 0
DirsSound(t) == \A n \in EntryIds : IsDir(t, n) =>
  /\ t[n].name \in DirNames /\ t[n].next = 0 /\ t[n].size <= ENTRYREFS
  /\ IsDir(t, t[n].parent)
  /\ \A i \in RefIds : t[n].ref[i] \in EntryIds
FilesSound(t) == \A n \in EntryIds : t[n].kind = "file" =>
  /\ IsFile(t, n) \/ IsChain(t, n)
  /\ t[n].name \in FileNames
  /\ \A i \in RefIds : t[n].ref[i] \in {0} \cup DataBlocks
  /\ IsFile(t, n) => /\ t[n].size <= ENTRYREFS
                     /\ t[n].next # 0 => t[t[n].next].kind = "file" /\ t[t[n].next].parent = n
  /\ IsChain(t, n) => t[t[n].parent].next = n /\ t[n].next = 0 /\ t[n].ref = NoRefs
FreeSound(t) == \A n \in EntryIds : t[n].kind = "free" => \A i \in RefIds : t[n].ref[i] \in EntryIds

(* Names are unique in a directory.                                        *)
Unique(t) == \A m, n \in EntryIds :
  IsHead(t, m) /\ IsHead(t, n) /\ t[m].parent = t[n].parent /\ t[m].name = t[n].name => m = n

(* A directory lists what it is the parent of, each once, and nothing      *)
(* else.                                                                   *)
Lists(t) == \A p \in EntryIds : IsDir(t, p) =>
  /\ \A i \in RefIds : i < t[p].size =>
       t[p].ref[i] # 0 /\ IsHead(t, t[p].ref[i]) /\ t[t[p].ref[i]].parent = p
  /\ \A n \in EntryIds \ {0} : IsHead(t, n) /\ t[n].parent = p =>
       \E i \in RefIds : i < t[p].size /\ t[p].ref[i] = n
  /\ \A i, j \in RefIds : i < t[p].size /\ j < t[p].size /\ t[p].ref[i] = t[p].ref[j] => i = j
  /\ \A i \in RefIds : i >= t[p].size => t[p].ref[i] = 0

(* Each block within the size of a file is its own.                        *)
Owned(t) ==
  /\ \A n \in EntryIds, i \in RefIds : IsFile(t, n) /\ i < t[n].size => t[n].ref[i] \in DataBlocks
  /\ \A m, n \in EntryIds, i, j \in RefIds :
       /\ IsFile(t, m) /\ i < t[m].size /\ IsFile(t, n) /\ j < t[n].size
       /\ t[m].ref[i] = t[n].ref[j]
       => m = n /\ i = j

(* The boot program is there.                                              *)
Starts(t, x) == /\ t[KernelEntry] = FreshTable[KernelEntry]
                /\ x[BootBlock] = Boot /\ x[FirstData] = Kernel

Table(t) == /\ t \in [EntryIds -> EntrySet]
            /\ RootThere(t) /\ DirsSound(t) /\ FilesSound(t) /\ FreeSound(t)
            /\ Unique(t) /\ Lists(t) /\ Owned(t)
Sound(t, x) == Table(t) /\ x \in [Blocks -> Vals \cup {Boot, Kernel, Blank}] /\ Starts(t, x)
Disk == /\ tab = [d \in Disks |-> tab[d]] /\ data = [d \in Disks |-> data[d]]
        /\ \A d \in Disks : Sound(tab[d], data[d])
-----------------------------------------------------------------------------
(* A state in the middle of a call on disk d, whose table is t and whose   *)
(* blocks are x; the other disks are as they were when it began.           *)
On(d, t, x, r) == [tab  |-> [tab EXCEPT ![d] = t], data |-> [data EXCEPT ![d] = x],
                   ret  |-> r, seen |-> {}]
Stores == tab = [d \in Disks |-> tab[d]] /\ data = [d \in Disks |-> data[d]]

(* What EXCEPT makes of a state.                                           *)
LEMMA StateReturn ==
  ASSUME NEW A, NEW B, NEW C, NEW D, NEW v,
         NEW s, s = [tab |-> A, data |-> B, ret |-> C, seen |-> D]
  PROVE  [s EXCEPT !.ret = v] = [tab |-> A, data |-> B, ret |-> v, seen |-> D]
OBVIOUS

(* Replacing the value at d twice.                                         *)
LEMMA ReplaceTwice ==
  ASSUME NEW f, f = [k \in Disks |-> f[k]], NEW d \in Disks, NEW t, NEW n, NEW e,
         NEW g, g = [f EXCEPT ![d] = t]
  PROVE  [g EXCEPT ![d] = [g[d] EXCEPT ![n] = e]] = [f EXCEPT ![d] = [t EXCEPT ![n] = e]]
<1>1. g[d] = t /\ DOMAIN f = Disks /\ DOMAIN g = Disks
  OBVIOUS
<1>2. \A k \in Disks : k # d => g[k] = f[k]
  BY <1>1
<1> DEFINE u == [t EXCEPT ![n] = e]
<1>3. [g EXCEPT ![d] = u] = [k \in Disks |-> IF k = d THEN u ELSE g[k]]
  BY <1>1
<1>4. [f EXCEPT ![d] = u] = [k \in Disks |-> IF k = d THEN u ELSE f[k]]
  BY <1>1
<1>5. [g EXCEPT ![d] = [g[d] EXCEPT ![n] = e]] = [g EXCEPT ![d] = u]
  BY <1>1
<1> HIDE DEF u
<1>6. [g EXCEPT ![d] = u] = [f EXCEPT ![d] = u]
  BY <1>2, <1>3, <1>4
<1> QED BY <1>5, <1>6 DEF u

LEMMA OnIsNow ==
  ASSUME Stores, NEW d \in Disks
  PROVE  Now = On(d, tab[d], data[d], 0)
<1>1. [tab EXCEPT ![d] = tab[d]] = tab
  BY DEF Stores
<1>2. [data EXCEPT ![d] = data[d]] = data
  BY DEF Stores
<1> QED BY <1>1, <1>2 DEF Now, On

LEMMA OnParts ==
  ASSUME Stores, NEW d \in Disks, NEW t, NEW x, NEW r
  PROVE  /\ On(d, t, x, r).tab[d] = t /\ On(d, t, x, r).data[d] = x
         /\ On(d, t, x, r).ret = r /\ On(d, t, x, r).seen = {}
<1>1. d \in DOMAIN tab /\ d \in DOMAIN data
  BY DEF Stores
<1> QED BY <1>1 DEF On

LEMMA OnReturn ==
  ASSUME NEW d, NEW t, NEW x, NEW r, NEW v
  PROVE  Return(On(d, t, x, r), v) = On(d, t, x, v)
BY StateReturn DEF Return, On

(* Writing an entry, and a block.                                          *)
Put(t, n, e) == [t EXCEPT ![n] = e]

LEMMA OnWrite ==
  ASSUME Stores, ~Cuttable, NEW d \in Disks, NEW t, NEW x, NEW r, NEW n, NEW e
  PROVE  write_entry(On(d, t, x, r), d, n, e) = On(d, Put(t, n, e), x, 0)
<1> DEFINE A == [tab EXCEPT ![d] = t]
           B == [data EXCEPT ![d] = x]
<1>1. write_entry(On(d, t, x, r), d, n, e) = [On(d, t, x, r) EXCEPT !.tab[d][n] = e, !.ret = 0]
  BY DEF write_entry, Record
<1>2. On(d, t, x, r) = [tab |-> A, data |-> B, ret |-> r, seen |-> {}]
  BY DEF On
<1>3. tab = [k \in Disks |-> tab[k]]
  BY DEF Stores
<1>4. [A EXCEPT ![d] = [A[d] EXCEPT ![n] = e]] = [tab EXCEPT ![d] = [t EXCEPT ![n] = e]]
  BY <1>3, ReplaceTwice
<1>5. On(d, [t EXCEPT ![n] = e], x, 0) =
        [tab |-> [tab EXCEPT ![d] = [t EXCEPT ![n] = e]], data |-> B, ret |-> 0, seen |-> {}]
  BY DEF On
<1> DEFINE s == On(d, t, x, r)
<1> HIDE DEF A, B, s
<1>6. [s EXCEPT !.tab[d][n] = e, !.ret = 0] = On(d, [t EXCEPT ![n] = e], x, 0)
  <2>1. s = [tab |-> A, data |-> B, ret |-> r, seen |-> {}]
    BY <1>2 DEF s
  <2>2. [s EXCEPT !.tab[d][n] = e, !.ret = 0] =
          [tab |-> [A EXCEPT ![d] = [A[d] EXCEPT ![n] = e]], data |-> B, ret |-> 0, seen |-> {}]
    <3> DEFINE u == [s EXCEPT !.tab[d][n] = e]
    <3>1. u = [tab |-> [A EXCEPT ![d] = [A[d] EXCEPT ![n] = e]], data |-> B, ret |-> r, seen |-> {}]
      BY <2>1
    <3>2. [s EXCEPT !.tab[d][n] = e, !.ret = 0] = [u EXCEPT !.ret = 0]
      OBVIOUS
    <3> HIDE DEF u
    <3> QED BY <3>1, <3>2
  <2> HIDE DEF s
  <2> QED BY <2>2, <1>4, <1>5, Zenon
<1> QED BY <1>1, <1>6 DEF s, Put

LEMMA OnWriteBlock ==
  ASSUME Stores, ~Cuttable, NEW d \in Disks, NEW t, NEW x, NEW r, NEW b, NEW v
  PROVE  write_block(On(d, t, x, r), d, b, v) = On(d, t, Put(x, b, v), 0)
<1> DEFINE A == [tab EXCEPT ![d] = t]
           B == [data EXCEPT ![d] = x]
<1>1. write_block(On(d, t, x, r), d, b, v) = [On(d, t, x, r) EXCEPT !.data[d][b] = v, !.ret = 0]
  BY DEF write_block, Record
<1>2. On(d, t, x, r) = [tab |-> A, data |-> B, ret |-> r, seen |-> {}]
  BY DEF On
<1>3. data = [k \in Disks |-> data[k]]
  BY DEF Stores
<1>4. [B EXCEPT ![d] = [B[d] EXCEPT ![b] = v]] = [data EXCEPT ![d] = [x EXCEPT ![b] = v]]
  BY <1>3, ReplaceTwice
<1>5. On(d, t, [x EXCEPT ![b] = v], 0) =
        [tab |-> A, data |-> [data EXCEPT ![d] = [x EXCEPT ![b] = v]], ret |-> 0, seen |-> {}]
  BY DEF On
<1> DEFINE s == On(d, t, x, r)
<1> HIDE DEF A, B, s
<1>6. [s EXCEPT !.data[d][b] = v, !.ret = 0] = On(d, t, [x EXCEPT ![b] = v], 0)
  <2>1. s = [tab |-> A, data |-> B, ret |-> r, seen |-> {}]
    BY <1>2 DEF s
  <2>2. [s EXCEPT !.data[d][b] = v, !.ret = 0] =
          [tab |-> A, data |-> [B EXCEPT ![d] = [B[d] EXCEPT ![b] = v]], ret |-> 0, seen |-> {}]
    <3> DEFINE u == [s EXCEPT !.data[d][b] = v]
    <3>1. u = [tab |-> A, data |-> [B EXCEPT ![d] = [B[d] EXCEPT ![b] = v]], ret |-> r, seen |-> {}]
      BY <2>1
    <3>2. [s EXCEPT !.data[d][b] = v, !.ret = 0] = [u EXCEPT !.ret = 0]
      OBVIOUS
    <3> HIDE DEF u
    <3> QED BY <3>1, <3>2
  <2> HIDE DEF s
  <2> QED BY <2>2, <1>4, <1>5, Zenon
<1> QED BY <1>1, <1>6 DEF s, Put

-----------------------------------------------------------------------------
(* A path is walked name by name.                                          *)
Onward(t, n, name) == IF IsError(n) THEN n ELSE LookupIn(t, n, name)
Trail(g, t, from, comps, n) ==
  g = [k \in 0 .. n |-> IF k = 0 THEN from ELSE Onward(t, g[k - 1], comps[k])]

LEMMA TrailExists ==
  ASSUME NEW t, NEW from, NEW comps, NEW len \in Nat
  PROVE  \E g : Trail(g, t, from, comps, len)
<1> DEFINE None == {n \in 0 .. len : ~\E g : Trail(g, t, from, comps, n)}
<1> SUFFICES ASSUME None # {} PROVE FALSE
  OBVIOUS
<1> DEFINE n == Min(None)
<1>1. n \in None /\ \A y \in None : n <= y
  <2>1. None \subseteq Nat
    OBVIOUS
  <2> QED BY <2>1, MinIsLeast
<1> HIDE DEF n
<1>2. CASE n = 0
  <2> DEFINE g == [k \in 0 .. 0 |-> from]
  <2>1. g = [k \in 0 .. 0 |-> IF k = 0 THEN from ELSE Onward(t, g[k - 1], comps[k])]
    OBVIOUS
  <2> QED BY <1>1, <1>2, <2>1 DEF Trail
<1>3. CASE n # 0
  <2>1. n \in 1 .. len /\ n - 1 \in 0 .. len /\ n - 1 \notin None
    BY <1>1, <1>3
  <2>2. PICK g : Trail(g, t, from, comps, n - 1)
    BY <2>1
  <2> DEFINE h == [k \in 0 .. n |-> IF k <= n - 1 THEN g[k] ELSE Onward(t, g[n - 1], comps[n])]
  <2>3. \A k \in 0 .. n - 1 : g[k] = IF k = 0 THEN from ELSE Onward(t, g[k - 1], comps[k])
    BY <2>2 DEF Trail
  <2>4. \A k \in 0 .. n : h[k] = IF k = 0 THEN from ELSE Onward(t, h[k - 1], comps[k])
    <3> SUFFICES ASSUME NEW k \in 0 .. n
                 PROVE  h[k] = IF k = 0 THEN from ELSE Onward(t, h[k - 1], comps[k])
      OBVIOUS
    <3>1. CASE k <= n - 1
      <4>1. h[k] = g[k] /\ k \in 0 .. n - 1
        BY <2>1, <3>1
      <4>2. k # 0 => h[k - 1] = g[k - 1]
        BY <2>1, <3>1
      <4> HIDE DEF h
      <4> QED BY <2>3, <4>1, <4>2
    <3>2. CASE k = n
      <4>1. h[k] = Onward(t, g[n - 1], comps[n]) /\ h[n - 1] = g[n - 1]
        BY <2>1, <3>2
      <4> HIDE DEF h
      <4> QED BY <1>3, <3>2, <4>1
    <3> QED BY <2>1, <3>1, <3>2
  <2>5. h = [k \in 0 .. n |-> h[k]]
    OBVIOUS
  <2> HIDE DEF h
  <2>6. Trail(h, t, from, comps, n)
    BY <2>4, <2>5 DEF Trail
  <2> QED BY <1>1, <2>6
<1> QED BY <1>2, <1>3

(* There is one way only, also along the beginning of a path.              *)
LEMMA TrailUnique ==
  ASSUME NEW t, NEW from, NEW comps, NEW begin, NEW m \in Nat, NEW n \in Nat, m <= n,
         \A k \in 1 .. m : begin[k] = comps[k],
         NEW g, Trail(g, t, from, begin, m), NEW h, Trail(h, t, from, comps, n)
  PROVE  \A k \in 0 .. m : g[k] = h[k]
<1> DEFINE Wrong == {k \in 0 .. m : g[k] # h[k]}
<1> SUFFICES ASSUME Wrong # {} PROVE FALSE
  OBVIOUS
<1> DEFINE k == Min(Wrong)
<1>1. k \in Wrong /\ \A y \in Wrong : k <= y
  <2>1. Wrong \subseteq Nat
    OBVIOUS
  <2> QED BY <2>1, MinIsLeast
<1> HIDE DEF k
<1>2. \A i \in 0 .. m : g[i] = IF i = 0 THEN from ELSE Onward(t, g[i - 1], begin[i])
  BY DEF Trail
<1>3. \A i \in 0 .. n : h[i] = IF i = 0 THEN from ELSE Onward(t, h[i - 1], comps[i])
  BY DEF Trail
<1>4. k \in 0 .. m /\ k \in 0 .. n /\ k # 0
  BY <1>1, <1>2, <1>3
<1>5. k - 1 \in 0 .. m /\ k - 1 \notin Wrong
  BY <1>1, <1>4
<1>6. g[k - 1] = h[k - 1] /\ begin[k] = comps[k]
  BY <1>4, <1>5
<1> QED BY <1>1, <1>2, <1>3, <1>4, <1>6

LEMMA WalkTrail ==
  ASSUME NEW t, NEW from, NEW comps, IsSeq(comps), NEW g, Trail(g, t, from, comps, Len(comps))
  PROVE  Walk(t, from, comps) = g[Len(comps)]
<1> DEFINE Step(s, c) == IF IsError(s) THEN s ELSE LookupIn(t, s, c)
           Eq(f) == f = [k \in 0 .. Len(comps) |->
                           IF k = 0 THEN from ELSE CHOOSE v \in {Step(s, comps[k]) : s \in {f[k - 1]}} : TRUE]
           F == CHOOSE f : Eq(f)
<1>1. Walk(t, from, comps) = F[Len(comps)]
  BY DEF Walk, Folded
<1>2. ASSUME NEW f PROVE Eq(f) <=> Trail(f, t, from, comps, Len(comps))
  <2>1. \A k : (CHOOSE v \in {Step(s, comps[k]) : s \in {f[k - 1]}} : TRUE) = Onward(t, f[k - 1], comps[k])
    <3> TAKE k
    <3>1. {Step(s, comps[k]) : s \in {f[k - 1]}} = {Step(f[k - 1], comps[k])}
      OBVIOUS
    <3>2. Step(f[k - 1], comps[k]) = Onward(t, f[k - 1], comps[k])
      BY DEF Onward
    <3> HIDE DEF Step
    <3> QED BY <3>1, <3>2
  <2> HIDE DEF Step
  <2> QED BY <2>1 DEF Trail
<1>3. Eq(F)
  <2>1. Eq(g)
    BY <1>2
  <2> HIDE DEF Eq
  <2> QED BY <2>1
<1>4. Trail(F, t, from, comps, Len(comps))
  BY <1>2, <1>3
<1>5. Len(comps) \in Nat
  BY SeqLen
<1> HIDE DEF F
<1>6. F[Len(comps)] = g[Len(comps)]
  BY <1>4, <1>5, TrailUnique
<1> QED BY <1>1, <1>6

(* The path without its last name, and a step along the last.              *)
LEMMA FrontIs ==
  ASSUME NEW comps, IsSeq(comps), comps # <<>>
  PROVE  /\ IsSeq(Front(comps)) /\ Len(Front(comps)) = Len(comps) - 1 /\ Len(comps) >= 1
         /\ \A k \in 1 .. Len(comps) - 1 : Front(comps)[k] = comps[k]
<1>1. Len(comps) \in Nat /\ Len(comps) >= 1 /\ comps \in Seq({comps[k] : k \in DOMAIN comps})
  BY SeqTail, SeqLen DEF IsSeq
<1> DEFINE S == {comps[k] : k \in DOMAIN comps}
<1> HIDE DEF S
<1>2. comps \in Seq(S)
  BY <1>1 DEF S
<1>3. /\ Front(comps) = [k \in 1 .. Len(comps) - 1 |-> comps[k]]
  BY <1>1, <1>2 DEF Front
<1>4. Len(comps) - 1 \in Nat
  BY <1>1
<1>5. Front(comps) = [k \in 1 .. Len(comps) - 1 |-> Front(comps)[k]]
  BY <1>3
<1> QED BY <1>1, <1>3, <1>4, <1>5, SeqFun

LEMMA WalkNowhere ==
  ASSUME NEW t, NEW from
  PROVE  Walk(t, from, <<>>) = from
<1>1. PICK g : Trail(g, t, from, <<>>, 0)
  BY TrailExists
<1>2. IsSeq(<<>>) /\ Len(<<>>) = 0
  BY DEF IsSeq
<1>3. Walk(t, from, <<>>) = g[0]
  BY <1>1, <1>2, WalkTrail
<1> QED BY <1>1, <1>3 DEF Trail

LEMMA TrailEnd ==
  ASSUME NEW t, NEW from, NEW comps, NEW begin, NEW m \in Nat, NEW n \in Nat, m <= n,
         \A k \in 1 .. m : begin[k] = comps[k],
         NEW g, Trail(g, t, from, begin, m), NEW h, Trail(h, t, from, comps, n)
  PROVE  g[m] = h[m]
<1>1. \A k \in 0 .. m : g[k] = h[k]
  BY TrailUnique
<1> QED BY <1>1

LEMMA TrailBefore ==
  ASSUME NEW t, NEW from, NEW comps, NEW begin, NEW n \in Nat, n - 1 \in Nat,
         \A k \in 1 .. n - 1 : begin[k] = comps[k],
         NEW g, Trail(g, t, from, begin, n - 1), NEW h, Trail(h, t, from, comps, n)
  PROVE  g[n - 1] = h[n - 1] /\ h[n] = Onward(t, h[n - 1], comps[n])
<1>1. PICK m \in Nat : m = n - 1
  OBVIOUS
<1>2. m <= n /\ (\A k \in 1 .. m : begin[k] = comps[k]) /\ Trail(g, t, from, begin, m)
  BY <1>1
<1>3. g[m] = h[m]
  BY <1>2, TrailEnd
<1>4. \A k \in 0 .. n : h[k] = IF k = 0 THEN from ELSE Onward(t, h[k - 1], comps[k])
  BY DEF Trail
<1> QED BY <1>1, <1>3, <1>4

LEMMA WalkOneMore ==
  ASSUME NEW t, NEW from, NEW comps, IsSeq(comps), comps # <<>>
  PROVE  Walk(t, from, comps) = Onward(t, Walk(t, from, Front(comps)), comps[Len(comps)])
<1>1. PICK n \in Nat : n = Len(comps) /\ n - 1 \in Nat
  BY FrontIs, SeqLen
<1>2. PICK h : Trail(h, t, from, comps, n)
  BY <1>1, TrailExists
<1>3. PICK g : Trail(g, t, from, Front(comps), n - 1)
  BY <1>1, TrailExists
<1>4. Walk(t, from, comps) = h[n]
  BY <1>1, <1>2, WalkTrail
<1>5. Walk(t, from, Front(comps)) = g[n - 1]
  BY <1>1, <1>3, FrontIs, WalkTrail
<1>6. \A k \in 1 .. n - 1 : Front(comps)[k] = comps[k]
  BY <1>1, FrontIs
<1>7. g[n - 1] = h[n - 1] /\ h[n] = Onward(t, h[n - 1], comps[n])
  BY <1>1, <1>2, <1>3, <1>6, TrailBefore
<1> QED BY <1>1, <1>4, <1>5, <1>7

-----------------------------------------------------------------------------
(* What the calls on a disk make of its table t, in closed form.           *)
FreeIn(t) == LET free == {n \in EntryIds : t[n].kind = "free"}
             IN  IF free = {} THEN NO_SPACE ELSE Min(free)
BlockIn(t) == LET free == DataBlocks \ UNION {CountedBlocks(t[n]) : n \in EntryIds}
              IN  IF free = {} THEN NO_SPACE ELSE Min(free)

LEMMA OnFree ==
  ASSUME Stores, NEW d \in Disks, NEW t, NEW x, NEW r
  PROVE  /\ find_free_entry(On(d, t, x, r), d) = FreeIn(t)
         /\ find_free_block(On(d, t, x, r), d) = BlockIn(t)
         /\ \A n : get_entry_n(On(d, t, x, r), d, n) = t[n]
<1> DEFINE s == On(d, t, x, r)
<1>1. s.tab[d] = t
  BY OnParts
<1> HIDE DEF s
<1>2. find_free_entry(s, d) = FreeIn(t)
  BY <1>1, Zenon DEF find_free_entry, FreeIn
<1>3. find_free_block(s, d) = BlockIn(t)
  BY <1>1, Zenon DEF find_free_block, BlockIn
<1>4. \A n : get_entry_n(s, d, n) = t[n]
  BY <1>1, Zenon DEF get_entry_n
<1> QED BY <1>2, <1>3, <1>4 DEF s

LEMMA FreeInIs ==
  ASSUME NEW t
  PROVE  /\ ~IsError(FreeIn(t)) => FreeIn(t) \in EntryIds /\ t[FreeIn(t)].kind = "free"
         /\ IsError(FreeIn(t)) => FreeIn(t) = NO_SPACE
<1> DEFINE free == {n \in EntryIds : t[n].kind = "free"}
<1>1. free \in SUBSET Nat
  BY NentAssumption DEF EntryIds
<1>2. CASE free = {}
  BY <1>2 DEF FreeIn, IsError, NO_SPACE
<1>3. CASE free # {}
  <2>1. FreeIn(t) = Min(free)
    BY <1>3 DEF FreeIn
  <2> HIDE DEF free
  <2>2. Min(free) \in free /\ Min(free) \in Nat
    BY <1>1, <1>3, MinIsLeast
  <2> QED BY <2>1, <2>2 DEF IsError, free
<1> QED BY <1>2, <1>3

LEMMA BlockInIs ==
  ASSUME NEW t
  PROVE  /\ ~IsError(BlockIn(t)) => /\ BlockIn(t) \in DataBlocks
                                    /\ \A n \in EntryIds : BlockIn(t) \notin CountedBlocks(t[n])
         /\ IsError(BlockIn(t)) => BlockIn(t) = NO_SPACE
<1> DEFINE free == DataBlocks \ UNION {CountedBlocks(t[n]) : n \in EntryIds}
<1>1. free \in SUBSET Nat
  BY NentAssumption, NblkAssumption DEF DataBlocks, FirstData
<1>2. CASE free = {}
  BY <1>2 DEF BlockIn, IsError, NO_SPACE
<1>3. CASE free # {}
  <2>1. BlockIn(t) = Min(free)
    BY <1>3 DEF BlockIn
  <2> HIDE DEF free
  <2>2. Min(free) \in free /\ Min(free) \in Nat
    BY <1>1, <1>3, MinIsLeast
  <2>3. \A b \in free : b \in DataBlocks /\ \A n \in EntryIds : b \notin CountedBlocks(t[n])
    BY DEF free
  <2> QED BY <2>1, <2>2, <2>3 DEF IsError
<1> QED BY <1>2, <1>3

-----------------------------------------------------------------------------
(* One entry along a chain.                                                *)
Linked(t, n, f) == Put(Put(t, n, [t[n] EXCEPT !.next = f]), f, ChainedEntry(t[n], n))
Onto(d, t, x, n) == IF t[n].next # 0 THEN On(d, t, x, t[n].next)
                    ELSE IF IsError(FreeIn(t)) THEN On(d, t, x, FreeIn(t))
                    ELSE On(d, Linked(t, n, FreeIn(t)), x, FreeIn(t))

LEMMA AdvanceIs ==
  ASSUME Stores, ~Cuttable, NEW d \in Disks, NEW t, NEW x, NEW n
  PROVE  Advance(On(d, t, x, n), d) = Onto(d, t, x, n)
<1> DEFINE s == On(d, t, x, n)
           e == t[n]
           f == FreeIn(t)
           h == [e EXCEPT !.next = f]
           linked == On(d, Put(t, n, h), x, 0)
           created == On(d, Linked(t, n, f), x, 0)
<1>1. s.ret = n /\ get_entry_n(s, d, n) = e /\ find_free_entry(s, d) = f
  BY OnParts, OnFree
<1>2. write_entry(s, d, n, h) = linked
  BY OnWrite
<1>3. write_entry(linked, d, f, ChainedEntry(e, n)) = created
  BY OnWrite DEF Linked
<1>4. Return(s, e.next) = On(d, t, x, e.next) /\ Return(s, f) = On(d, t, x, f)
      /\ Return(created, f) = On(d, Linked(t, n, f), x, f)
  BY OnReturn
<1> HIDE DEF s, linked, created, f
<1>5. Advance(s, d) = CASE e.next # 0 -> Return(s, e.next)
                        [] e.next = 0 /\ IsError(f) -> Return(s, f)
                        [] OTHER -> Return(created, f)
  BY <1>1, <1>2, <1>3, Zenon DEF Advance
<1> QED BY <1>4, <1>5 DEF Onto, s, f

(* A chain is never longer than one entry: it is advanced once.            *)
LEMMA ExtendIs ==
  ASSUME Stores, ~Cuttable, NEW d \in Disks, NEW t, NEW x, NEW r, NEW n, ~IsError(n)
  PROVE  ExtendChain(On(d, t, x, r), d, n, 1) = Onto(d, t, x, n)
<1> DEFINE seq == [i \in 1 .. 1 |-> i]
           base == Return(On(d, t, x, r), n)
           Step(s) == IF IsError(s.ret) THEN s ELSE Advance(s, d)
           Eq(f) == f = [k \in 0 .. Len(seq) |->
                           IF k = 0 THEN base ELSE CHOOSE v \in {Step(s) : s \in {f[k - 1]}} : TRUE]
           F == CHOOSE f : Eq(f)
           G == [k \in 0 .. 1 |-> IF k = 0 THEN base ELSE Step(base)]
<1>1. ExtendChain(On(d, t, x, r), d, n, 1) = F[Len(seq)]
  BY DEF ExtendChain, Folded, Then
<1>2. Len(seq) = 1
  BY SeqFun
<1>3. ASSUME NEW f PROVE Eq(f) <=> f = [k \in 0 .. 1 |-> IF k = 0 THEN base ELSE Step(f[k - 1])]
  <2>1. \A k : (CHOOSE v \in {Step(s) : s \in {f[k - 1]}} : TRUE) = Step(f[k - 1])
    <3> TAKE k
    <3>1. {Step(s) : s \in {f[k - 1]}} = {Step(f[k - 1])}
      OBVIOUS
    <3> HIDE DEF Step
    <3> QED BY <3>1
  <2> HIDE DEF Step, base, seq
  <2> QED BY <1>2, <2>1
<1>4. Eq(G)
  <2> HIDE DEF Step, base
  <2>1. G = [k \in 0 .. 1 |-> IF k = 0 THEN base ELSE Step(G[k - 1])]
    OBVIOUS
  <2> HIDE DEF G, Eq
  <2> QED BY <1>3, <2>1
<1>5. Eq(F)
  <2> HIDE DEF Eq, G
  <2> QED BY <1>4
<1>6. F[1] = Step(base)
  <2> HIDE DEF Step, base, F, Eq
  <2>1. F = [k \in 0 .. 1 |-> IF k = 0 THEN base ELSE Step(F[k - 1])]
    BY <1>3, <1>5
  <2>2. F[0] = base /\ F[1] = Step(F[0])
    BY <2>1
  <2> QED BY <2>2
<1>7. base = On(d, t, x, n)
  BY OnReturn
<1>8. Step(base) = Advance(On(d, t, x, n), d)
  BY <1>7, OnParts
<1> HIDE DEF F, Step, base, seq
<1> QED BY <1>1, <1>2, <1>6, <1>8, AdvanceIs

-----------------------------------------------------------------------------
(* Tables and their entries.                                               *)
Tables == [EntryIds -> EntrySet]

LEMMA PutIs ==
  ASSUME NEW t \in Tables, NEW n \in EntryIds, NEW e \in EntrySet
  PROVE  /\ Put(t, n, e) \in Tables /\ Put(t, n, e)[n] = e
         /\ \A k \in EntryIds : k # n => Put(t, n, e)[k] = t[k]
         /\ t[n] = e => Put(t, n, e) = t
BY DEF Put, Tables

LEMMA EntryIs ==
  ASSUME NEW e \in EntrySet
  PROVE  /\ e = [kind |-> e.kind, name |-> e.name, size |-> e.size, parent |-> e.parent,
                 next |-> e.next, ref |-> e.ref]
         /\ e.kind \in {"free", "dir", "file"} /\ e.name \in {""} \cup DirNames \cup FileNames
         /\ e.size \in 0 .. WORD - 1 /\ e.size \in Nat /\ e.parent \in EntryIds /\ e.next \in EntryIds
         /\ e.ref \in [RefIds -> EntryIds \cup DataBlocks]
<1>1. 0 .. WORD - 1 \subseteq Nat
  BY WordAssumption
<1> QED BY <1>1 DEF EntrySet

LEMMA IdsAre ==
  /\ EntryIds \subseteq Nat /\ 0 \in EntryIds /\ KernelEntry \in EntryIds /\ KernelEntry # 0
  /\ RefIds \subseteq Nat /\ 0 \in RefIds /\ \A n \in EntryIds : ~IsError(n)
  /\ \A i \in Nat : i < ENTRYREFS <=> i \in RefIds
  /\ DataBlocks \subseteq Nat /\ 0 \notin DataBlocks /\ FirstData \in DataBlocks
  /\ NoRefs \in [RefIds -> EntryIds \cup DataBlocks] /\ \A i \in RefIds : NoRefs[i] = 0
BY NentAssumption, NblkAssumption, RefsAssumption
   DEF EntryIds, KernelEntry, RefIds, IsError, DataBlocks, FirstData, NoRefs

(* An entry with another next, and a chained entry.                        *)
LEMMA NextIs ==
  ASSUME NEW e \in EntrySet, NEW f \in EntryIds, NEW h, h = [e EXCEPT !.next = f]
  PROVE  /\ h \in EntrySet /\ h.next = f /\ h.kind = e.kind /\ h.name = e.name /\ h.size = e.size
         /\ h.parent = e.parent /\ h.ref = e.ref
BY DEF EntrySet

LEMMA ChainedIs ==
  ASSUME NEW e \in EntrySet, NEW n \in EntryIds
  PROVE  /\ ChainedEntry(e, n) \in EntrySet
         /\ ChainedEntry(e, n) = [kind |-> e.kind, name |-> e.name, size |-> 0, parent |-> n, next |-> 0,
                                  ref |-> NoRefs]
<1>1. ChainedEntry(e, n) = [kind |-> e.kind, name |-> e.name, size |-> 0, parent |-> n, next |-> 0,
                            ref |-> NoRefs]
  <2>1. e = [kind |-> e.kind, name |-> e.name, size |-> e.size, parent |-> e.parent, next |-> e.next,
             ref |-> e.ref]
    BY EntryIs
  <2> DEFINE a == [e EXCEPT !.parent = n]
             b == [a EXCEPT !.next = 0]
             c == [b EXCEPT !.size = 0]
             h == [c EXCEPT !.ref = NoRefs]
  <2>2. ChainedEntry(e, n) = h
    BY DEF ChainedEntry
  <2>3. a = [kind |-> e.kind, name |-> e.name, size |-> e.size, parent |-> n, next |-> e.next, ref |-> e.ref]
    BY <2>1
  <2> HIDE DEF a
  <2>4. b = [kind |-> e.kind, name |-> e.name, size |-> e.size, parent |-> n, next |-> 0, ref |-> e.ref]
    BY <2>3
  <2> HIDE DEF b
  <2>5. c = [kind |-> e.kind, name |-> e.name, size |-> 0, parent |-> n, next |-> 0, ref |-> e.ref]
    BY <2>4
  <2> HIDE DEF c
  <2>6. h = [kind |-> e.kind, name |-> e.name, size |-> 0, parent |-> n, next |-> 0, ref |-> NoRefs]
    BY <2>5
  <2> QED BY <2>2, <2>6
<1>2. 0 \in 0 .. WORD - 1
  BY WordAssumption, RefsAssumption
<1> QED BY <1>1, <1>2, EntryIs, IdsAre DEF EntrySet

LEMMA LinkedIs ==
  ASSUME NEW t \in Tables, NEW n \in EntryIds, NEW f \in EntryIds, f # n, NEW u, u = Linked(t, n, f)
  PROVE  /\ u \in Tables /\ u[f] = ChainedEntry(t[n], n)
         /\ u[n].next = f /\ u[n].kind = t[n].kind /\ u[n].name = t[n].name /\ u[n].size = t[n].size
         /\ u[n].parent = t[n].parent /\ u[n].ref = t[n].ref
         /\ \A k \in EntryIds : k # n /\ k # f => u[k] = t[k]
<1> DEFINE h == [t[n] EXCEPT !.next = f]
           c == ChainedEntry(t[n], n)
           v == Put(t, n, h)
<1>1. t[n] \in EntrySet
  BY DEF Tables
<1>2. c \in EntrySet
  BY <1>1, ChainedIs
<1>3. u = Put(v, f, c)
  BY DEF Linked
<1>4. /\ h \in EntrySet /\ h.next = f /\ h.kind = t[n].kind /\ h.name = t[n].name /\ h.size = t[n].size
      /\ h.parent = t[n].parent /\ h.ref = t[n].ref
  BY <1>1, NextIs
<1> HIDE DEF h, c
<1>5. v \in Tables /\ v[n] = h /\ \A k \in EntryIds : k # n => v[k] = t[k]
  BY <1>4, PutIs
<1> HIDE DEF v
<1>6. u \in Tables /\ u[f] = c /\ \A k \in EntryIds : k # f => u[k] = v[k]
  BY <1>2, <1>3, <1>5, PutIs
<1> QED BY <1>4, <1>5, <1>6 DEF c

-----------------------------------------------------------------------------
(* set_entry_refcount for one entry's references.                          *)
Cleared(e, count) == [e EXCEPT !.ref = [i \in RefIds |-> IF i >= count % ENTRYREFS THEN 0 ELSE @[i]]]

LEMMA OneHop ==
  ASSUME NEW count \in 1 .. ENTRYREFS
  PROVE  (count + ENTRYREFS - 1) \div ENTRYREFS = 1
<1>1. ENTRYREFS \in Nat \ {0} /\ count - 1 \in 0 .. ENTRYREFS - 1
  BY RefsAssumption
<1>2. (1 * ENTRYREFS + (count - 1)) \div ENTRYREFS = 1
  BY <1>1, DivModUnique
<1>3. 1 * ENTRYREFS + (count - 1) = count + ENTRYREFS - 1
  BY <1>1
<1> QED BY <1>2, <1>3

LEMMA RefcountAt ==
  ASSUME Stores, ~Cuttable, NEW d \in Disks, NEW t, NEW x, NEW r, NEW n, ~IsError(n),
         NEW count \in 1 .. ENTRYREFS, NEW u, NEW last, ~IsError(last), Onto(d, t, x, n) = On(d, u, x, last),
         u[last].next = 0
  PROVE  set_entry_refcount(On(d, t, x, r), d, n, count) = On(d, Put(u, last, Cleared(u[last], count)), x, 0)
<1> DEFINE s == On(d, u, x, last)
           F(v) == LET l == v.ret
                       e == get_entry_n(v, d, l)
                       cleared == Cleared(e, count)
                       v1 == write_entry(v, d, l, cleared)
                   IN  IF e.next = 0 THEN v1
                       ELSE FreeChain(write_entry(v1, d, l, [cleared EXCEPT !.next = 0]), d, e.next)
<1>1. set_entry_refcount(On(d, t, x, r), d, n, count) = Then(ExtendChain(On(d, t, x, r), d, n, 1), F)
  BY OneHop DEF set_entry_refcount, Cleared
<1>2. ExtendChain(On(d, t, x, r), d, n, 1) = s
  BY ExtendIs
<1>3. s.ret = last /\ get_entry_n(s, d, last) = u[last]
  BY OnParts, OnFree
<1>4. write_entry(s, d, last, Cleared(u[last], count)) = On(d, Put(u, last, Cleared(u[last], count)), x, 0)
  BY OnWrite
<1> HIDE DEF s
<1>5. F(s) = write_entry(s, d, last, Cleared(u[last], count))
  BY <1>3
<1>6. Then(s, F) = F(s)
  BY <1>3 DEF Then
<1> HIDE DEF F
<1> QED BY <1>1, <1>2, <1>4, <1>5, <1>6

LEMMA RefcountIs ==
  ASSUME Stores, ~Cuttable, NEW d \in Disks, NEW t \in Tables, NEW x, NEW r, NEW n \in EntryIds,
         NEW count \in 1 .. ENTRYREFS, t[n].kind # "free",
         t[n].next # 0 => t[t[n].next].next = 0 /\ t[t[n].next].ref = NoRefs
  PROVE  set_entry_refcount(On(d, t, x, r), d, n, count) =
           IF t[n].next # 0 THEN On(d, t, x, 0)
           ELSE IF IsError(FreeIn(t)) THEN On(d, t, x, FreeIn(t))
           ELSE On(d, Linked(t, n, FreeIn(t)), x, 0)
<1>1. ~IsError(n)
  BY IdsAre
<1>2. ASSUME NEW e \in EntrySet, e.ref = NoRefs
      PROVE  Cleared(e, count) = e
  <2>1. [i \in RefIds |-> IF i >= count % ENTRYREFS THEN 0 ELSE NoRefs[i]] = NoRefs
    BY DEF NoRefs
  <2> QED BY <1>2, <2>1 DEF Cleared, EntrySet
<1>3. CASE t[n].next # 0
  <2> DEFINE m == t[n].next
  <2>1. m \in EntryIds /\ ~IsError(m) /\ t[m] \in EntrySet
    BY IdsAre, EntryIs DEF Tables
  <2>2. Onto(d, t, x, n) = On(d, t, x, m)
    BY <1>3 DEF Onto
  <2>3. Put(t, m, Cleared(t[m], count)) = t
    BY <1>2, <1>3, <2>1, PutIs
  <2> HIDE DEF m
  <2>4. t[m].next = 0
    BY <1>3 DEF m
  <2>5. set_entry_refcount(On(d, t, x, r), d, n, count) = On(d, t, x, 0)
    BY <1>1, <2>1, <2>2, <2>3, <2>4, RefcountAt
  <2> QED BY <1>3, <2>5
<1>4. CASE t[n].next = 0 /\ IsError(FreeIn(t))
  <2> DEFINE s == On(d, t, x, FreeIn(t))
  <2>1. Onto(d, t, x, n) = s
    BY <1>4 DEF Onto
  <2>2. ExtendChain(On(d, t, x, r), d, n, 1) = s
    BY <1>1, <2>1, ExtendIs
  <2>3. s.ret = FreeIn(t)
    BY OnParts
  <2> HIDE DEF s
  <2>4. set_entry_refcount(On(d, t, x, r), d, n, count) = s
    BY <1>4, <2>2, <2>3, OneHop DEF set_entry_refcount, Then
  <2> QED BY <1>4, <2>4 DEF s
<1>5. CASE t[n].next = 0 /\ ~IsError(FreeIn(t))
  <2> DEFINE f == FreeIn(t)
             u == Linked(t, n, f)
  <2>1. f \in EntryIds /\ t[f].kind = "free" /\ f # n /\ ~IsError(f)
    BY <1>5, FreeInIs
  <2>2. Onto(d, t, x, n) = On(d, u, x, f)
    BY <1>5 DEF Onto
  <2> HIDE DEF f
  <2>3. u \in Tables /\ u[f] = ChainedEntry(t[n], n)
    BY <2>1, LinkedIs
  <2> HIDE DEF u
  <2>4. u[f] \in EntrySet /\ u[f].next = 0 /\ u[f].ref = NoRefs
    <3>1. t[n] \in EntrySet
      BY DEF Tables
    <3> QED BY <2>3, <3>1, ChainedIs
  <2>5. Cleared(u[f], count) = u[f]
    BY <1>2, <2>4
  <2>6. Put(u, f, u[f]) = u
    BY <2>1, <2>3, <2>4, PutIs
  <2>8. set_entry_refcount(On(d, t, x, r), d, n, count) = On(d, u, x, 0)
    BY <1>1, <2>1, <2>2, <2>4, <2>5, <2>6, RefcountAt
  <2> QED BY <1>5, <2>8 DEF u, f
<1> QED BY <1>3, <1>4, <1>5

-----------------------------------------------------------------------------
(* set_entry_size along a chain of at most one entry.                      *)
Resize(t, n, size) == Put(t, n, [t[n] EXCEPT !.size = size])
Sized(t, n, size) == IF t[n].next = 0 THEN Resize(t, n, size)
                     ELSE Resize(Resize(t, n, size), t[n].next, Wrap(size - ENTRYREFS))

LEMMA SizeEntry ==
  ASSUME NEW e \in EntrySet, NEW size \in 0 .. WORD - 1, NEW h, h = [e EXCEPT !.size = size]
  PROVE  /\ h \in EntrySet /\ h.size = size /\ h.kind = e.kind /\ h.name = e.name /\ h.next = e.next
         /\ h.parent = e.parent /\ h.ref = e.ref
BY DEF EntrySet

LEMMA ResizeIs ==
  ASSUME NEW t \in Tables, NEW n \in EntryIds, NEW size \in 0 .. WORD - 1
  PROVE  LET u == Resize(t, n, size)
         IN  /\ u \in Tables
             /\ u[n].size = size /\ u[n].kind = t[n].kind /\ u[n].name = t[n].name /\ u[n].next = t[n].next
             /\ u[n].parent = t[n].parent /\ u[n].ref = t[n].ref
             /\ \A k \in EntryIds : k # n => u[k] = t[k]
<1> DEFINE u == Resize(t, n, size)
           h == [t[n] EXCEPT !.size = size]
<1>1. t[n] \in EntrySet
  BY DEF Tables
<1>2. /\ h \in EntrySet /\ h.size = size /\ h.kind = t[n].kind /\ h.name = t[n].name /\ h.next = t[n].next
      /\ h.parent = t[n].parent /\ h.ref = t[n].ref
  BY <1>1, SizeEntry
<1>3. u = Put(t, n, h)
  BY DEF Resize
<1> HIDE DEF h, u
<1>4. u \in Tables /\ u[n] = h /\ \A k \in EntryIds : k # n => u[k] = t[k]
  BY <1>2, <1>3, PutIs
<1> QED BY <1>2, <1>4 DEF u

LEMMA WrapIs ==
  ASSUME NEW a \in Int
  PROVE  Wrap(a) \in 0 .. WORD - 1 /\ (a \in 0 .. WORD - 1 => Wrap(a) = a)
<1>1. WORD \in Nat \ {0}
  BY WordAssumption, RefsAssumption
<1>2. a % WORD \in 0 .. WORD - 1
  BY <1>1
<1>3. a \in 0 .. WORD - 1 => a % WORD = a
  BY <1>1, ModOfSmall
<1> QED BY <1>2, <1>3 DEF Wrap

LEMMA SizedIs ==
  ASSUME NEW t \in Tables, NEW n \in EntryIds, NEW size \in 0 .. WORD - 1, t[n].next # n,
         NEW u, u = Sized(t, n, size)
  PROVE  /\ u \in Tables
         /\ u[n].size = size /\ u[n].ref = t[n].ref
         /\ \A k \in EntryIds : /\ u[k].kind = t[k].kind /\ u[k].name = t[k].name
                                /\ u[k].next = t[k].next /\ u[k].parent = t[k].parent
                                /\ k # n => u[k].ref = t[k].ref
                                /\ k # n /\ k # t[n].next => u[k] = t[k]
                                /\ k # n /\ t[n].next = 0 => u[k] = t[k]
<1> DEFINE v == Resize(t, n, size)
           m == t[n].next
           w == Wrap(size - ENTRYREFS)
<1>1. /\ v \in Tables /\ v[n].size = size /\ v[n].kind = t[n].kind /\ v[n].name = t[n].name
      /\ v[n].next = t[n].next /\ v[n].parent = t[n].parent /\ v[n].ref = t[n].ref
      /\ \A k \in EntryIds : k # n => v[k] = t[k]
  BY ResizeIs
<1>2. w \in 0 .. WORD - 1
  <2>1. size - ENTRYREFS \in Int
    BY RefsAssumption, WordAssumption
  <2> QED BY <2>1, WrapIs
<1>3. m \in EntryIds
  <2>1. t[n] \in EntrySet
    BY DEF Tables
  <2> QED BY <2>1, EntryIs
<1>4. CASE m = 0
  <2>1. u = v
    BY <1>4 DEF Sized
  <2> HIDE DEF v
  <2> QED BY <1>1, <1>4, <2>1
<1>5. CASE m # 0
  <2>1. u = Resize(v, m, w)
    BY <1>5 DEF Sized
  <2> HIDE DEF v, w, m
  <2>2. /\ u \in Tables
        /\ u[m].size = w /\ u[m].kind = v[m].kind /\ u[m].name = v[m].name
        /\ u[m].next = v[m].next /\ u[m].parent = v[m].parent /\ u[m].ref = v[m].ref
        /\ \A k \in EntryIds : k # m => u[k] = v[k]
    <3> DEFINE z == Resize(v, m, w)
    <3>1. v \in Tables
      BY <1>1
    <3>2. /\ z \in Tables
          /\ z[m].size = w /\ z[m].kind = v[m].kind /\ z[m].name = v[m].name
          /\ z[m].next = v[m].next /\ z[m].parent = v[m].parent /\ z[m].ref = v[m].ref
          /\ \A k \in EntryIds : k # m => z[k] = v[k]
      BY <1>2, <1>3, <3>1, ResizeIs
    <3>3. u = z
      BY <2>1
    <3> HIDE DEF z
    <3> QED BY <3>2, <3>3
  <2>3. m # n /\ v[m] = t[m] /\ u[n] = v[n]
    BY <1>1, <1>3, <2>2 DEF m
  <2> QED BY <1>1, <1>5, <2>2, <2>3 DEF m
<1> QED BY <1>4, <1>5

LEMMA SetSizeIs ==
  ASSUME Stores, ~Cuttable, NEW d \in Disks, NEW t, NEW x, NEW r, NEW n, NEW size
  PROVE  SetSize(On(d, t, x, r), d, n, size) = On(d, Resize(t, n, size), x, 0)
<1>1. get_entry_n(On(d, t, x, r), d, n) = t[n]
  BY OnFree
<1> DEFINE h == [t[n] EXCEPT !.size = size]
<1>2. SetSize(On(d, t, x, r), d, n, size) = write_entry(On(d, t, x, r), d, n, h)
  BY <1>1 DEF SetSize
<1>3. Resize(t, n, size) = Put(t, n, h)
  BY DEF Resize
<1> HIDE DEF h
<1> QED BY <1>2, <1>3, OnWrite

LEMMA SetEntrySizeIs ==
  ASSUME Stores, ~Cuttable, NEW d \in Disks, NEW t \in Tables, NEW x, NEW r, NEW n \in EntryIds,
         NEW size \in 0 .. WORD - 1, t[n].next # 0 => t[n].next # n /\ t[t[n].next].next = 0
  PROVE  set_entry_size(On(d, t, x, r), d, n, size) = On(d, Sized(t, n, size), x, 0)
<1> DEFINE u == Resize(t, n, size)
           m == t[n].next
           w == Wrap(size - ENTRYREFS)
           base == [state |-> On(d, u, x, 0), at |-> m, size |-> w]
           after == SizeNext(base, d)
           Eq(f) == f = [k \in 0 .. Len(Hops) |->
                           IF k = 0 THEN base ELSE CHOOSE v \in {SizeNext(s, d) : s \in {f[k - 1]}} : TRUE]
           F == CHOOSE f : Eq(f)
           G == [k \in 0 .. NENT |-> IF k = 0 THEN base ELSE after]
<1>1. Len(Hops) = NENT /\ NENT \in Nat /\ NENT >= 1
  BY SeqFun, NentAssumption DEF Hops
<1>2. On(d, t, x, r).tab[d][n].next = m /\ SetSize(On(d, t, x, r), d, n, size) = On(d, u, x, 0)
  BY OnParts, SetSizeIs
<1>3. set_entry_size(On(d, t, x, r), d, n, size) = F[Len(Hops)].state
  BY <1>2 DEF set_entry_size, Folded
<1>4. ASSUME NEW f PROVE Eq(f) <=> f = [k \in 0 .. NENT |-> IF k = 0 THEN base ELSE SizeNext(f[k - 1], d)]
  <2>1. \A k : (CHOOSE v \in {SizeNext(s, d) : s \in {f[k - 1]}} : TRUE) = SizeNext(f[k - 1], d)
    <3> TAKE k
    <3>1. {SizeNext(s, d) : s \in {f[k - 1]}} = {SizeNext(f[k - 1], d)}
      OBVIOUS
    <3> QED BY <3>1
  <2> HIDE DEF base
  <2> QED BY <1>1, <2>1
<1>5. after.at = 0 /\ after.state = On(d, Sized(t, n, size), x, 0)
  <2>1. u \in Tables /\ \A k \in EntryIds : k # n => u[k] = t[k]
    BY ResizeIs
  <2>2. CASE m = 0
    <3>1. after = base
      BY <2>2 DEF SizeNext
    <3>2. Sized(t, n, size) = u
      BY <2>2 DEF Sized
    <3> HIDE DEF after, u
    <3> QED BY <2>2, <3>1, <3>2
  <2>3. CASE m # 0
    <3>1. m \in EntryIds /\ m # n
      <4>1. t[n] \in EntrySet
        BY DEF Tables
      <4> QED BY <2>3, <4>1, EntryIs
    <3>2. base.state = On(d, u, x, 0) /\ base.at = m /\ base.size = w
      OBVIOUS
    <3>3. On(d, u, x, 0).tab[d] = u
      BY OnParts
    <3>4. SetSize(On(d, u, x, 0), d, m, w) = On(d, Resize(u, m, w), x, 0)
      BY SetSizeIs
    <3>5. Sized(t, n, size) = Resize(u, m, w)
      BY <2>3 DEF Sized
    <3>6. u[m].next = 0
      BY <2>1, <2>3, <3>1
    <3> HIDE DEF base, u, m, w
    <3>7. after.at = On(d, u, x, 0).tab[d][m].next /\ after.state = SetSize(On(d, u, x, 0), d, m, w)
      BY <2>3, <3>2 DEF SizeNext
    <3> QED BY <3>3, <3>4, <3>5, <3>6, <3>7
  <2> QED BY <2>2, <2>3
<1>6. SizeNext(after, d) = after
  <2> HIDE DEF after
  <2> QED BY <1>5 DEF SizeNext
<1>7. Eq(G)
  <2>1. G = [k \in 0 .. NENT |-> IF k = 0 THEN base ELSE SizeNext(G[k - 1], d)]
    <3>1. \A k \in 0 .. NENT : k # 0 => SizeNext(G[k - 1], d) = after
      <4> SUFFICES ASSUME NEW k \in 0 .. NENT, k # 0 PROVE SizeNext(G[k - 1], d) = after
        OBVIOUS
      <4>1. k - 1 \in 0 .. NENT
        BY <1>1
      <4>2. G[k - 1] = base \/ G[k - 1] = after
        <5> HIDE DEF base, after
        <5> QED BY <4>1
      <4> HIDE DEF G
      <4>3. SizeNext(base, d) = after
        OBVIOUS
      <4> HIDE DEF base, after
      <4> QED BY <1>6, <4>2, <4>3
    <3> HIDE DEF base, after
    <3> QED BY <3>1
  <2> HIDE DEF G, Eq
  <2> QED BY <1>4, <2>1
<1>8. Eq(F)
  <2> HIDE DEF Eq, G
  <2> QED BY <1>7
<1>9. \A k \in 0 .. NENT : k >= 1 => F[k] = after
  <2> DEFINE Wrong == {k \in 1 .. NENT : F[k] # after}
  <2>1. F = [k \in 0 .. NENT |-> IF k = 0 THEN base ELSE SizeNext(F[k - 1], d)]
    BY <1>4, <1>8
  <2>2. SizeNext(base, d) = after
    OBVIOUS
  <2> HIDE DEF F, base, after, Eq
  <2>3. F[0] = base /\ \A k \in 1 .. NENT : F[k] = SizeNext(F[k - 1], d)
    BY <1>1, <2>1
  <2>4. ASSUME Wrong # {} PROVE FALSE
    <3>1. PICK k \in Wrong : \A y \in Wrong : k <= y
      <4>1. Wrong \in SUBSET Nat
        BY <1>1
      <4> QED BY <2>4, <4>1, MinIsLeast
    <3>2. k \in 1 .. NENT /\ F[k] # after
      OBVIOUS
    <3>3. k # 1
      BY <2>2, <2>3, <3>2
    <3>4. k - 1 \in 1 .. NENT /\ k - 1 \notin Wrong
      BY <1>1, <3>1, <3>2, <3>3
    <3>5. F[k - 1] = after
      BY <3>4
    <3> QED BY <1>6, <2>3, <3>2, <3>5
  <2> QED BY <2>4
<1>10. F[NENT] = after
  <2> HIDE DEF F, after
  <2> QED BY <1>1, <1>9
<1> HIDE DEF F, after
<1> QED BY <1>1, <1>3, <1>5, <1>10

-----------------------------------------------------------------------------
(* A reference more in a directory that has room for it in its entry.      *)
LEMMA SmallIndex ==
  ASSUME NEW i \in RefIds
  PROVE  i \div ENTRYREFS = 0 /\ i % ENTRYREFS = i
<1>1. ENTRYREFS \in Nat \ {0} /\ i \in 0 .. ENTRYREFS - 1
  BY RefsAssumption DEF RefIds
<1>2. (0 * ENTRYREFS + i) \div ENTRYREFS = 0 /\ (0 * ENTRYREFS + i) % ENTRYREFS = i
  BY <1>1, DivModUnique
<1>3. 0 * ENTRYREFS + i = i
  BY <1>1
<1> QED BY <1>2, <1>3

Referring(e, ref) == [e EXCEPT !.ref[e.size] = ref]
Referred(t, p, ref) == Sized(Put(t, p, Referring(t[p], ref)), p, t[p].size + 1)

LEMMA ReferringIs ==
  ASSUME NEW e \in EntrySet, NEW ref \in EntryIds
  PROVE  LET h == Referring(e, ref)
         IN  /\ h \in EntrySet /\ h.kind = e.kind /\ h.name = e.name /\ h.next = e.next
             /\ h.parent = e.parent /\ h.size = e.size
             /\ \A i \in RefIds : h.ref[i] = IF i = e.size THEN ref ELSE e.ref[i]
<1> DEFINE h == Referring(e, ref)
           f == [e.ref EXCEPT ![e.size] = ref]
<1>1. f \in [RefIds -> EntryIds \cup DataBlocks] /\ \A i \in RefIds : f[i] = IF i = e.size THEN ref ELSE e.ref[i]
  BY EntryIs
<1>2. h = [e EXCEPT !.ref = f]
  BY DEF Referring
<1> HIDE DEF f, h
<1>3. h \in EntrySet /\ h.ref = f /\ h.kind = e.kind /\ h.name = e.name /\ h.next = e.next
      /\ h.parent = e.parent /\ h.size = e.size
  BY <1>1, <1>2 DEF EntrySet
<1> QED BY <1>1, <1>3 DEF h

LEMMA ReferredIs ==
  ASSUME NEW t \in Tables, NEW p \in EntryIds, NEW ref \in EntryIds, t[p].next = 0,
         t[p].size < ENTRYREFS
  PROVE  LET u == Referred(t, p, ref)
         IN  /\ u \in Tables
             /\ u[p].kind = t[p].kind /\ u[p].name = t[p].name /\ u[p].next = t[p].next
             /\ u[p].parent = t[p].parent /\ u[p].size = t[p].size + 1
             /\ \A i \in RefIds : u[p].ref[i] = IF i = t[p].size THEN ref ELSE t[p].ref[i]
             /\ \A k \in EntryIds : k # p => u[k] = t[k]
<1> DEFINE h == Referring(t[p], ref)
           v == Put(t, p, h)
           size == t[p].size + 1
           u == Referred(t, p, ref)
<1>1. t[p] \in EntrySet /\ size \in 0 .. WORD - 1
  <2>1. t[p] \in EntrySet
    BY DEF Tables
  <2>2. t[p].size \in Nat
    BY <2>1, EntryIs
  <2> QED BY <2>1, <2>2, WordAssumption, RefsAssumption
<1>2. /\ h \in EntrySet /\ h.kind = t[p].kind /\ h.name = t[p].name /\ h.next = t[p].next
      /\ h.parent = t[p].parent /\ h.size = t[p].size
      /\ \A i \in RefIds : h.ref[i] = IF i = t[p].size THEN ref ELSE t[p].ref[i]
  BY <1>1, ReferringIs
<1> HIDE DEF h
<1>3. v \in Tables /\ v[p] = h /\ \A k \in EntryIds : k # p => v[k] = t[k]
  BY <1>2, PutIs
<1>4. u = Resize(v, p, size)
  <2>1. u = Sized(v, p, size)
    BY DEF Referred, h
  <2> HIDE DEF v, size, u
  <2> QED BY <1>2, <1>3, <2>1 DEF Sized
<1> DEFINE z == Resize(v, p, size)
<1> HIDE DEF v, size, u
<1>5. /\ z \in Tables /\ z[p].size = size /\ z[p].kind = v[p].kind /\ z[p].name = v[p].name
      /\ z[p].next = v[p].next /\ z[p].parent = v[p].parent /\ z[p].ref = v[p].ref
      /\ \A k \in EntryIds : k # p => z[k] = v[k]
  BY <1>1, <1>3, ResizeIs
<1> HIDE DEF z
<1>6. u = z
  BY <1>4 DEF z
<1>7. /\ u \in Tables
      /\ u[p].kind = t[p].kind /\ u[p].name = t[p].name /\ u[p].next = t[p].next
      /\ u[p].parent = t[p].parent /\ u[p].size = size
      /\ \A k \in EntryIds : k # p => u[k] = t[k]
  BY <1>2, <1>3, <1>5, <1>6
<1>8. \A i \in RefIds : u[p].ref[i] = IF i = t[p].size THEN ref ELSE t[p].ref[i]
  BY <1>2, <1>3, <1>5, <1>6
<1> QED BY <1>7, <1>8 DEF u, size

LEMMA AddRefIs ==
  ASSUME Stores, ~Cuttable, NEW d \in Disks, NEW t \in Tables, NEW x, NEW r, NEW p \in EntryIds,
         NEW ref \in EntryIds, t[p].kind = "dir", t[p].next = 0, t[p].size < ENTRYREFS
  PROVE  add_ref_in_entry(On(d, t, x, r), d, p, ref) = On(d, Referred(t, p, ref), x, 0)
<1> DEFINE s == On(d, t, x, r)
           e == t[p]
           h == Referring(e, ref)
           v == Put(t, p, h)
           ready == Return(s, p)
           put == On(d, v, x, 0)
<1>1. e \in EntrySet /\ e.size \in RefIds /\ Wrap(e.size + 1) = e.size + 1 /\ e.size + 1 \in 0 .. WORD - 1
  <2>1. e \in EntrySet
    BY DEF Tables
  <2>2. e.size \in Nat /\ e.size \in RefIds
    BY <2>1, EntryIs, IdsAre
  <2>3. e.size + 1 \in 0 .. WORD - 1
    BY <2>2, WordAssumption, RefsAssumption
  <2>4. e.size + 1 \in Int
    BY <2>2
  <2> QED BY <2>1, <2>2, <2>3, <2>4, WrapIs
<1>2. e.size \div ENTRYREFS = 0 /\ e.size % ENTRYREFS = e.size
  BY <1>1, SmallIndex
<1>3. get_nref_entry_from_entry(t, p, e.size) = p
  BY <1>2 DEF get_nref_entry_from_entry
<1>4. s.tab[d] = t /\ get_entry_n(s, d, p) = e
  BY OnParts, OnFree
<1>5. ready = On(d, t, x, p)
  BY OnReturn
<1>6. ready.ret = p /\ ready.tab[d] = t /\ ~IsError(p)
  BY <1>5, OnParts, IdsAre
<1>7. write_entry(ready, d, p, h) = put
  BY <1>5, OnWrite
<1>8. [e EXCEPT !.ref[e.size % ENTRYREFS] = ref] = h
  BY <1>2 DEF Referring
<1>9. /\ v \in Tables /\ v[p] = h /\ h.next = 0
  BY <1>1, ReferringIs, PutIs
<1>10. set_entry_size(put, d, p, e.size + 1) = On(d, Sized(v, p, e.size + 1), x, 0)
  <2> HIDE DEF v, e, h
  <2> QED BY <1>1, <1>9, SetEntrySizeIs
<1>11. Sized(v, p, e.size + 1) = Referred(t, p, ref)
  BY DEF Referred
<1> DEFINE F(w) == LET q == write_entry(w, d, w.ret, [w.tab[d][w.ret] EXCEPT !.ref[e.size % ENTRYREFS] = ref])
                   IN  IF e.kind = "dir" THEN set_entry_size(q, d, p, Wrap(e.size + 1)) ELSE q
<1>12. add_ref_in_entry(s, d, p, ref) = Then(ready, F)
  <2> HIDE DEF s, e, ready
  <2>1. ~IsError(p)
    BY IdsAre
  <2> QED BY <1>3, <1>4, <2>1 DEF add_ref_in_entry, ready
<1>13. Then(ready, F) = F(ready)
  BY <1>6 DEF Then
<1>14. F(ready) = set_entry_size(put, d, p, e.size + 1)
  <2> HIDE DEF ready, put, h, s, v
  <2>1. ready.tab[d][ready.ret] = e
    BY <1>6
  <2>2. [ready.tab[d][ready.ret] EXCEPT !.ref[e.size % ENTRYREFS] = ref] = h
    BY <2>1, <1>8
  <2>3. write_entry(ready, d, ready.ret, [ready.tab[d][ready.ret] EXCEPT !.ref[e.size % ENTRYREFS] = ref]) = put
    BY <2>2, <1>6, <1>7
  <2>4. Wrap(e.size + 1) = e.size + 1
    BY <1>1
  <2> HIDE DEF e
  <2>5. e.kind = "dir"
    BY DEF e
  <2> QED BY <2>3, <2>4, <2>5
<1> HIDE DEF F, ready, put, v, e, h
<1> QED BY <1>10, <1>11, <1>12, <1>13, <1>14

-----------------------------------------------------------------------------
(* A new file or directory n in directory p.                               *)
NewEntry(kind, p, name) == [kind |-> kind, name |-> name, size |-> 0, parent |-> p, next |-> 0, ref |-> NoRefs]
Made(t, n, e, p) == Referred(Put(t, n, e), p, n)

LEMMA NewIs ==
  ASSUME NEW kind \in {"file", "dir"}, NEW p \in EntryIds, NEW name \in DirNames \cup FileNames
  PROVE  /\ [FreeEntry EXCEPT !.kind = kind, !.parent = p, !.name = name] = NewEntry(kind, p, name)
         /\ NewEntry(kind, p, name) \in EntrySet
<1> DEFINE a == [FreeEntry EXCEPT !.kind = kind]
           b == [a EXCEPT !.parent = p]
           c == [b EXCEPT !.name = name]
           z == FreeEntry
           none == ""
<1>1. z = [kind |-> "free", name |-> none, size |-> 0, parent |-> 0, next |-> 0, ref |-> NoRefs]
  BY DEF FreeEntry
<1>2. [FreeEntry EXCEPT !.kind = kind, !.parent = p, !.name = name] = c
  OBVIOUS
<1>3. a = [z EXCEPT !.kind = kind]
  OBVIOUS
<1> HIDE DEF z, a, none
<1>4. a = [kind |-> kind, name |-> none, size |-> 0, parent |-> 0, next |-> 0, ref |-> NoRefs]
  BY <1>1, <1>3
<1>5. b = [kind |-> kind, name |-> none, size |-> 0, parent |-> p, next |-> 0, ref |-> NoRefs]
  BY <1>4
<1> HIDE DEF b
<1>6. c = [kind |-> kind, name |-> name, size |-> 0, parent |-> p, next |-> 0, ref |-> NoRefs]
  BY <1>5
<1>7. 0 \in 0 .. WORD - 1
  BY WordAssumption, RefsAssumption
<1>8. NewEntry(kind, p, name) \in EntrySet
  BY <1>7, IdsAre DEF NewEntry, EntrySet
<1> QED BY <1>2, <1>6, <1>8 DEF NewEntry

LEMMA MadeIs ==
  ASSUME NEW t \in Tables, NEW n \in EntryIds, NEW p \in EntryIds, NEW e \in EntrySet,
         t[n].kind = "free", t[p].kind = "dir", t[p].next = 0, t[p].size < ENTRYREFS
  PROVE  LET u == Made(t, n, e, p)
         IN  /\ u \in Tables /\ u[n] = e
             /\ u[p].kind = t[p].kind /\ u[p].name = t[p].name /\ u[p].next = t[p].next
             /\ u[p].parent = t[p].parent /\ u[p].size = t[p].size + 1
             /\ \A i \in RefIds : u[p].ref[i] = IF i = t[p].size THEN n ELSE t[p].ref[i]
             /\ \A k \in EntryIds : k # p /\ k # n => u[k] = t[k]
<1> DEFINE v == Put(t, n, e)
           u == Made(t, n, e, p)
           w == Referred(v, p, n)
<1>1. v \in Tables /\ v[n] = e /\ \A k \in EntryIds : k # n => v[k] = t[k]
  BY PutIs
<1> HIDE DEF v
<1>2. n # p /\ v[p] = t[p]
  BY <1>1
<1>3. /\ w \in Tables
      /\ w[p].kind = v[p].kind /\ w[p].name = v[p].name /\ w[p].next = v[p].next
      /\ w[p].parent = v[p].parent /\ w[p].size = v[p].size + 1
      /\ \A i \in RefIds : w[p].ref[i] = IF i = v[p].size THEN n ELSE v[p].ref[i]
      /\ \A k \in EntryIds : k # p => w[k] = v[k]
  BY <1>1, <1>2, ReferredIs
<1>4. u = w
  BY DEF Made, v
<1> HIDE DEF u, w
<1> QED BY <1>1, <1>2, <1>3, <1>4 DEF u

LEMMA MakeIs ==
  ASSUME Stores, ~Cuttable, NEW d \in Disks, NEW t \in Tables, NEW x, NEW r, NEW n \in EntryIds,
         NEW p \in EntryIds, NEW e \in EntrySet,
         t[n].kind = "free", t[p].kind = "dir", t[p].next = 0, t[p].size < ENTRYREFS
  PROVE  add_ref_in_entry(write_entry(On(d, t, x, r), d, n, e), d, p, n) = On(d, Made(t, n, e, p), x, 0)
<1> DEFINE v == Put(t, n, e)
<1>1. write_entry(On(d, t, x, r), d, n, e) = On(d, v, x, 0)
  BY OnWrite
<1>2. v \in Tables /\ n # p /\ v[p] = t[p]
  BY PutIs
<1>3. Made(t, n, e, p) = Referred(v, p, n)
  BY DEF Made
<1> HIDE DEF v
<1> QED BY <1>1, <1>2, <1>3, AddRefIs

(* The directory a path is in.                                             *)
Within(t, p) == Walk(t, 0, Front(p.comps))

LEMMA OnWithin ==
  ASSUME Stores, NEW d \in Disks, NEW t, NEW x, NEW r, NEW p, p.disk = d
  PROVE  ParentOf(On(d, t, x, r), p) = Within(t, p)
<1> DEFINE s == On(d, t, x, r)
<1>1. s.tab[d] = t
  BY OnParts
<1> HIDE DEF s
<1>2. ParentOf(s, p) = Walk(s.tab[p.disk], 0, Front(p.comps))
  BY Zenon DEF ParentOf, Front, DirPart
<1>3. ParentOf(s, p) = Within(t, p)
  BY <1>1, <1>2 DEF Within
<1> QED BY <1>3 DEF s

LEMMA CreateFileIs ==
  ASSUME Stores, ~Cuttable, NEW d \in Disks, NEW t \in Tables, NEW x, NEW r, NEW p, p.disk = d,
         Clean[NameOf(p)] = NameOf(p), NameOf(p) \in FileNames, NEW q, q = Within(t, p),
         ~IsError(q) => /\ q \in EntryIds /\ t[q].kind = "dir" /\ t[q].next = 0
                        /\ t[q].size < ENTRYREFS
  PROVE  CreateFile(On(d, t, x, r), p) =
           IF IsError(q) THEN On(d, t, x, q)
           ELSE IF IsError(FreeIn(t)) THEN On(d, t, x, FreeIn(t))
           ELSE On(d, Made(t, FreeIn(t), NewEntry("file", q, NameOf(p)), q), x, FreeIn(t))
<1> DEFINE s == On(d, t, x, r)
           n == FreeIn(t)
           e == [FreeEntry EXCEPT !.kind = "file", !.parent = q, !.name = NameOf(p)]
           u == add_ref_in_entry(write_entry(s, d, n, e), d, q, n)
<1>1. ParentOf(s, p) = q /\ find_free_entry(s, p.disk) = n
  BY OnWithin, OnFree
<1>2. CreateFile(s, p) = CASE IsError(q) -> Return(s, q)
                           [] ~IsError(q) /\ IsError(n) -> Return(s, n)
                           [] OTHER -> Then(u, LAMBDA v : Return(v, n))
  <2> DEFINE As(parent, new) ==
        LET body == [FreeEntry EXCEPT !.kind = "file", !.parent = parent, !.name = Clean[NameOf(p)]]
        IN  CASE IsError(parent) -> Return(s, parent)
              [] ~IsError(parent) /\ IsError(new) -> Return(s, new)
              [] OTHER -> Then(add_ref_in_entry(write_entry(s, p.disk, new, body), p.disk, parent, new),
                               LAMBDA v : Return(v, new))
  <2>1. CreateFile(s, p) = As(ParentOf(s, p), find_free_entry(s, p.disk))
    <3> HIDE DEF s
    <3> QED BY DEF CreateFile
  <2>2. As(ParentOf(s, p), find_free_entry(s, p.disk)) = As(q, n)
    <3> HIDE DEF As, s, n
    <3> QED BY <1>1
  <2> HIDE DEF s, n
  <2> QED BY <2>1, <2>2
<1>3. Return(s, q) = On(d, t, x, q) /\ Return(s, n) = On(d, t, x, n)
  BY OnReturn
<1>4. ASSUME ~IsError(q), ~IsError(n)
      PROVE  Then(u, LAMBDA v : Return(v, n)) = On(d, Made(t, n, NewEntry("file", q, NameOf(p)), q), x, n)
  <2> DEFINE new == NewEntry("file", q, NameOf(p))
             w == On(d, Made(t, n, new, q), x, 0)
  <2>1. q \in EntryIds /\ n \in EntryIds /\ t[n].kind = "free"
    BY <1>4, FreeInIs
  <2>2. e = new /\ new \in EntrySet
    BY <2>1, NewIs
  <2> HIDE DEF n, new, e
  <2>3. u = w
    BY <1>4, <2>1, <2>2, MakeIs
  <2>4. ~IsError(w.ret) /\ Return(w, n) = On(d, Made(t, n, new, q), x, n)
    BY OnParts, OnReturn DEF IsError
  <2> HIDE DEF w, u
  <2> QED BY <2>3, <2>4 DEF Then, new
<1> HIDE DEF s, n, u
<1>5. CASE IsError(q)
  BY <1>2, <1>3, <1>5 DEF s
<1>6. CASE ~IsError(q) /\ IsError(n)
  BY <1>2, <1>3, <1>6 DEF s, n
<1>7. CASE ~IsError(q) /\ ~IsError(n)
  BY <1>2, <1>4, <1>7 DEF s, n
<1> QED BY <1>5, <1>6, <1>7

-----------------------------------------------------------------------------
(* A file with the chained entry its first block brings.                   *)
Readied(t, n) == IF t[n].next # 0 THEN t ELSE Linked(t, n, FreeIn(t))
NoRoom(t, n) == t[n].next = 0 /\ IsError(FreeIn(t))
Filled(e, from, to, b) == [e EXCEPT !.ref = [i \in RefIds |-> IF i \in from .. to - 1 THEN b ELSE @[i]]]
Grown(t, n, from, to) ==
  LET u == Sized(Readied(t, n), n, to) IN Put(u, n, Filled(u[n], from, to, BlockIn(u)))

LEMMA FilledIs ==
  ASSUME NEW e \in EntrySet, NEW from, NEW to, NEW b \in DataBlocks
  PROVE  LET h == Filled(e, from, to, b)
         IN  /\ h \in EntrySet /\ h.kind = e.kind /\ h.name = e.name /\ h.next = e.next
             /\ h.parent = e.parent /\ h.size = e.size
             /\ \A i \in RefIds : h.ref[i] = IF i \in from .. to - 1 THEN b ELSE e.ref[i]
<1> DEFINE h == Filled(e, from, to, b)
           f == [i \in RefIds |-> IF i \in from .. to - 1 THEN b ELSE e.ref[i]]
<1>1. f \in [RefIds -> EntryIds \cup DataBlocks]
  BY EntryIs
<1>2. \A i \in RefIds : f[i] = IF i \in from .. to - 1 THEN b ELSE e.ref[i]
  OBVIOUS
<1>3. h = [e EXCEPT !.ref = f]
  BY DEF Filled
<1> HIDE DEF f, h
<1>4. h \in EntrySet /\ h.ref = f /\ h.kind = e.kind /\ h.name = e.name /\ h.next = e.next
      /\ h.parent = e.parent /\ h.size = e.size
  BY <1>1, <1>3 DEF EntrySet
<1> QED BY <1>2, <1>4 DEF h

(* The chain of a file is sound: at most one entry, without references.    *)
ChainFits(t, n) == t[n].next # 0 => t[t[n].next].next = 0 /\ t[t[n].next].ref = NoRefs

LEMMA ReadiedIs ==
  ASSUME NEW t \in Tables, NEW n \in EntryIds, t[n].kind # "free", ChainFits(t, n), ~NoRoom(t, n)
  PROVE  LET u == Readied(t, n)
         IN  /\ u \in Tables /\ u[n].next # n /\ (u[n].next # 0 => u[u[n].next].next = 0)
             /\ u[n].kind = t[n].kind
<1> DEFINE u == Readied(t, n)
           f == FreeIn(t)
<1>1. CASE t[n].next # 0
  <2>1. u = t
    BY <1>1 DEF Readied
  <2> HIDE DEF u
  <2> QED BY <1>1, <2>1 DEF ChainFits, u
<1>2. CASE t[n].next = 0
  <2>1. u = Linked(t, n, f)
    BY <1>2 DEF Readied
  <2>2. f \in EntryIds /\ t[f].kind = "free" /\ f # n
    BY <1>2, FreeInIs DEF NoRoom
  <2> HIDE DEF u, f
  <2>3. u \in Tables /\ u[f] = ChainedEntry(t[n], n) /\ u[n].next = f /\ u[n].kind = t[n].kind
    BY <2>1, <2>2, LinkedIs
  <2>4. t[n] \in EntrySet
    BY DEF Tables
  <2>5. u[f].next = 0
    BY <2>3, <2>4, ChainedIs
  <2> QED BY <2>2, <2>3, <2>5 DEF u
<1> QED BY <1>1, <1>2

(* set_entry_refcount and then set_entry_size.                             *)
LEMMA ReadyFails ==
  ASSUME Stores, ~Cuttable, NEW d \in Disks, NEW t \in Tables, NEW x, NEW r, NEW n \in EntryIds,
         NEW to \in 1 .. ENTRYREFS, t[n].kind # "free", ChainFits(t, n), NoRoom(t, n)
  PROVE  set_entry_refcount(On(d, t, x, r), d, n, to) = On(d, t, x, FreeIn(t)) /\ IsError(FreeIn(t))
<1>1. set_entry_refcount(On(d, t, x, r), d, n, to) =
           IF t[n].next # 0 THEN On(d, t, x, 0)
           ELSE IF IsError(FreeIn(t)) THEN On(d, t, x, FreeIn(t))
           ELSE On(d, Linked(t, n, FreeIn(t)), x, 0)
  BY RefcountIs DEF ChainFits
<1> QED BY <1>1 DEF NoRoom

LEMMA ReadyIs ==
  ASSUME Stores, ~Cuttable, NEW d \in Disks, NEW t \in Tables, NEW x, NEW r, NEW n \in EntryIds,
         NEW to \in 1 .. ENTRYREFS, t[n].kind # "free", ChainFits(t, n), ~NoRoom(t, n)
  PROVE  /\ set_entry_refcount(On(d, t, x, r), d, n, to) = On(d, Readied(t, n), x, 0)
         /\ set_entry_size(On(d, Readied(t, n), x, 0), d, n, to) = On(d, Sized(Readied(t, n), n, to), x, 0)
         /\ Sized(Readied(t, n), n, to) \in Tables
<1>1. set_entry_refcount(On(d, t, x, r), d, n, to) =
           IF t[n].next # 0 THEN On(d, t, x, 0)
           ELSE IF IsError(FreeIn(t)) THEN On(d, t, x, FreeIn(t))
           ELSE On(d, Linked(t, n, FreeIn(t)), x, 0)
  BY RefcountIs DEF ChainFits
<1>2. set_entry_refcount(On(d, t, x, r), d, n, to) = On(d, Readied(t, n), x, 0)
  BY <1>1 DEF NoRoom, Readied
<1> DEFINE u == Readied(t, n)
<1>3. u \in Tables /\ u[n].next # n /\ (u[n].next # 0 => u[u[n].next].next = 0)
  BY ReadiedIs
<1>4. to \in 0 .. WORD - 1
  BY WordAssumption, RefsAssumption
<1> HIDE DEF u
<1>5. set_entry_size(On(d, u, x, 0), d, n, to) = On(d, Sized(u, n, to), x, 0)
  BY <1>3, <1>4, SetEntrySizeIs
<1>6. Sized(u, n, to) \in Tables
  BY <1>3, <1>4, SizedIs
<1> QED BY <1>2, <1>5, <1>6 DEF u

LEMMA GrowIs ==
  ASSUME Stores, ~Cuttable, NEW d \in Disks, NEW t \in Tables, NEW x, NEW r, NEW n \in EntryIds,
         NEW to \in 1 .. ENTRYREFS, NEW from, t[n].kind # "free", ChainFits(t, n)
  PROVE  LET u == Sized(Readied(t, n), n, to)
         IN  Grow(On(d, t, x, r), d, n, from, to) =
               IF NoRoom(t, n) THEN On(d, t, x, FreeIn(t))
               ELSE IF IsError(BlockIn(u)) THEN On(d, u, x, BlockIn(u))
               ELSE On(d, Grown(t, n, from, to), x, 0)
<1> DEFINE u == Sized(Readied(t, n), n, to)
           s == set_entry_refcount(On(d, t, x, r), d, n, to)
           F(v) == LET sized == set_entry_size(v, d, n, to)
                       e == get_entry_n(sized, d, n)
                       b == find_free_block(sized, d)
                   IN  IF IsError(b) THEN Return(sized, b)
                       ELSE write_entry(sized, d, n, Filled(e, from, to, b))
<1>1. Grow(On(d, t, x, r), d, n, from, to) = Then(s, F)
  BY DEF Grow, Filled
<1>2. CASE NoRoom(t, n)
  <2> DEFINE w == On(d, t, x, FreeIn(t))
  <2>1. s = w /\ IsError(FreeIn(t))
    BY <1>2, ReadyFails
  <2>2. w.ret = FreeIn(t)
    BY OnParts
  <2> HIDE DEF s, F, w
  <2> QED BY <1>1, <1>2, <2>1, <2>2 DEF Then, w
<1>3. CASE ~NoRoom(t, n)
  <2> DEFINE v == On(d, Readied(t, n), x, 0)
             w == On(d, u, x, 0)
             b == BlockIn(u)
  <2>1. s = v /\ set_entry_size(v, d, n, to) = w
    BY <1>3, ReadyIs
  <2>2. ~IsError(v.ret)
    BY OnParts DEF IsError
  <2>3. get_entry_n(w, d, n) = u[n] /\ find_free_block(w, d) = b /\ Return(w, b) = On(d, u, x, b)
    BY OnFree, OnReturn
  <2>4. write_entry(w, d, n, Filled(u[n], from, to, b)) = On(d, Put(u, n, Filled(u[n], from, to, b)), x, 0)
    BY OnWrite
  <2>5. Grown(t, n, from, to) = Put(u, n, Filled(u[n], from, to, b))
    BY DEF Grown
  <2> HIDE DEF s, v, w, b, u
  <2>6. F(v) = IF IsError(b) THEN Return(w, b) ELSE write_entry(w, d, n, Filled(u[n], from, to, b))
    BY <2>1, <2>3
  <2> HIDE DEF F
  <2>7. Then(s, F) = F(v)
    BY <2>1, <2>2 DEF Then
  <2> QED BY <1>1, <1>3, <2>3, <2>4, <2>5, <2>6, <2>7 DEF b, u
<1> QED BY <1>2, <1>3

LEMMA ShrinkIs ==
  ASSUME Stores, ~Cuttable, NEW d \in Disks, NEW t \in Tables, NEW x, NEW r, NEW n \in EntryIds,
         NEW to \in 1 .. ENTRYREFS, t[n].kind # "free", ChainFits(t, n)
  PROVE  Shrink(On(d, t, x, r), d, n, to) =
           IF NoRoom(t, n) THEN On(d, t, x, FreeIn(t)) ELSE On(d, Sized(Readied(t, n), n, to), x, 0)
<1> DEFINE u == Sized(Readied(t, n), n, to)
           s == set_entry_refcount(On(d, t, x, r), d, n, to)
<1>1. Shrink(On(d, t, x, r), d, n, to) = IF IsError(s.ret) THEN s ELSE set_entry_size(s, d, n, to)
  BY DEF Shrink, Then
<1>2. CASE NoRoom(t, n)
  <2>1. s = On(d, t, x, FreeIn(t))
    BY <1>2, ReadyFails
  <2>2. On(d, t, x, FreeIn(t)).ret = FreeIn(t) /\ IsError(FreeIn(t))
    BY <1>2, OnParts DEF NoRoom
  <2> HIDE DEF s
  <2> QED BY <1>1, <1>2, <2>1, <2>2
<1>3. CASE ~NoRoom(t, n)
  <2> DEFINE v == On(d, Readied(t, n), x, 0)
  <2>1. s = v /\ set_entry_size(v, d, n, to) = On(d, u, x, 0) /\ ~IsError(v.ret)
    BY <1>3, ReadyIs, OnParts DEF IsError
  <2> HIDE DEF s, v, u
  <2> QED BY <1>1, <1>3, <2>1 DEF u
<1> QED BY <1>2, <1>3

-----------------------------------------------------------------------------
(* What a sound table says of one entry.                                   *)
LEMMA TableIs ==
  ASSUME NEW t, Table(t)
  PROVE  /\ t \in Tables
         /\ \A k \in EntryIds : /\ t[k] \in EntrySet /\ t[k].parent \in EntryIds /\ t[k].next \in EntryIds
                                /\ t[k].kind \in {"free", "dir", "file"} /\ t[k].size \in Nat
BY EntryIs DEF Table, Tables

(* A directory, a file, a chained entry.                                   *)
LEMMA Kinds ==
  ASSUME NEW t, Table(t), NEW n \in EntryIds
  PROVE  /\ IsDir(t, 0)
         /\ IsDir(t, n) => /\ t[n].next = 0 /\ t[n].name \in DirNames /\ t[n].size <= ENTRYREFS
                           /\ IsDir(t, t[n].parent) /\ IsHead(t, n)
         /\ t[n].kind = "file" => (IsFile(t, n) \/ IsChain(t, n)) /\ t[n].name \in FileNames
         /\ IsFile(t, n) => /\ IsHead(t, n) /\ t[n].size <= ENTRYREFS /\ t[t[n].parent].kind = "dir"
                            /\ ~IsChain(t, n) /\ ChainFits(t, n) /\ t[n].next # n
                            /\ t[n].next # 0 => IsChain(t, t[n].next)
         /\ IsChain(t, n) => t[t[n].parent].next = n /\ t[n].next = 0 /\ t[n].ref = NoRefs /\ ~IsHead(t, n)
         /\ IsHead(t, n) => t[n].kind # "free" /\ IsDir(t, t[n].parent)
<1> USE DEF IsDir, IsFile, IsChain, IsHead
<1>1. t[n].parent \in EntryIds /\ t[n].next \in EntryIds /\ t[n].kind \in {"free", "dir", "file"}
  BY TableIs
<1>2. /\ IsDir(t, 0)
      /\ IsDir(t, n) => /\ t[n].next = 0 /\ t[n].name \in DirNames /\ t[n].size <= ENTRYREFS
                        /\ IsDir(t, t[n].parent) /\ IsHead(t, n)
  BY DEF Table, RootThere, DirsSound
<1>3. t[n].kind = "file" => (IsFile(t, n) \/ IsChain(t, n)) /\ t[n].name \in FileNames
  BY DEF Table, FilesSound
<1>4. IsChain(t, n) => t[t[n].parent].next = n /\ t[n].next = 0 /\ t[n].ref = NoRefs /\ ~IsHead(t, n)
  BY DEF Table, FilesSound
<1>5. IsHead(t, n) => t[n].kind # "free" /\ IsDir(t, t[n].parent)
  BY <1>2
<1>6. ASSUME IsFile(t, n)
      PROVE  /\ IsHead(t, n) /\ t[n].size <= ENTRYREFS /\ t[t[n].parent].kind = "dir"
             /\ ~IsChain(t, n) /\ ChainFits(t, n) /\ t[n].next # n
             /\ t[n].next # 0 => IsChain(t, t[n].next)
  <2>1. /\ t[n].size <= ENTRYREFS
        /\ t[n].next # 0 => t[t[n].next].kind = "file" /\ t[t[n].next].parent = n
    BY <1>6 DEF Table, FilesSound
  <2>2. t[n].next # 0 => IsChain(t, t[n].next)
    BY <1>6, <2>1
  <2>3. t[n].next # 0 => t[t[n].next].next = 0 /\ t[t[n].next].ref = NoRefs
    <3>1. \A c \in EntryIds : IsChain(t, c) => t[c].next = 0 /\ t[c].ref = NoRefs
      BY DEF Table, FilesSound
    <3> QED BY <1>1, <2>2, <3>1
  <2>4. t[n].next # n
    BY <1>2, <1>6, <2>2, IdsAre
  <2> QED BY <1>6, <2>1, <2>2, <2>3, <2>4 DEF ChainFits
<1> QED BY <1>2, <1>3, <1>4, <1>5, <1>6

-----------------------------------------------------------------------------
(* A chained entry for a file keeps a table sound.                         *)
LEMMA LinkSound ==
  ASSUME NEW t, Table(t), NEW n \in EntryIds, IsFile(t, n), t[n].next = 0,
         NEW f \in EntryIds, t[f].kind = "free"
  PROVE  Table(Linked(t, n, f))
<1> DEFINE u == Linked(t, n, f)
<1> HIDE DEF u
<1>1. /\ t \in Tables
      /\ \A k \in EntryIds : /\ t[k].parent \in EntryIds /\ t[k].next \in EntryIds
                             /\ t[k].kind \in {"free", "dir", "file"} /\ t[k].size \in Nat
  BY TableIs
<1>2. f # n /\ f # 0 /\ t[n] \in EntrySet /\ n # 0
  BY <1>1, Kinds, IdsAre DEF IsFile, IsDir, Tables
<1>3. /\ u \in Tables /\ u[f] = ChainedEntry(t[n], n)
      /\ u[n].next = f /\ u[n].kind = t[n].kind /\ u[n].name = t[n].name /\ u[n].size = t[n].size
      /\ u[n].parent = t[n].parent /\ u[n].ref = t[n].ref
      /\ \A k \in EntryIds : k # n /\ k # f => u[k] = t[k]
  BY <1>1, <1>2, LinkedIs DEF u
<1>4. u[f] = [kind |-> t[n].kind, name |-> t[n].name, size |-> 0, parent |-> n, next |-> 0, ref |-> NoRefs]
  BY <1>2, <1>3, ChainedIs
<1>5. /\ u[f].kind = "file" /\ u[f].name = t[n].name /\ u[f].size = 0 /\ u[f].parent = n /\ u[f].next = 0
      /\ u[f].ref = NoRefs
  BY <1>4 DEF IsFile
<1> HIDE <1>4
<1> USE DEF IsDir, IsFile, IsChain, IsHead
<1>6. \A k \in EntryIds : /\ t[k].kind # "free" => /\ u[k].kind = t[k].kind /\ u[k].name = t[k].name
                                                   /\ u[k].size = t[k].size /\ u[k].parent = t[k].parent
                                                   /\ u[k].ref = t[k].ref /\ (k # n => u[k].next = t[k].next)
                          /\ k # f => u[k].kind = t[k].kind
  BY <1>2, <1>3
(* The parent of an entry in use is in use.                                *)
<1>7. \A k \in EntryIds : t[k].kind # "free" => t[t[k].parent].kind # "free"
  BY <1>1, Kinds
<1>8. \A k \in EntryIds : /\ IsDir(u, k) <=> IsDir(t, k)
                          /\ IsFile(u, k) <=> IsFile(t, k)
                          /\ IsChain(u, k) <=> IsChain(t, k) \/ k = f
  BY <1>1, <1>2, <1>3, <1>5, <1>6, <1>7
<1>9. \A k \in EntryIds : (IsHead(u, k) <=> IsHead(t, k)) /\ (IsHead(t, k) => k # f)
  BY <1>8
<1> HIDE DEF IsDir, IsFile, IsChain, IsHead
<1>10. \A k \in EntryIds : IsHead(t, k) => t[k].kind # "free"
  BY DEF IsHead, IsDir, IsFile
<1>11. RootThere(u)
  BY <1>6, <1>8, Kinds, IdsAre DEF RootThere, IsDir, Table
<1>12. DirsSound(u)
  <2> SUFFICES ASSUME NEW k \in EntryIds, IsDir(u, k)
               PROVE  /\ u[k].name \in DirNames /\ u[k].next = 0 /\ u[k].size <= ENTRYREFS
                      /\ IsDir(u, u[k].parent)
                      /\ \A i \in RefIds : u[k].ref[i] \in EntryIds
    BY DEF DirsSound
  <2>1. IsDir(t, k) /\ t[k].kind = "dir" /\ k # n
    BY <1>8 DEF IsDir, IsFile
  <2>2. /\ t[k].name \in DirNames /\ t[k].next = 0 /\ t[k].size <= ENTRYREFS
        /\ IsDir(t, t[k].parent)
        /\ \A i \in RefIds : t[k].ref[i] \in EntryIds
    BY <2>1 DEF Table, DirsSound
  <2> QED BY <1>1, <1>6, <1>8, <2>1, <2>2
<1>13. FilesSound(u)
  <2> SUFFICES ASSUME NEW k \in EntryIds, u[k].kind = "file"
               PROVE  /\ IsFile(u, k) \/ IsChain(u, k)
                      /\ u[k].name \in FileNames
                      /\ \A i \in RefIds : u[k].ref[i] \in {0} \cup DataBlocks
                      /\ IsFile(u, k) => /\ u[k].size <= ENTRYREFS
                                         /\ u[k].next # 0 => u[u[k].next].kind = "file" /\ u[u[k].next].parent = k
                      /\ IsChain(u, k) => u[u[k].parent].next = k /\ u[k].next = 0 /\ u[k].ref = NoRefs
    BY DEF FilesSound
  <2>0. t[n].kind = "file" /\ t[n].name \in FileNames
    BY Kinds DEF IsFile
  <2>1. CASE k = f
    <3>1. IsChain(u, k) /\ ~IsFile(u, k)
      BY <1>8, <1>9, <2>1 DEF IsHead
    <3> QED BY <1>3, <1>5, <2>0, <2>1, <3>1, IdsAre
  <2>2. CASE k # f
    <3>1. t[k].kind = "file"
      BY <1>6, <2>2
    <3>2. /\ IsFile(t, k) \/ IsChain(t, k)
          /\ t[k].name \in FileNames
          /\ \A i \in RefIds : t[k].ref[i] \in {0} \cup DataBlocks
          /\ IsFile(t, k) => /\ t[k].size <= ENTRYREFS
                             /\ t[k].next # 0 => t[t[k].next].kind = "file" /\ t[t[k].next].parent = k
          /\ IsChain(t, k) => t[t[k].parent].next = k /\ t[k].next = 0 /\ t[k].ref = NoRefs
      BY <3>1 DEF Table, FilesSound
    <3>3. u[k].kind = t[k].kind /\ u[k].name = t[k].name /\ u[k].size = t[k].size
          /\ u[k].parent = t[k].parent /\ u[k].ref = t[k].ref
      BY <1>6, <3>1
    <3>4. IsFile(u, k) => /\ u[k].size <= ENTRYREFS
                          /\ u[k].next # 0 => u[u[k].next].kind = "file" /\ u[u[k].next].parent = k
      <4>1. CASE k = n
        BY <1>3, <1>5, <1>8, <3>2, <3>3, <4>1
      <4>2. CASE k # n
        <5>1. u[k].next = t[k].next
          BY <1>6, <3>1, <4>2
        <5> QED BY <1>1, <1>6, <1>8, <3>2, <3>3, <5>1
      <4> QED BY <4>1, <4>2
    <3>5. IsChain(u, k) => u[u[k].parent].next = k /\ u[k].next = 0 /\ u[k].ref = NoRefs
      <4> SUFFICES ASSUME IsChain(t, k)
                   PROVE  u[u[k].parent].next = k /\ u[k].next = 0 /\ u[k].ref = NoRefs
        BY <1>8, <2>2
      <4>1. t[t[k].parent].next = k /\ t[k].next = 0 /\ t[k].ref = NoRefs
        BY <3>2
      <4>2. k # 0 /\ k # n
        BY Kinds, IdsAre, <3>1 DEF IsDir
      <4>3. t[k].parent # n
        BY <4>1, <4>2
      <4>4. t[k].parent \in EntryIds /\ t[t[k].parent].kind # "free"
        BY <1>1, <1>7, <3>1
      <4>5. u[t[k].parent].next = k
        BY <1>6, <4>1, <4>3, <4>4
      <4>6. u[k].next = 0
        BY <1>6, <3>1, <4>1, <4>2
      <4> QED BY <3>3, <4>1, <4>5, <4>6
    <3> QED BY <1>8, <3>2, <3>3, <3>4, <3>5
  <2> QED BY <2>1, <2>2
<1>14. FreeSound(u)
  <2> SUFFICES ASSUME NEW k \in EntryIds, u[k].kind = "free" PROVE \A i \in RefIds : u[k].ref[i] \in EntryIds
    BY DEF FreeSound
  <2>1. k # f /\ k # n
    BY <1>3, <1>5 DEF IsFile
  <2> QED BY <1>3, <2>1 DEF Table, FreeSound
<1>15. Unique(u)
  BY <1>6, <1>9, <1>10 DEF Unique, Table
<1>16. Lists(u)
  <2> SUFFICES ASSUME NEW p \in EntryIds, IsDir(u, p)
               PROVE  /\ \A i \in RefIds : i < u[p].size =>
                           u[p].ref[i] # 0 /\ IsHead(u, u[p].ref[i]) /\ u[u[p].ref[i]].parent = p
                      /\ \A k \in EntryIds \ {0} : IsHead(u, k) /\ u[k].parent = p =>
                           \E i \in RefIds : i < u[p].size /\ u[p].ref[i] = k
                      /\ \A i, j \in RefIds : i < u[p].size /\ j < u[p].size /\ u[p].ref[i] = u[p].ref[j] => i = j
                      /\ \A i \in RefIds : i >= u[p].size => u[p].ref[i] = 0
    BY DEF Lists
  <2>1. IsDir(t, p) /\ u[p].size = t[p].size /\ u[p].ref = t[p].ref
    BY <1>6, <1>8 DEF IsDir
  <2>2. /\ \A i \in RefIds : i < t[p].size =>
             t[p].ref[i] # 0 /\ IsHead(t, t[p].ref[i]) /\ t[t[p].ref[i]].parent = p
        /\ \A k \in EntryIds \ {0} : IsHead(t, k) /\ t[k].parent = p =>
             \E i \in RefIds : i < t[p].size /\ t[p].ref[i] = k
        /\ \A i, j \in RefIds : i < t[p].size /\ j < t[p].size /\ t[p].ref[i] = t[p].ref[j] => i = j
        /\ \A i \in RefIds : i >= t[p].size => t[p].ref[i] = 0
    BY <2>1 DEF Table, Lists
  <2>3. \A i \in RefIds : t[p].ref[i] \in EntryIds
    BY <2>1 DEF Table, DirsSound
  <2>4. \A k \in EntryIds : IsHead(t, k) => IsHead(u, k) /\ u[k].parent = t[k].parent
    BY <1>6, <1>9, <1>10
  <2>5. \A k \in EntryIds : IsHead(u, k) => IsHead(t, k) /\ u[k].parent = t[k].parent
    BY <1>6, <1>9, <1>10
  <2>6. \A i \in RefIds : i < u[p].size => u[p].ref[i] # 0 /\ IsHead(u, u[p].ref[i]) /\ u[u[p].ref[i]].parent = p
    BY <2>1, <2>2, <2>3, <2>4
  <2>7. \A k \in EntryIds \ {0} : IsHead(u, k) /\ u[k].parent = p => \E i \in RefIds : i < u[p].size /\ u[p].ref[i] = k
    BY <2>1, <2>2, <2>5
  <2> QED BY <2>1, <2>2, <2>6, <2>7
<1>17. Owned(u)
  <2>1. \A k \in EntryIds : IsFile(u, k) => IsFile(t, k) /\ u[k].size = t[k].size /\ u[k].ref = t[k].ref
    BY <1>6, <1>8 DEF IsFile
  <2> QED BY <2>1 DEF Owned, Table
<1>18. Table(u)
  BY <1>3, <1>11, <1>12, <1>13, <1>14, <1>15, <1>16, <1>17 DEF Table, Tables
<1> QED BY <1>18 DEF u

-----------------------------------------------------------------------------
(* Another size, and other references of one file.                         *)
Rewritten(t, u, n) ==
  /\ u \in Tables
  /\ \A k \in EntryIds : /\ u[k].kind = t[k].kind /\ u[k].name = t[k].name
                         /\ u[k].next = t[k].next /\ u[k].parent = t[k].parent
                         /\ k # n => u[k].ref = t[k].ref
                         /\ k # n /\ (k # t[n].next \/ k = 0) => u[k] = t[k]

LEMMA RewriteSound ==
  ASSUME NEW t, Table(t), NEW n \in EntryIds, IsFile(t, n), NEW u, Rewritten(t, u, n),
         u[n].size <= ENTRYREFS, \A i \in RefIds : u[n].ref[i] \in {0} \cup DataBlocks, Owned(u)
  PROVE  Table(u)
<1>1. \A k \in EntryIds : /\ t[k].parent \in EntryIds /\ t[k].next \in EntryIds
                          /\ t[k].kind \in {"free", "dir", "file"} /\ t[k].size \in Nat
  BY TableIs
<1>2. \A k \in EntryIds : /\ u[k].kind = t[k].kind /\ u[k].name = t[k].name
                          /\ u[k].next = t[k].next /\ u[k].parent = t[k].parent
                          /\ k # n => u[k].ref = t[k].ref
  BY DEF Rewritten
<1>3. n # 0 /\ t[n].next # n /\ t[n].kind = "file"
  BY Kinds DEF IsFile, IsDir
<1>4. \A k \in EntryIds : IsHead(t, k) /\ k # n => u[k] = t[k]
  <2> SUFFICES ASSUME NEW k \in EntryIds, IsHead(t, k), k # n PROVE u[k] = t[k]
    OBVIOUS
  <2>1. t[n].next # 0 => IsChain(t, t[n].next)
    BY Kinds
  <2>2. k # t[n].next \/ k = 0
    BY <1>1, <2>1, Kinds
  <2> QED BY <2>2 DEF Rewritten
<1>5. \A k \in EntryIds : /\ IsDir(u, k) <=> IsDir(t, k)
                          /\ IsFile(u, k) <=> IsFile(t, k)
                          /\ IsChain(u, k) <=> IsChain(t, k)
                          /\ IsHead(u, k) <=> IsHead(t, k)
  BY <1>1, <1>2 DEF IsDir, IsFile, IsChain, IsHead
<1>6. \A k \in EntryIds : IsDir(t, k) => u[k] = t[k]
  BY <1>3, <1>4 DEF IsHead, IsDir
<1>7. \A k \in EntryIds : t[k].kind = "free" => u[k].ref = t[k].ref
  BY <1>2, <1>3
<1>8. RootThere(u)
  BY <1>2, <1>5, IdsAre DEF RootThere, Table
<1>9. DirsSound(u)
  <2> SUFFICES ASSUME NEW k \in EntryIds, IsDir(u, k)
               PROVE  /\ u[k].name \in DirNames /\ u[k].next = 0 /\ u[k].size <= ENTRYREFS
                      /\ IsDir(u, u[k].parent)
                      /\ \A i \in RefIds : u[k].ref[i] \in EntryIds
    BY DEF DirsSound
  <2>1. /\ t[k].name \in DirNames /\ t[k].next = 0 /\ t[k].size <= ENTRYREFS
        /\ IsDir(t, t[k].parent)
        /\ \A i \in RefIds : t[k].ref[i] \in EntryIds
    BY <1>5 DEF Table, DirsSound
  <2> QED BY <1>1, <1>5, <1>6, <2>1
<1>10. FilesSound(u)
  <2> SUFFICES ASSUME NEW k \in EntryIds, u[k].kind = "file"
               PROVE  /\ IsFile(u, k) \/ IsChain(u, k)
                      /\ u[k].name \in FileNames
                      /\ \A i \in RefIds : u[k].ref[i] \in {0} \cup DataBlocks
                      /\ IsFile(u, k) => /\ u[k].size <= ENTRYREFS
                                         /\ u[k].next # 0 => u[u[k].next].kind = "file" /\ u[u[k].next].parent = k
                      /\ IsChain(u, k) => u[u[k].parent].next = k /\ u[k].next = 0 /\ u[k].ref = NoRefs
    BY DEF FilesSound
  <2>1. t[k].kind = "file"
    BY <1>2
  <2>2. /\ IsFile(t, k) \/ IsChain(t, k)
        /\ t[k].name \in FileNames
        /\ \A i \in RefIds : t[k].ref[i] \in {0} \cup DataBlocks
        /\ IsFile(t, k) => /\ t[k].size <= ENTRYREFS
                           /\ t[k].next # 0 => t[t[k].next].kind = "file" /\ t[t[k].next].parent = k
        /\ IsChain(t, k) => t[t[k].parent].next = k /\ t[k].next = 0 /\ t[k].ref = NoRefs
    BY <2>1 DEF Table, FilesSound
  <2>3. \A i \in RefIds : u[k].ref[i] \in {0} \cup DataBlocks
    BY <1>2, <2>2
  <2>4. IsFile(t, k) => u[k].size <= ENTRYREFS
    <3>1. IsFile(t, k) /\ k # n => u[k].size = t[k].size
      BY <1>4 DEF IsHead
    <3> QED BY <2>2, <3>1
  <2>5. IsFile(t, k) => (u[k].next # 0 => u[u[k].next].kind = "file" /\ u[u[k].next].parent = k)
    BY <1>1, <1>2, <2>2
  <2>6. IsChain(t, k) => u[u[k].parent].next = k /\ u[k].next = 0 /\ u[k].ref = NoRefs
    <3>1. IsChain(t, k) => k # n
      BY Kinds
    <3> QED BY <1>1, <1>2, <2>2, <3>1
  <2> QED BY <1>2, <1>5, <2>2, <2>3, <2>4, <2>5, <2>6
<1>11. FreeSound(u)
  BY <1>2, <1>7 DEF FreeSound, Table
<1>12. Unique(u)
  BY <1>2, <1>5 DEF Unique, Table
<1>13. Lists(u)
  <2> SUFFICES ASSUME NEW p \in EntryIds, IsDir(u, p)
               PROVE  /\ \A i \in RefIds : i < u[p].size =>
                           u[p].ref[i] # 0 /\ IsHead(u, u[p].ref[i]) /\ u[u[p].ref[i]].parent = p
                      /\ \A k \in EntryIds \ {0} : IsHead(u, k) /\ u[k].parent = p =>
                           \E i \in RefIds : i < u[p].size /\ u[p].ref[i] = k
                      /\ \A i, j \in RefIds : i < u[p].size /\ j < u[p].size /\ u[p].ref[i] = u[p].ref[j] => i = j
                      /\ \A i \in RefIds : i >= u[p].size => u[p].ref[i] = 0
    BY DEF Lists
  <2>1. IsDir(t, p) /\ u[p].size = t[p].size /\ u[p].ref = t[p].ref
    BY <1>5, <1>6
  <2>2. /\ \A i \in RefIds : i < t[p].size =>
             t[p].ref[i] # 0 /\ IsHead(t, t[p].ref[i]) /\ t[t[p].ref[i]].parent = p
        /\ \A k \in EntryIds \ {0} : IsHead(t, k) /\ t[k].parent = p =>
             \E i \in RefIds : i < t[p].size /\ t[p].ref[i] = k
        /\ \A i, j \in RefIds : i < t[p].size /\ j < t[p].size /\ t[p].ref[i] = t[p].ref[j] => i = j
        /\ \A i \in RefIds : i >= t[p].size => t[p].ref[i] = 0
    BY <2>1 DEF Table, Lists
  <2>3. \A i \in RefIds : t[p].ref[i] \in EntryIds
    BY <2>1 DEF Table, DirsSound
  <2>6. \A i \in RefIds : i < u[p].size => u[p].ref[i] # 0 /\ IsHead(u, u[p].ref[i]) /\ u[u[p].ref[i]].parent = p
    BY <1>2, <1>5, <2>1, <2>2, <2>3
  <2>7. \A k \in EntryIds \ {0} : IsHead(u, k) /\ u[k].parent = p => \E i \in RefIds : i < u[p].size /\ u[p].ref[i] = k
    BY <1>2, <1>5, <2>1, <2>2
  <2> QED BY <2>1, <2>2, <2>6, <2>7
<1> QED BY <1>8, <1>9, <1>10, <1>11, <1>12, <1>13 DEF Table, Rewritten, Tables

-----------------------------------------------------------------------------
(* A new file or directory keeps a table sound.                            *)
LEMMA MadeSound ==
  ASSUME NEW t, Table(t), NEW n \in EntryIds, t[n].kind = "free",
         NEW p \in EntryIds, IsDir(t, p), t[p].size < ENTRYREFS,
         NEW kind \in {"file", "dir"}, NEW name,
         kind = "file" => name \in FileNames, kind = "dir" => name \in DirNames,
         \A k \in EntryIds : IsHead(t, k) /\ t[k].parent = p => t[k].name # name
  PROVE  Table(Made(t, n, NewEntry(kind, p, name), p))
<1> DEFINE e == NewEntry(kind, p, name)
           u == Made(t, n, e, p)
<1> HIDE DEF u
<1>1. /\ t \in Tables
      /\ \A k \in EntryIds : /\ t[k].parent \in EntryIds /\ t[k].next \in EntryIds
                             /\ t[k].kind \in {"free", "dir", "file"} /\ t[k].size \in Nat
  BY TableIs
<1>2. n # p /\ n # 0 /\ t[p].next = 0 /\ t[p].kind = "dir" /\ t[p].size \in RefIds
  BY <1>1, Kinds, IdsAre DEF IsDir
<1>3. e \in EntrySet
  BY NewIs
<1>4. /\ u \in Tables /\ u[n] = e
      /\ u[p].kind = t[p].kind /\ u[p].name = t[p].name /\ u[p].next = t[p].next
      /\ u[p].parent = t[p].parent /\ u[p].size = t[p].size + 1
      /\ \A i \in RefIds : u[p].ref[i] = IF i = t[p].size THEN n ELSE t[p].ref[i]
      /\ \A k \in EntryIds : k # p /\ k # n => u[k] = t[k]
  BY <1>1, <1>2, <1>3, MadeIs DEF u
<1>5. /\ u[n].kind = kind /\ u[n].name = name /\ u[n].size = 0 /\ u[n].parent = p /\ u[n].next = 0
      /\ u[n].ref = NoRefs
  BY <1>4 DEF NewEntry
<1> HIDE DEF e
<1>6. \A k \in EntryIds : k # n => /\ u[k].kind = t[k].kind /\ u[k].name = t[k].name
                                   /\ u[k].next = t[k].next /\ u[k].parent = t[k].parent
  BY <1>2, <1>4
<1>7. \A k \in EntryIds : t[k].kind # "free" => t[k].parent # n /\ k # n
  BY <1>1, Kinds DEF IsDir, IsFile, IsChain
<1>8. \A k \in EntryIds : /\ IsDir(u, k) <=> IsDir(t, k) \/ (k = n /\ kind = "dir")
                          /\ IsFile(u, k) <=> IsFile(t, k) \/ (k = n /\ kind = "file")
                          /\ IsChain(u, k) <=> IsChain(t, k)
  BY <1>1, <1>2, <1>5, <1>6, <1>7 DEF IsDir, IsFile, IsChain
<1>9. \A k \in EntryIds : IsHead(u, k) <=> IsHead(t, k) \/ k = n
  BY <1>8 DEF IsHead
<1>10. \A k \in EntryIds : (IsHead(t, k) \/ IsDir(t, k) \/ IsFile(t, k) \/ IsChain(t, k)) => t[k].kind # "free" /\ k # n
  BY <1>7 DEF IsHead, IsDir, IsFile, IsChain
<1>11. RootThere(u)
  BY <1>2, <1>6, <1>8, IdsAre DEF RootThere, Table
<1>12. DirsSound(u)
  <2> SUFFICES ASSUME NEW k \in EntryIds, IsDir(u, k)
               PROVE  /\ u[k].name \in DirNames /\ u[k].next = 0 /\ u[k].size <= ENTRYREFS
                      /\ IsDir(u, u[k].parent)
                      /\ \A i \in RefIds : u[k].ref[i] \in EntryIds
    BY DEF DirsSound
  <2>1. CASE k = n
    <3>1. kind = "dir"
      BY <1>8, <1>10, <2>1
    <3>2. 0 <= ENTRYREFS
      BY RefsAssumption
    <3> QED BY <1>5, <1>8, <2>1, <3>1, <3>2, IdsAre
  <2>2. CASE k # n
    <3>1. /\ t[k].name \in DirNames /\ t[k].next = 0 /\ t[k].size <= ENTRYREFS
          /\ IsDir(t, t[k].parent)
          /\ \A i \in RefIds : t[k].ref[i] \in EntryIds
      BY <1>8, <2>2 DEF Table, DirsSound
    <3>2. u[k].size <= ENTRYREFS
      <4>1. k = p => u[k].size = t[k].size + 1
        BY <1>4
      <4>2. k # p => u[k].size = t[k].size
        BY <1>4, <2>2
      <4> QED BY <1>1, <3>1, <4>1, <4>2, RefsAssumption
    <3>3. \A i \in RefIds : u[k].ref[i] \in EntryIds
      BY <1>4, <2>2, <3>1
    <3> QED BY <1>1, <1>6, <1>8, <2>2, <3>1, <3>2, <3>3
  <2> QED BY <2>1, <2>2
<1>13. FilesSound(u)
  <2> SUFFICES ASSUME NEW k \in EntryIds, u[k].kind = "file"
               PROVE  /\ IsFile(u, k) \/ IsChain(u, k)
                      /\ u[k].name \in FileNames
                      /\ \A i \in RefIds : u[k].ref[i] \in {0} \cup DataBlocks
                      /\ IsFile(u, k) => /\ u[k].size <= ENTRYREFS
                                         /\ u[k].next # 0 => u[u[k].next].kind = "file" /\ u[u[k].next].parent = k
                      /\ IsChain(u, k) => u[u[k].parent].next = k /\ u[k].next = 0 /\ u[k].ref = NoRefs
    BY DEF FilesSound
  <2>1. CASE k = n
    <3>1. kind = "file" /\ IsFile(u, k) /\ ~IsChain(u, k)
      BY <1>5, <1>8, <1>10, <2>1
    <3>2. 0 <= ENTRYREFS
      BY RefsAssumption
    <3> QED BY <1>5, <2>1, <3>1, <3>2, IdsAre
  <2>2. CASE k # n
    <3>1. t[k].kind = "file" /\ k # p /\ u[k] = t[k]
      BY <1>2, <1>4, <1>6, <2>2
    <3>2. /\ IsFile(t, k) \/ IsChain(t, k)
          /\ t[k].name \in FileNames
          /\ \A i \in RefIds : t[k].ref[i] \in {0} \cup DataBlocks
          /\ IsFile(t, k) => /\ t[k].size <= ENTRYREFS
                             /\ t[k].next # 0 => t[t[k].next].kind = "file" /\ t[t[k].next].parent = k
          /\ IsChain(t, k) => t[t[k].parent].next = k /\ t[k].next = 0 /\ t[k].ref = NoRefs
      BY <3>1 DEF Table, FilesSound
    <3>3. IsFile(t, k) /\ t[k].next # 0 => t[k].next # n /\ t[k].next \in EntryIds
      BY <1>1, <3>2
    <3>4. IsChain(t, k) => t[k].parent # n /\ t[k].parent \in EntryIds
      BY <1>1, <1>7, <3>1
    <3>5. IsFile(u, k) => /\ u[k].size <= ENTRYREFS
                          /\ u[k].next # 0 => u[u[k].next].kind = "file" /\ u[u[k].next].parent = k
      BY <1>6, <1>8, <2>2, <3>1, <3>2, <3>3
    <3>6. IsChain(u, k) => u[u[k].parent].next = k /\ u[k].next = 0 /\ u[k].ref = NoRefs
      BY <1>6, <1>8, <2>2, <3>1, <3>2, <3>4
    <3> QED BY <1>8, <3>1, <3>2, <3>5, <3>6
  <2> QED BY <2>1, <2>2
<1>14. FreeSound(u)
  <2> SUFFICES ASSUME NEW k \in EntryIds, u[k].kind = "free" PROVE \A i \in RefIds : u[k].ref[i] \in EntryIds
    BY DEF FreeSound
  <2>1. k # n /\ k # p
    BY <1>2, <1>4, <1>5
  <2> QED BY <1>4, <2>1 DEF Table, FreeSound
<1>15. Unique(u)
  <2> SUFFICES ASSUME NEW m \in EntryIds, NEW k \in EntryIds, IsHead(u, m), IsHead(u, k),
                      u[m].parent = u[k].parent, u[m].name = u[k].name
               PROVE  m = k
    BY DEF Unique
  <2>1. CASE m # n /\ k # n
    BY <1>6, <1>9, <2>1 DEF Unique, Table
  <2>2. CASE m = n /\ k # n
    BY <1>5, <1>6, <1>9, <2>2
  <2>3. CASE m # n /\ k = n
    BY <1>5, <1>6, <1>9, <2>3
  <2> QED BY <2>1, <2>2, <2>3
<1>16. Lists(u)
  <2> SUFFICES ASSUME NEW q \in EntryIds, IsDir(u, q)
               PROVE  /\ \A i \in RefIds : i < u[q].size =>
                           u[q].ref[i] # 0 /\ IsHead(u, u[q].ref[i]) /\ u[u[q].ref[i]].parent = q
                      /\ \A k \in EntryIds \ {0} : IsHead(u, k) /\ u[k].parent = q =>
                           \E i \in RefIds : i < u[q].size /\ u[q].ref[i] = k
                      /\ \A i, j \in RefIds : i < u[q].size /\ j < u[q].size /\ u[q].ref[i] = u[q].ref[j] => i = j
                      /\ \A i \in RefIds : i >= u[q].size => u[q].ref[i] = 0
    BY DEF Lists
  <2>1. ASSUME q # n
        PROVE  /\ IsDir(t, q)
               /\ \A i \in RefIds : i < t[q].size =>
                    t[q].ref[i] # 0 /\ IsHead(t, t[q].ref[i]) /\ t[t[q].ref[i]].parent = q
               /\ \A k \in EntryIds \ {0} : IsHead(t, k) /\ t[k].parent = q =>
                    \E i \in RefIds : i < t[q].size /\ t[q].ref[i] = k
               /\ \A i, j \in RefIds : i < t[q].size /\ j < t[q].size /\ t[q].ref[i] = t[q].ref[j] => i = j
               /\ \A i \in RefIds : i >= t[q].size => t[q].ref[i] = 0
               /\ \A i \in RefIds : t[q].ref[i] \in EntryIds
    BY <1>8, <2>1 DEF Table, Lists, DirsSound
  <2>2. \A k \in EntryIds : IsHead(t, k) => IsHead(u, k) /\ u[k].parent = t[k].parent /\ k # n
    BY <1>6, <1>9, <1>10
  <2>3. \A k \in EntryIds : IsHead(u, k) /\ k # n => IsHead(t, k) /\ u[k].parent = t[k].parent
    BY <1>6, <1>9
  <2>4. CASE q = n
    <3>1. \A k \in EntryIds : IsHead(u, k) => u[k].parent # q
      BY <1>2, <1>5, <1>7, <1>10, <2>3, <2>4
    <3>2. \A i \in RefIds : ~(i < u[q].size) /\ u[q].ref[i] = 0
      BY <1>5, <2>4, IdsAre
    <3> QED BY <3>1, <3>2
  <2>5. CASE q # n /\ q # p
    <3>1. u[q] = t[q]
      BY <1>4, <2>5
    <3>2. \A i \in RefIds : i < u[q].size => u[q].ref[i] # 0 /\ IsHead(u, u[q].ref[i]) /\ u[u[q].ref[i]].parent = q
      BY <2>1, <2>2, <2>5, <3>1
    <3>3. \A k \in EntryIds \ {0} : IsHead(u, k) /\ u[k].parent = q => \E i \in RefIds : i < u[q].size /\ u[q].ref[i] = k
      BY <1>5, <2>1, <2>3, <2>5, <3>1
    <3> QED BY <2>1, <2>5, <3>1, <3>2, <3>3
  <2>6. CASE q = p
    <3>1. u[q].size = t[q].size + 1 /\ t[q].size \in RefIds /\ t[q].size \in Nat
      BY <1>1, <1>2, <1>4, <2>6
    <3>2. \A i \in RefIds : /\ i = t[q].size => u[q].ref[i] = n
                            /\ i # t[q].size => u[q].ref[i] = t[q].ref[i]
                            /\ i < u[q].size <=> i < t[q].size \/ i = t[q].size
      BY <1>4, <2>6, <3>1, IdsAre
    <3>3. \A i \in RefIds : i < u[q].size => u[q].ref[i] # 0 /\ IsHead(u, u[q].ref[i]) /\ u[u[q].ref[i]].parent = q
      <4> SUFFICES ASSUME NEW i \in RefIds, i < u[q].size
                   PROVE  u[q].ref[i] # 0 /\ IsHead(u, u[q].ref[i]) /\ u[u[q].ref[i]].parent = q
        OBVIOUS
      <4>1. CASE i = t[q].size
        BY <1>2, <1>5, <1>9, <2>6, <3>2, <4>1
      <4>2. CASE i # t[q].size
        <5>1. i < t[q].size /\ u[q].ref[i] = t[q].ref[i]
          BY <3>2, <4>2
        <5> QED BY <1>2, <2>1, <2>2, <2>6, <5>1
      <4> QED BY <4>1, <4>2
    <3>4. \A k \in EntryIds \ {0} : IsHead(u, k) /\ u[k].parent = q => \E i \in RefIds : i < u[q].size /\ u[q].ref[i] = k
      <4> SUFFICES ASSUME NEW k \in EntryIds \ {0}, IsHead(u, k), u[k].parent = q
                   PROVE  \E i \in RefIds : i < u[q].size /\ u[q].ref[i] = k
        OBVIOUS
      <4>1. CASE k = n
        BY <3>1, <3>2, <4>1
      <4>2. CASE k # n
        <5>1. PICK i \in RefIds : i < t[q].size /\ t[q].ref[i] = k
          BY <1>2, <2>1, <2>3, <2>6, <4>2
        <5>2. i # t[q].size
          BY <3>1, <5>1, IdsAre
        <5> QED BY <3>2, <5>1, <5>2
      <4> QED BY <4>1, <4>2
    <3>5. \A i \in RefIds : i < t[q].size => t[q].ref[i] # n
      BY <1>2, <2>1, <2>2, <2>6
    <3>6. \A i, j \in RefIds : i < u[q].size /\ j < u[q].size /\ u[q].ref[i] = u[q].ref[j] => i = j
      BY <1>2, <2>1, <2>6, <3>2, <3>5
    <3>7. \A i \in RefIds : i >= u[q].size => u[q].ref[i] = 0
      <4> SUFFICES ASSUME NEW i \in RefIds, i >= u[q].size PROVE u[q].ref[i] = 0
        OBVIOUS
      <4>1. i \in Nat /\ i # t[q].size /\ i >= t[q].size
        BY <3>1, IdsAre
      <4> QED BY <1>2, <2>1, <2>6, <3>2, <4>1
    <3> QED BY <3>3, <3>4, <3>6, <3>7
  <2> QED BY <2>4, <2>5, <2>6
<1>17. Owned(u)
  <2>1. \A k \in EntryIds : IsFile(u, k) => /\ u[k].size = 0 \/ (IsFile(t, k) /\ u[k] = t[k])
    <3> SUFFICES ASSUME NEW k \in EntryIds, IsFile(u, k), k # n PROVE IsFile(t, k) /\ u[k] = t[k]
      BY <1>5
    <3>1. IsFile(t, k)
      BY <1>8
    <3>2. k # p
      BY <1>2, <3>1 DEF IsFile
    <3> QED BY <1>4, <3>1, <3>2
  <2>2. \A i \in RefIds : ~(i < 0)
    BY IdsAre
  <2>3. \A k \in EntryIds, i \in RefIds : IsFile(u, k) /\ i < u[k].size => IsFile(t, k) /\ u[k] = t[k]
    BY <2>1, <2>2
  <2>4. /\ \A k \in EntryIds, i \in RefIds : IsFile(t, k) /\ i < t[k].size => t[k].ref[i] \in DataBlocks
        /\ \A m, k \in EntryIds, i, j \in RefIds :
             /\ IsFile(t, m) /\ i < t[m].size /\ IsFile(t, k) /\ j < t[k].size
             /\ t[m].ref[i] = t[k].ref[j]
             => m = k /\ i = j
    BY DEF Table, Owned
  <2>5. \A k \in EntryIds, i \in RefIds : IsFile(u, k) /\ i < u[k].size => u[k].ref[i] \in DataBlocks
    BY <2>3, <2>4
  <2>6. \A m, k \in EntryIds, i, j \in RefIds :
          /\ IsFile(u, m) /\ i < u[m].size /\ IsFile(u, k) /\ j < u[k].size
          /\ u[m].ref[i] = u[k].ref[j]
          => m = k /\ i = j
    <3> SUFFICES ASSUME NEW m \in EntryIds, NEW k \in EntryIds, NEW i \in RefIds, NEW j \in RefIds,
                        IsFile(u, m), i < u[m].size, IsFile(u, k), j < u[k].size, u[m].ref[i] = u[k].ref[j]
                 PROVE  m = k /\ i = j
      OBVIOUS
    <3>1. IsFile(t, m) /\ u[m] = t[m] /\ IsFile(t, k) /\ u[k] = t[k]
      BY <2>3
    <3> QED BY <2>4, <3>1
  <2> QED BY <2>5, <2>6 DEF Owned
<1>18. Table(u)
  BY <1>4, <1>11, <1>12, <1>13, <1>14, <1>15, <1>16, <1>17 DEF Table, Tables
<1> QED BY <1>18 DEF u, e

-----------------------------------------------------------------------------
(* What a write to file m leaves of the table t: every other file and      *)
(* directory; and no entry comes to be but those chained to the file.      *)
Keeps(t, u, m) ==
  /\ \A k \in EntryIds : t[k].kind # "free" =>
       u[k].kind = t[k].kind /\ u[k].name = t[k].name /\ u[k].parent = t[k].parent
  /\ \A k \in EntryIds : t[k].kind = "free" => u[k].kind = "free" \/ u[k].parent = m
  /\ \A k \in EntryIds : IsHead(t, k) /\ k # m => u[k] = t[k]

LEMMA KeepsAll ==
  ASSUME NEW t, NEW m
  PROVE  Keeps(t, t, m)
BY DEF Keeps

LEMMA KeepsKinds ==
  ASSUME NEW t, Table(t), NEW m \in EntryIds, NEW u, Keeps(t, u, m), NEW k \in EntryIds
  PROVE  /\ IsHead(t, k) => IsHead(u, k)
         /\ IsFile(t, k) => IsFile(u, k)
         /\ IsDir(t, k) => IsDir(u, k)
<1>1. t[k].parent \in EntryIds
  BY TableIs
<1>2. IsFile(t, k) \/ IsDir(t, k) => t[t[k].parent].kind # "free" /\ t[k].kind # "free"
  BY Kinds DEF IsDir, IsFile
<1> QED BY <1>1, <1>2 DEF Keeps, IsDir, IsFile, IsHead

LEMMA KeepsOn ==
  ASSUME NEW t, Table(t), NEW m \in EntryIds, NEW u, Keeps(t, u, m), NEW v, Keeps(u, v, m)
  PROVE  Keeps(t, v, m)
<1>1. \A k \in EntryIds : t[k].kind # "free" =>
        v[k].kind = t[k].kind /\ v[k].name = t[k].name /\ v[k].parent = t[k].parent
  BY DEF Keeps
<1>2. \A k \in EntryIds : t[k].kind = "free" => v[k].kind = "free" \/ v[k].parent = m
  BY DEF Keeps
<1>3. \A k \in EntryIds : IsHead(t, k) /\ k # m => v[k] = t[k]
  BY KeepsKinds DEF Keeps
<1> QED BY <1>1, <1>2, <1>3 DEF Keeps

LEMMA RewriteKeeps ==
  ASSUME NEW t, Table(t), NEW n \in EntryIds, IsFile(t, n), NEW u, Rewritten(t, u, n)
  PROVE  Keeps(t, u, n)
<1>1. \A k \in EntryIds : IsHead(t, k) /\ k # n => u[k] = t[k]
  <2> SUFFICES ASSUME NEW k \in EntryIds, IsHead(t, k), k # n PROVE u[k] = t[k]
    OBVIOUS
  <2>1. t[n].next \in EntryIds /\ (t[n].next # 0 => IsChain(t, t[n].next))
    BY TableIs, Kinds
  <2>2. k # t[n].next \/ k = 0
    BY <2>1, Kinds
  <2> QED BY <2>2 DEF Rewritten
<1> QED BY <1>1 DEF Keeps, Rewritten

(* The chained entry is there, and nothing else has changed.               *)
LEMMA ReadiedSound ==
  ASSUME NEW t, Table(t), NEW n \in EntryIds, IsFile(t, n), ~NoRoom(t, n)
  PROVE  LET v == Readied(t, n)
         IN  /\ Table(v) /\ Keeps(t, v, n) /\ IsFile(v, n) /\ v[n].size = t[n].size /\ v[n].ref = t[n].ref
<1> DEFINE v == Readied(t, n)
           f == FreeIn(t)
<1>1. CASE t[n].next # 0
  <2>1. v = t
    BY <1>1 DEF Readied
  <2> HIDE DEF v
  <2> QED BY <2>1, KeepsAll DEF v
<1>2. CASE t[n].next = 0
  <2>1. v = Linked(t, n, f)
    BY <1>2 DEF Readied
  <2>2. f \in EntryIds /\ t[f].kind = "free"
    BY <1>2, FreeInIs DEF NoRoom
  <2> HIDE DEF v, f
  <2>3. Table(v)
    BY <1>2, <2>1, <2>2, LinkSound
  <2>4. t \in Tables /\ f # n /\ t[n] \in EntrySet
    BY <2>2, TableIs DEF IsFile
  <2>5. /\ v[f] = ChainedEntry(t[n], n)
        /\ v[n].kind = t[n].kind /\ v[n].name = t[n].name /\ v[n].size = t[n].size
        /\ v[n].parent = t[n].parent /\ v[n].ref = t[n].ref
        /\ \A k \in EntryIds : k # n /\ k # f => v[k] = t[k]
    BY <2>1, <2>2, <2>4, LinkedIs
  <2>6. v[f].parent = n
    BY <2>4, <2>5, ChainedIs
  <2>7. \A k \in EntryIds : IsHead(t, k) => k # f
    BY <2>2, Kinds
  <2>8. Keeps(t, v, n)
    BY <2>2, <2>5, <2>6, <2>7 DEF Keeps
  <2>9. IsFile(v, n)
    BY <2>8, KeepsKinds
  <2> QED BY <2>3, <2>5, <2>8, <2>9 DEF v
<1> QED BY <1>1, <1>2

(* Owned, for a table whose files other than n are those of t.             *)
LEMMA RewriteOwned ==
  ASSUME NEW t, Table(t), NEW n \in EntryIds, IsFile(t, n), NEW u, Rewritten(t, u, n),
         \A i \in RefIds : i < u[n].size => u[n].ref[i] \in DataBlocks,
         \A i, j \in RefIds : i < u[n].size /\ j < u[n].size /\ u[n].ref[i] = u[n].ref[j] => i = j,
         \A k \in EntryIds, i, j \in RefIds : IsFile(t, k) /\ k # n /\ i < t[k].size /\ j < u[n].size
                                              => t[k].ref[i] # u[n].ref[j]
  PROVE  Owned(u)
<1>1. \A k \in EntryIds : IsFile(u, k) => IsFile(t, k)
  BY TableIs DEF Rewritten, IsFile, IsDir
<1>2. \A k \in EntryIds : IsFile(u, k) /\ k # n => u[k] = t[k]
  BY <1>1, RewriteKeeps DEF Keeps, IsHead
<1>3. /\ \A k \in EntryIds, i \in RefIds : IsFile(t, k) /\ i < t[k].size => t[k].ref[i] \in DataBlocks
      /\ \A m, k \in EntryIds, i, j \in RefIds :
           /\ IsFile(t, m) /\ i < t[m].size /\ IsFile(t, k) /\ j < t[k].size
           /\ t[m].ref[i] = t[k].ref[j]
           => m = k /\ i = j
  BY DEF Table, Owned
<1>4. \A k \in EntryIds, i \in RefIds : IsFile(u, k) /\ i < u[k].size => u[k].ref[i] \in DataBlocks
  <2> SUFFICES ASSUME NEW k \in EntryIds, NEW i \in RefIds, IsFile(u, k), i < u[k].size
               PROVE  u[k].ref[i] \in DataBlocks
    OBVIOUS
  <2>1. CASE k = n
    BY <2>1
  <2>2. CASE k # n
    BY <1>1, <1>2, <1>3, <2>2
  <2> QED BY <2>1, <2>2
<1>5. \A m, k \in EntryIds, i, j \in RefIds :
        /\ IsFile(u, m) /\ i < u[m].size /\ IsFile(u, k) /\ j < u[k].size
        /\ u[m].ref[i] = u[k].ref[j]
        => m = k /\ i = j
  <2> SUFFICES ASSUME NEW m \in EntryIds, NEW k \in EntryIds, NEW i \in RefIds, NEW j \in RefIds,
                      IsFile(u, m), i < u[m].size, IsFile(u, k), j < u[k].size, u[m].ref[i] = u[k].ref[j]
               PROVE  m = k /\ i = j
    OBVIOUS
  <2>1. CASE m = n /\ k = n
    BY <2>1
  <2>2. CASE m # n /\ k = n
    BY <1>1, <1>2, <2>2
  <2>3. CASE m = n /\ k # n
    BY <1>1, <1>2, <2>3
  <2>4. CASE m # n /\ k # n
    BY <1>1, <1>2, <1>3, <2>4
  <2> QED BY <2>1, <2>2, <2>3, <2>4
<1> QED BY <1>4, <1>5 DEF Owned

LEMMA SizedRewrites ==
  ASSUME NEW t, Table(t), NEW n \in EntryIds, IsFile(t, n), NEW to \in 0 .. ENTRYREFS
  PROVE  LET u == Sized(t, n, to)
         IN  Rewritten(t, u, n) /\ u[n].size = to /\ u[n].ref = t[n].ref
<1> DEFINE u == Sized(t, n, to)
<1>1. t \in Tables /\ t[n].next # n /\ to \in 0 .. WORD - 1
  BY TableIs, Kinds, WordAssumption, RefsAssumption
<1> HIDE DEF u
<1>2. /\ u \in Tables
      /\ u[n].size = to /\ u[n].ref = t[n].ref
      /\ \A k \in EntryIds : /\ u[k].kind = t[k].kind /\ u[k].name = t[k].name
                             /\ u[k].next = t[k].next /\ u[k].parent = t[k].parent
                             /\ k # n => u[k].ref = t[k].ref
                             /\ k # n /\ k # t[n].next => u[k] = t[k]
                             /\ k # n /\ t[n].next = 0 => u[k] = t[k]
  BY <1>1, SizedIs DEF u
<1>3. \A k \in EntryIds : k # n /\ (k # t[n].next \/ k = 0) => u[k] = t[k]
  BY <1>2
<1>4. Rewritten(t, u, n)
  BY <1>2, <1>3 DEF Rewritten
<1> QED BY <1>2, <1>4 DEF u

(* A file cut down to fewer blocks.                                        *)
LEMMA CutSound ==
  ASSUME NEW t, Table(t), NEW n \in EntryIds, IsFile(t, n), ~NoRoom(t, n), NEW to \in 1 .. ENTRYREFS,
         to <= t[n].size
  PROVE  LET u == Sized(Readied(t, n), n, to)
         IN  Table(u) /\ Keeps(t, u, n) /\ u[n].size = to
<1> DEFINE v == Readied(t, n)
           u == Sized(v, n, to)
<1>1. Table(v) /\ Keeps(t, v, n) /\ IsFile(v, n) /\ v[n].size = t[n].size
  BY ReadiedSound
<1>2. to \in 0 .. ENTRYREFS
  BY RefsAssumption
<1> HIDE DEF v
<1>3. Rewritten(v, u, n) /\ u[n].size = to /\ u[n].ref = v[n].ref
  BY <1>1, <1>2, SizedRewrites
<1> HIDE DEF u
<1>4. v[n].size \in Nat /\ to \in Nat
  BY <1>1, <1>2, TableIs
<1>5. \A i \in RefIds : i < to => i < v[n].size
  BY <1>1, <1>4, IdsAre
<1>6. /\ \A k \in EntryIds, i \in RefIds : IsFile(v, k) /\ i < v[k].size => v[k].ref[i] \in DataBlocks
      /\ \A m, k \in EntryIds, i, j \in RefIds :
           /\ IsFile(v, m) /\ i < v[m].size /\ IsFile(v, k) /\ j < v[k].size
           /\ v[m].ref[i] = v[k].ref[j]
           => m = k /\ i = j
  BY <1>1 DEF Table, Owned
<1>7. /\ \A i \in RefIds : i < u[n].size => u[n].ref[i] \in DataBlocks
      /\ \A i, j \in RefIds : i < u[n].size /\ j < u[n].size /\ u[n].ref[i] = u[n].ref[j] => i = j
      /\ \A k \in EntryIds, i, j \in RefIds : IsFile(v, k) /\ k # n /\ i < v[k].size /\ j < u[n].size
                                              => v[k].ref[i] # u[n].ref[j]
  BY <1>1, <1>3, <1>5, <1>6
<1>8. Owned(u)
  BY <1>1, <1>3, <1>7, RewriteOwned
<1>9. \A i \in RefIds : u[n].ref[i] \in {0} \cup DataBlocks
  BY <1>1, <1>3 DEF Table, FilesSound, IsFile
<1>10. Table(u)
  BY <1>1, <1>2, <1>3, <1>8, <1>9, RewriteSound
<1>11. Keeps(t, u, n)
  BY <1>1, <1>3, RewriteKeeps, KeepsOn
<1> QED BY <1>3, <1>10, <1>11 DEF u, v

(* A file one block longer: the block is nobody else's.                    *)
LEMMA GrownSound ==
  ASSUME NEW t, Table(t), NEW n \in EntryIds, IsFile(t, n), ~NoRoom(t, n), NEW to \in 1 .. ENTRYREFS,
         to = t[n].size + 1, ~IsError(BlockIn(Sized(Readied(t, n), n, to)))
  PROVE  LET u == Grown(t, n, t[n].size, to)
         IN  Table(u) /\ Keeps(t, u, n) /\ u[n].size = to
<1> DEFINE v == Readied(t, n)
           w == Sized(v, n, to)
           b == BlockIn(w)
           from == t[n].size
           h == Filled(w[n], from, to, b)
           u == Grown(t, n, from, to)
<1>1. Table(v) /\ Keeps(t, v, n) /\ IsFile(v, n) /\ v[n].size = t[n].size
  BY ReadiedSound
<1>2. to \in 0 .. ENTRYREFS /\ from \in Nat /\ from \in RefIds /\ to = from + 1
  BY RefsAssumption, TableIs DEF RefIds
<1>3. u = Put(w, n, h)
  BY DEF Grown
<1>4. b \in DataBlocks /\ \A k \in EntryIds : b \notin CountedBlocks(w[k])
  BY BlockInIs
<1> HIDE DEF v
<1>5. Rewritten(v, w, n) /\ w[n].size = to /\ w[n].ref = v[n].ref
  BY <1>1, <1>2, SizedRewrites
<1> HIDE DEF w, b, u
<1>6. w \in Tables /\ w[n] \in EntrySet
  BY <1>5 DEF Rewritten, Tables
<1>7. /\ h \in EntrySet /\ h.kind = w[n].kind /\ h.name = w[n].name /\ h.next = w[n].next
      /\ h.parent = w[n].parent /\ h.size = w[n].size
      /\ \A i \in RefIds : h.ref[i] = IF i \in from .. to - 1 THEN b ELSE w[n].ref[i]
  BY <1>4, <1>6, FilledIs
<1> HIDE DEF h
<1>8. u \in Tables /\ u[n] = h /\ \A k \in EntryIds : k # n => u[k] = w[k]
  BY <1>3, <1>6, <1>7, PutIs
<1>9. Rewritten(v, u, n) /\ u[n].size = to
  BY <1>5, <1>7, <1>8 DEF Rewritten
<1> HIDE DEF from
<1>10. \A i \in RefIds : i # from => u[n].ref[i] = v[n].ref[i]
  <2>1. \A i \in RefIds : i # from => i \notin from .. to - 1
    BY <1>2, IdsAre
  <2> QED BY <1>5, <1>7, <1>8, <2>1
<1>11. u[n].ref[from] = b
  <2>1. from \in from .. to - 1
    BY <1>2
  <2> QED BY <1>2, <1>7, <1>8, <2>1
<1>12. \A i \in RefIds : i < to => i = from \/ (i < v[n].size /\ i # from)
  BY <1>1, <1>2, IdsAre DEF from
(* The block is in no file.                                                *)
<1>13. \A k \in EntryIds, i \in RefIds : IsFile(v, k) /\ i < v[k].size => v[k].ref[i] # b
  <2> SUFFICES ASSUME NEW k \in EntryIds, NEW i \in RefIds, IsFile(v, k), i < v[k].size
               PROVE  v[k].ref[i] # b
    OBVIOUS
  <2>1. w[k].kind = "file" /\ w[k].ref = v[k].ref
    BY <1>5 DEF Rewritten, IsFile
  <2>2. i < w[k].size
    <3>1. CASE k = n
      BY <1>1, <1>2, <1>5, <3>1, IdsAre DEF from
    <3>2. CASE k # n
      <4>1. w[k] = v[k]
        BY <1>1, <1>5, <3>2, RewriteKeeps DEF Keeps, IsHead
      <4> QED BY <4>1
    <3> QED BY <3>1, <3>2
  <2>3. w[k].size \in Nat
    BY <1>6, EntryIs DEF Tables
  <2>4. i \in 0 .. Lower(w[k].size, ENTRYREFS) - 1
    BY <2>2, <2>3, RefsAssumption DEF Lower, RefIds
  <2>5. w[k].ref[i] \in CountedBlocks(w[k])
    BY <2>1, <2>4 DEF CountedBlocks
  <2> QED BY <1>4, <2>1, <2>5
<1>14. /\ \A k \in EntryIds, i \in RefIds : IsFile(v, k) /\ i < v[k].size => v[k].ref[i] \in DataBlocks
       /\ \A m, k \in EntryIds, i, j \in RefIds :
            /\ IsFile(v, m) /\ i < v[m].size /\ IsFile(v, k) /\ j < v[k].size
            /\ v[m].ref[i] = v[k].ref[j]
            => m = k /\ i = j
  BY <1>1 DEF Table, Owned
<1>15. \A i \in RefIds : i < u[n].size => u[n].ref[i] \in DataBlocks
  BY <1>1, <1>4, <1>9, <1>10, <1>11, <1>12, <1>14
<1>16. \A i, j \in RefIds : i < u[n].size /\ j < u[n].size /\ u[n].ref[i] = u[n].ref[j] => i = j
  <2> SUFFICES ASSUME NEW i \in RefIds, NEW j \in RefIds, i < to, j < to, u[n].ref[i] = u[n].ref[j]
               PROVE  i = j
    BY <1>9
  <2>1. CASE i = from /\ j = from
    BY <2>1
  <2>2. CASE i = from /\ j # from
    BY <1>1, <1>10, <1>11, <1>12, <1>13, <2>2
  <2>3. CASE i # from /\ j = from
    BY <1>1, <1>10, <1>11, <1>12, <1>13, <2>3
  <2>4. CASE i # from /\ j # from
    <3>1. i < v[n].size /\ j < v[n].size /\ u[n].ref[i] = v[n].ref[i] /\ u[n].ref[j] = v[n].ref[j]
      BY <1>10, <1>12, <2>4
    <3> QED BY <1>1, <1>14, <3>1
  <2> QED BY <2>1, <2>2, <2>3, <2>4
<1>17. \A k \in EntryIds, i, j \in RefIds : IsFile(v, k) /\ k # n /\ i < v[k].size /\ j < u[n].size
                                            => v[k].ref[i] # u[n].ref[j]
  <2> SUFFICES ASSUME NEW k \in EntryIds, NEW i \in RefIds, NEW j \in RefIds, IsFile(v, k), k # n,
                      i < v[k].size, j < to
               PROVE  v[k].ref[i] # u[n].ref[j]
    BY <1>9
  <2>1. CASE j = from
    BY <1>11, <1>13, <2>1
  <2>2. CASE j # from
    <3>1. j < v[n].size /\ u[n].ref[j] = v[n].ref[j]
      BY <1>10, <1>12, <2>2
    <3> QED BY <1>1, <1>14, <3>1
  <2> QED BY <2>1, <2>2
<1>18. Owned(u)
  BY <1>1, <1>9, <1>15, <1>16, <1>17, RewriteOwned
<1>19. \A i \in RefIds : u[n].ref[i] \in {0} \cup DataBlocks
  <2>1. \A i \in RefIds : v[n].ref[i] \in {0} \cup DataBlocks
    BY <1>1 DEF Table, FilesSound, IsFile
  <2> QED BY <1>4, <1>10, <1>11, <2>1
<1>20. Table(u)
  BY <1>1, <1>2, <1>9, <1>18, <1>19, RewriteSound
<1>21. Keeps(t, u, n)
  BY <1>1, <1>9, RewriteKeeps, KeepsOn
<1> QED BY <1>9, <1>20, <1>21 DEF u, from

-----------------------------------------------------------------------------
(* Names and paths in a sound table.                                       *)
LEMMA LookupIs ==
  ASSUME NEW t, NEW p, NEW name, NEW r, r = LookupIn(t, p, name)
  PROVE  /\ r = NOT_FOUND \/ (r \in EntryIds /\ t[r].parent = p /\ t[r].name = name /\ t[r].kind # "free")
         /\ r = NOT_FOUND => \A n \in EntryIds : ~(t[n].parent = p /\ t[n].name = name /\ t[n].kind # "free")
         /\ IsError(r) <=> r = NOT_FOUND
<1> DEFINE found == {n \in EntryIds : /\ t[n].parent = p
                                      /\ t[n].name = name
                                      /\ t[n].kind # "free"}
<1>1. found \in SUBSET Nat
  BY IdsAre
<1>2. r = IF found = {} THEN NOT_FOUND ELSE Min(found)
  BY DEF LookupIn
<1>3. IsError(NOT_FOUND)
  BY DEF IsError, NOT_FOUND
<1>4. CASE found = {}
  BY <1>2, <1>3, <1>4
<1>5. CASE found # {}
  <2>1. r = Min(found)
    BY <1>2, <1>5
  <2>2. Min(found) \in found
    <3> HIDE DEF found
    <3> QED BY <1>1, <1>5, MinIsLeast
  <2>3. r \in EntryIds /\ t[r].parent = p /\ t[r].name = name /\ t[r].kind # "free"
    BY <2>1, <2>2
  <2> HIDE DEF found
  <2> QED BY <1>3, <2>3, IdsAre
<1> QED BY <1>4, <1>5

(* The first match does not change when the matches do not.                *)
LEMMA LookupSame ==
  ASSUME NEW t, NEW u, NEW p, NEW name,
         \A k \in EntryIds : (t[k].parent = p /\ t[k].name = name /\ t[k].kind # "free") <=>
                             (u[k].parent = p /\ u[k].name = name /\ u[k].kind # "free")
  PROVE  LookupIn(u, p, name) = LookupIn(t, p, name)
<1>1. {k \in EntryIds : u[k].parent = p /\ u[k].name = name /\ u[k].kind # "free"} =
      {k \in EntryIds : t[k].parent = p /\ t[k].name = name /\ t[k].kind # "free"}
  OBVIOUS
<1> QED BY <1>1, Zenon DEF LookupIn

(* Names that are none of a file lead from directory to directory.         *)
LEMMA TrailDirs ==
  ASSUME NEW t, Table(t), NEW comps, NEW len \in Nat, \A k \in 1 .. len : comps[k] \notin FileNames,
         NEW g, Trail(g, t, 0, comps, len)
  PROVE  \A k \in 0 .. len : g[k] = NOT_FOUND \/ (g[k] \in EntryIds /\ IsDir(t, g[k]))
<1> DEFINE Wrong == {k \in 0 .. len : ~(g[k] = NOT_FOUND \/ (g[k] \in EntryIds /\ IsDir(t, g[k])))}
<1> SUFFICES ASSUME Wrong # {} PROVE FALSE
  OBVIOUS
<1>1. PICK k \in Wrong : \A y \in Wrong : k <= y
  <2>1. Wrong \in SUBSET Nat
    OBVIOUS
  <2> HIDE DEF Wrong
  <2> QED BY <2>1, MinIsLeast
<1>2. \A i \in 0 .. len : g[i] = IF i = 0 THEN 0 ELSE Onward(t, g[i - 1], comps[i])
  BY DEF Trail
<1>3. k \in 0 .. len /\ ~(g[k] = NOT_FOUND \/ (g[k] \in EntryIds /\ IsDir(t, g[k])))
  OBVIOUS
<1>4. k # 0
  BY <1>2, <1>3, Kinds, IdsAre
<1>5. k - 1 \in 0 .. len /\ k - 1 \notin Wrong /\ k \in 1 .. len
  BY <1>1, <1>3, <1>4
<1>6. g[k - 1] = NOT_FOUND \/ (g[k - 1] \in EntryIds /\ IsDir(t, g[k - 1]))
  BY <1>5
<1>7. g[k] = Onward(t, g[k - 1], comps[k])
  BY <1>2, <1>3, <1>4
<1> HIDE DEF Wrong
<1>8. CASE g[k - 1] = NOT_FOUND
  <2>1. g[k] = NOT_FOUND
    BY <1>7, <1>8 DEF Onward, IsError, NOT_FOUND
  <2> QED BY <1>3, <2>1
<1>9. CASE g[k - 1] \in EntryIds /\ IsDir(t, g[k - 1])
  <2> DEFINE r == LookupIn(t, g[k - 1], comps[k])
  <2>1. g[k] = r
    BY <1>7, <1>9, IdsAre DEF Onward
  <2> HIDE DEF r
  <2>2. r = NOT_FOUND \/ (r \in EntryIds /\ t[r].name = comps[k] /\ t[r].kind # "free")
    BY LookupIs DEF r
  <2>3. comps[k] \notin FileNames
    BY <1>5
  <2>4. r \in EntryIds /\ t[r].name = comps[k] /\ t[r].kind # "free" => IsDir(t, r)
    BY <2>3, Kinds, TableIs DEF IsDir
  <2> QED BY <1>3, <2>1, <2>2, <2>4
<1> QED BY <1>6, <1>8, <1>9

LEMMA WalkDirs ==
  ASSUME NEW t, Table(t), NEW comps, IsSeq(comps), \A k \in 1 .. Len(comps) : comps[k] \notin FileNames,
         NEW w, w = Walk(t, 0, comps)
  PROVE  w = NOT_FOUND \/ (w \in EntryIds /\ IsDir(t, w) /\ ~IsError(w))
<1>1. Len(comps) \in Nat
  BY SeqLen
<1>2. PICK g : Trail(g, t, 0, comps, Len(comps))
  BY <1>1, TrailExists
<1>3. \A k \in 0 .. Len(comps) : g[k] = NOT_FOUND \/ (g[k] \in EntryIds /\ IsDir(t, g[k]))
  BY <1>1, <1>2, TrailDirs
<1>4. w = g[Len(comps)]
  BY <1>2, WalkTrail
<1>5. g[Len(comps)] = NOT_FOUND \/ (g[Len(comps)] \in EntryIds /\ IsDir(t, g[Len(comps)]))
  BY <1>1, <1>3
<1> QED BY <1>4, <1>5, IdsAre

(* The paths programs use, and the directory they are in.                  *)
GoodPath(p) == IsPath(p) /\ \A k \in 1 .. Len(p.comps) - 1 : p.comps[k] \notin FileNames

LEMMA OrderlyPath ==
  ASSUME Orderly
  PROVE  /\ \A c \in WriteCalls : GoodPath(c.path) /\ NameOf(c.path) \in FileNames
         /\ \A p \in MkdirPaths : GoodPath(p) /\ NameOf(p) \in DirNames
<1>1. \A c \in WriteCalls : GoodPath(c.path) /\ NameOf(c.path) \in FileNames
  <2> SUFFICES ASSUME NEW c \in WriteCalls PROVE GoodPath(c.path) /\ NameOf(c.path) \in FileNames
    OBVIOUS
  <2>1. NameOf(c.path) \in FileNames
    BY DEF FileNames
  <2>2. \A k \in 1 .. Len(c.path.comps) - 1 : c.path.comps[k] \in Inner(c.path)
    BY DEF Inner
  <2>3. Inner(c.path) \subseteq DirNames
    <3> DEFINE R == {ROOT_DIR_NAME} \cup (UNION {Comps(p) : p \in MkdirPaths})
               T == {Inner(b.path) : b \in WriteCalls}
    <3>1. Inner(c.path) \in T
      OBVIOUS
    <3>2. DirNames = R \cup (UNION T)
      BY DEF DirNames
    <3> HIDE DEF R, T
    <3> QED BY <3>1, <3>2
  <2> QED BY <2>1, <2>2, <2>3 DEF Orderly, GoodPath
<1>2. \A p \in MkdirPaths : GoodPath(p) /\ NameOf(p) \in DirNames
  <2> SUFFICES ASSUME NEW p \in MkdirPaths PROVE GoodPath(p) /\ NameOf(p) \in DirNames
    OBVIOUS
  <2>1. IsPath(p) /\ Comps(p) \subseteq DirNames /\ DirNames \cap FileNames = {}
    BY DEF Orderly, DirNames
  <2>2. Len(p.comps) \in Nat /\ Len(p.comps) >= 1
    BY <2>1, FrontIs, SeqLen DEF IsPath
  <2>3. \A k \in 1 .. Len(p.comps) : p.comps[k] \in Comps(p)
    BY DEF Comps
  <2>4. \A k \in 1 .. Len(p.comps) - 1 : k \in 1 .. Len(p.comps)
    BY <2>2
  <2>5. NameOf(p) \in DirNames
    BY <2>1, <2>2, <2>3 DEF NameOf
  <2> QED BY <2>1, <2>3, <2>4, <2>5 DEF GoodPath
<1> QED BY <1>1, <1>2

LEMMA WithinIs ==
  ASSUME NEW t, Table(t), NEW p, GoodPath(p), NEW q, q = Within(t, p)
  PROVE  /\ q = NOT_FOUND \/ (q \in EntryIds /\ IsDir(t, q) /\ ~IsError(q))
         /\ Resolve(t, p) = IF IsError(q) THEN q ELSE LookupIn(t, q, NameOf(p))
<1>1. /\ IsSeq(Front(p.comps)) /\ Len(Front(p.comps)) = Len(p.comps) - 1
      /\ \A k \in 1 .. Len(p.comps) - 1 : Front(p.comps)[k] = p.comps[k]
  BY FrontIs DEF GoodPath, IsPath
<1>2. \A k \in 1 .. Len(Front(p.comps)) : Front(p.comps)[k] \notin FileNames
  BY <1>1 DEF GoodPath
<1>3. q = NOT_FOUND \/ (q \in EntryIds /\ IsDir(t, q) /\ ~IsError(q))
  BY <1>1, <1>2, WalkDirs DEF Within
<1>4. Resolve(t, p) = Walk(t, 0, p.comps)
  BY DEF Resolve, GoodPath, IsPath
<1>5. Walk(t, 0, p.comps) = Onward(t, q, p.comps[Len(p.comps)])
  BY WalkOneMore DEF GoodPath, IsPath, Within
<1> QED BY <1>3, <1>4, <1>5 DEF Onward, NameOf
-----------------------------------------------------------------------------
(* A write to a file that is there: its size and blocks are fitted, then   *)
(* the block is written.                                                   *)
Fit(s, d, m, to, truncate) ==
  LET size  == s.tab[d][m].size
      grown == IF size < to THEN Grow(s, d, m, size, to) ELSE Return(s, 0)
  IN  Then(grown, LAMBDA u : IF u.tab[d][m].size > to /\ truncate THEN Shrink(u, d, m, to) ELSE u)
Writing(s, d, m, off, v, truncate) ==
  Then(Fit(s, d, m, Wrap(off + 1), truncate),
       LAMBDA u : Return(write_block(u, d, u.tab[d][m].ref[off], v), 1))

(* What fitting leaves: a sound table with the size asked for, or the      *)
(* table as it was, or a disk without a free block.                        *)
Full(u) == u \in Tables /\ IsError(BlockIn(u))
Fits(t, u, q, m, to) ==
  \/ IsError(q) /\ Full(u)
  \/ Table(u) /\ Keeps(t, u, m) /\ (IsError(q) \/ to <= u[m].size)

LEMMA FitIs ==
  ASSUME Stores, ~Cuttable, NEW d \in Disks, NEW t, Table(t), NEW x, NEW r, NEW m \in EntryIds,
         IsFile(t, m), NEW to \in 1 .. ENTRYREFS, to <= t[m].size + 1, NEW truncate
  PROVE  \E u, q : Fit(On(d, t, x, r), d, m, to, truncate) = On(d, u, x, q) /\ Fits(t, u, q, m, to)
<1> DEFINE s == On(d, t, x, r)
           size == t[m].size
           grown == IF size < to THEN Grow(s, d, m, size, to) ELSE Return(s, 0)
           F(w) == IF w.tab[d][m].size > to /\ truncate THEN Shrink(w, d, m, to) ELSE w
<1>1. t \in Tables /\ size \in Nat /\ t[m].kind # "free" /\ ChainFits(t, m)
  BY TableIs, Kinds DEF IsFile
<1>2. s.tab[d] = t
  BY OnParts
<1>3. Fit(s, d, m, to, truncate) = Then(grown, F)
  <2> DEFINE G(z) == Then(IF z < to THEN Grow(s, d, m, z, to) ELSE Return(s, 0), F)
  <2>1. Fit(s, d, m, to, truncate) = G(s.tab[d][m].size)
    <3> HIDE DEF s
    <3> QED BY DEF Fit
  <2>2. G(s.tab[d][m].size) = G(size)
    <3> HIDE DEF G, s
    <3> QED BY <1>2
  <2> HIDE DEF s, F
  <2> QED BY <2>1, <2>2
<1>4. CASE size < to
  <2> DEFINE u == Sized(Readied(t, m), m, to)
             w == Grown(t, m, size, to)
  <2>1. grown = IF NoRoom(t, m) THEN On(d, t, x, FreeIn(t))
                ELSE IF IsError(BlockIn(u)) THEN On(d, u, x, BlockIn(u)) ELSE On(d, w, x, 0)
    BY <1>1, <1>4, GrowIs
  <2>2. CASE NoRoom(t, m)
    <3>1. IsError(FreeIn(t)) /\ On(d, t, x, FreeIn(t)).ret = FreeIn(t) /\ grown = On(d, t, x, FreeIn(t))
      BY <2>1, <2>2, OnParts DEF NoRoom
    <3>2. Fits(t, t, FreeIn(t), m, to)
      BY <3>1, KeepsAll DEF Fits
    <3> HIDE DEF grown, F, s
    <3>3. Fit(s, d, m, to, truncate) = On(d, t, x, FreeIn(t))
      BY <1>3, <3>1 DEF Then
    <3> QED BY <3>2, <3>3 DEF s
  <2>3. CASE ~NoRoom(t, m) /\ IsError(BlockIn(u))
    <3>0. u \in Tables
      <4> DEFINE v == Readied(t, m)
      <4>1. v \in Tables /\ v[m].next # m
        BY <1>1, <2>3, ReadiedIs
      <4>2. to \in 0 .. WORD - 1
        BY RefsAssumption, WordAssumption
      <4> HIDE DEF v
      <4>3. Sized(v, m, to) \in Tables
        BY <4>1, <4>2, SizedIs
      <4> QED BY <4>3 DEF v
    <3> HIDE DEF u
    <3>1. On(d, u, x, BlockIn(u)).ret = BlockIn(u) /\ grown = On(d, u, x, BlockIn(u))
      BY <2>1, <2>3, OnParts
    <3>2. Fits(t, u, BlockIn(u), m, to)
      BY <2>3, <3>0 DEF Fits, Full
    <3> HIDE DEF grown, F, s
    <3>3. Fit(s, d, m, to, truncate) = On(d, u, x, BlockIn(u))
      BY <1>3, <2>3, <3>1 DEF Then
    <3> QED BY <3>2, <3>3 DEF s
  <2>4. CASE ~NoRoom(t, m) /\ ~IsError(BlockIn(u))
    <3>1. to = size + 1
      BY <1>1, <1>4
    <3>2. Table(w) /\ Keeps(t, w, m) /\ w[m].size = to
      BY <2>4, <3>1, GrownSound
    <3> HIDE DEF w
    <3>3. /\ On(d, w, x, 0).ret = 0 /\ On(d, w, x, 0).tab[d] = w /\ ~IsError(0)
          /\ grown = On(d, w, x, 0)
      BY <2>1, <2>4, OnParts DEF IsError
    <3>4. Fits(t, w, 0, m, to)
      BY <3>2 DEF Fits
    <3>5. F(On(d, w, x, 0)) = On(d, w, x, 0)
      <4> DEFINE z == On(d, w, x, 0)
      <4>1. z.tab[d][m].size = to
        BY <3>2, <3>3
      <4> HIDE DEF z
      <4>2. ~(z.tab[d][m].size > to)
        BY <4>1
      <4> QED BY <4>2 DEF z
    <3> HIDE DEF grown, F, s
    <3>6. Fit(s, d, m, to, truncate) = On(d, w, x, 0)
      BY <1>3, <3>3, <3>5 DEF Then
    <3> QED BY <3>4, <3>6 DEF s
  <2> QED BY <2>2, <2>3, <2>4
<1>5. CASE ~(size < to)
  <2> DEFINE z == On(d, t, x, 0)
             u == Sized(Readied(t, m), m, to)
  <2>1. grown = z /\ z.ret = 0 /\ z.tab[d] = t /\ ~IsError(0)
    BY <1>5, OnReturn, OnParts DEF IsError
  <2>2. to <= size
    BY <1>1, <1>5
  <2>3. Fit(s, d, m, to, truncate) = F(z)
    <3> HIDE DEF grown, F, s, z
    <3> QED BY <1>3, <2>1 DEF Then
  <2>4. CASE ~(size > to /\ truncate)
    <3>1. F(z) = z
      <4> HIDE DEF z
      <4> QED BY <2>1, <2>4
    <3>2. Fits(t, t, 0, m, to)
      BY <2>2, KeepsAll DEF Fits
    <3> HIDE DEF F, s
    <3> QED BY <2>3, <3>1, <3>2 DEF s
  <2>5. CASE size > to /\ truncate
    <3>1. F(z) = Shrink(z, d, m, to)
      <4> HIDE DEF z
      <4> QED BY <2>1, <2>5
    <3>2. Shrink(z, d, m, to) = IF NoRoom(t, m) THEN On(d, t, x, FreeIn(t)) ELSE On(d, u, x, 0)
      BY <1>1, ShrinkIs
    <3>3. CASE NoRoom(t, m)
      <4>1. Fits(t, t, FreeIn(t), m, to)
        BY <3>3, KeepsAll DEF Fits, NoRoom
      <4> HIDE DEF F, s, z
      <4> QED BY <2>3, <3>1, <3>2, <3>3, <4>1 DEF s
    <3>4. CASE ~NoRoom(t, m)
      <4>1. Table(u) /\ Keeps(t, u, m) /\ u[m].size = to
        BY <3>4, <2>2, CutSound
      <4> HIDE DEF u
      <4>2. Fits(t, u, 0, m, to)
        BY <4>1 DEF Fits
      <4> HIDE DEF F, s, z
      <4> QED BY <2>3, <3>1, <3>2, <3>4, <4>2 DEF s
    <3> QED BY <3>3, <3>4
  <2> QED BY <2>4, <2>5
<1> QED BY <1>4, <1>5

(* The blocks after the write.                                             *)
Wrote(x, y, u, q, m, off, v) == IF IsError(q) THEN y = x ELSE y = Put(x, u[m].ref[off], v)

LEMMA WritingIs ==
  ASSUME Stores, ~Cuttable, NEW d \in Disks, NEW t, Table(t), NEW x, NEW r, NEW m \in EntryIds,
         IsFile(t, m), NEW off \in RefIds, off <= t[m].size, NEW v, NEW truncate
  PROVE  \E u, y, q, p : /\ Writing(On(d, t, x, r), d, m, off, v, truncate) = On(d, u, y, p)
                         /\ Fits(t, u, q, m, off + 1) /\ Wrote(x, y, u, q, m, off, v)
<1> DEFINE to == off + 1
           s == On(d, t, x, r)
           F(w) == Return(write_block(w, d, w.tab[d][m].ref[off], v), 1)
<1>1. to \in 1 .. ENTRYREFS /\ Wrap(off + 1) = to
  BY WrapIs, RefsAssumption, WordAssumption DEF RefIds
<1>2. to <= t[m].size + 1
  BY TableIs, RefsAssumption DEF RefIds
<1>3. PICK u, q : Fit(s, d, m, to, truncate) = On(d, u, x, q) /\ Fits(t, u, q, m, to)
  BY <1>1, <1>2, FitIs
<1>4. Writing(s, d, m, off, v, truncate) = Then(On(d, u, x, q), F)
  <2> DEFINE G(z) == Then(z, F)
  <2>1. Writing(s, d, m, off, v, truncate) = G(Fit(s, d, m, to, truncate))
    <3> HIDE DEF s
    <3> QED BY <1>1 DEF Writing
  <2> HIDE DEF G, s
  <2>2. G(Fit(s, d, m, to, truncate)) = G(On(d, u, x, q))
    BY <1>3
  <2> QED BY <2>1, <2>2 DEF G
<1> DEFINE w == On(d, u, x, q)
<1>5. w.ret = q /\ w.tab[d] = u
  BY OnParts
<1>6. CASE IsError(q)
  <2>1. Writing(s, d, m, off, v, truncate) = On(d, u, x, q)
    <3> HIDE DEF w, s, F
    <3> QED BY <1>4, <1>5, <1>6 DEF Then, w
  <2>2. Wrote(x, x, u, q, m, off, v)
    BY <1>6 DEF Wrote
  <2> QED BY <1>3, <2>1, <2>2
<1>7. CASE ~IsError(q)
  <2> DEFINE y == Put(x, u[m].ref[off], v)
  <2>1. write_block(w, d, u[m].ref[off], v) = On(d, u, y, 0)
    BY OnWriteBlock
  <2>2. Return(On(d, u, y, 0), 1) = On(d, u, y, 1)
    BY OnReturn
  <2>3. F(w) = On(d, u, y, 1)
    <3> HIDE DEF w, y
    <3> QED BY <1>5, <2>1, <2>2
  <2>4. Writing(s, d, m, off, v, truncate) = On(d, u, y, 1)
    <3> HIDE DEF w, s, F, y
    <3> QED BY <1>4, <1>5, <1>7, <2>3 DEF Then, w
  <2>5. Wrote(x, y, u, q, m, off, v)
    BY <1>7 DEF Wrote
  <2> QED BY <1>3, <2>4, <2>5
<1> QED BY <1>6, <1>7
-----------------------------------------------------------------------------
(* The disk mkfs writes is sound.                                          *)
FirstRef(r) == [NoRefs EXCEPT ![0] = r]
FirstEntry(kind, name, r) == [FreeEntry EXCEPT !.kind = kind, !.name = name, !.size = 1, !.ref[0] = r]

LEMMA FirstEntryIs ==
  ASSUME NEW kind \in {"file", "dir"}, NEW name \in DirNames \cup FileNames, NEW r \in EntryIds \cup DataBlocks
  PROVE  LET e == FirstEntry(kind, name, r)
         IN  /\ e \in EntrySet /\ e.kind = kind /\ e.name = name /\ e.size = 1 /\ e.parent = 0 /\ e.next = 0
             /\ e.ref = FirstRef(r)
<1> DEFINE z == FreeEntry
           a == [z EXCEPT !.kind = kind]
           b == [a EXCEPT !.name = name]
           c == [b EXCEPT !.size = 1]
           e == [c EXCEPT !.ref[0] = r]
           none == ""
           refs == NoRefs
<1>1. z = [kind |-> "free", name |-> none, size |-> 0, parent |-> 0, next |-> 0, ref |-> refs]
  BY DEF FreeEntry
<1>2. FirstEntry(kind, name, r) = e
  BY DEF FirstEntry
<1> HIDE DEF z, a, none, refs
<1>3. a = [kind |-> kind, name |-> none, size |-> 0, parent |-> 0, next |-> 0, ref |-> refs]
  BY <1>1 DEF a
<1> HIDE DEF b
<1>4. b = [kind |-> kind, name |-> name, size |-> 0, parent |-> 0, next |-> 0, ref |-> refs]
  BY <1>3 DEF b
<1> HIDE DEF c
<1>5. c = [kind |-> kind, name |-> name, size |-> 1, parent |-> 0, next |-> 0, ref |-> refs]
  BY <1>4 DEF c
<1> DEFINE q == [refs EXCEPT ![0] = r]
<1>6. e = [kind |-> kind, name |-> name, size |-> 1, parent |-> 0, next |-> 0, ref |-> q]
  BY <1>5
<1>7. q \in [RefIds -> EntryIds \cup DataBlocks] /\ 1 \in 0 .. WORD - 1 /\ 0 \in EntryIds
  BY IdsAre, WordAssumption, RefsAssumption DEF refs
<1> HIDE DEF e, q
<1>8. e \in EntrySet
  BY <1>6, <1>7 DEF EntrySet
<1>9. e.kind = kind /\ e.name = name /\ e.size = 1 /\ e.parent = 0 /\ e.next = 0 /\ e.ref = q
  BY <1>6
<1> QED BY <1>2, <1>8, <1>9 DEF q, refs, FirstRef

LEMMA FreshIs ==
  LET t == FreshTable
  IN  /\ t[0].kind = "dir" /\ t[0].name = ROOT_DIR_NAME /\ t[0].size = 1 /\ t[0].parent = 0
      /\ t[0].next = 0 /\ t[0].ref = FirstRef(KernelEntry) /\ t[0] \in EntrySet
      /\ t[KernelEntry].kind = "file" /\ t[KernelEntry].name = KernelName /\ t[KernelEntry].size = 1
      /\ t[KernelEntry].parent = 0 /\ t[KernelEntry].next = 0
      /\ t[KernelEntry].ref = FirstRef(FirstData) /\ t[KernelEntry] \in EntrySet
      /\ \A k \in EntryIds \ {0, KernelEntry} : t[k] = FreeEntry
      /\ FreeEntry \in EntrySet /\ FreeEntry.kind = "free" /\ FreeEntry.ref = NoRefs
      /\ t = [k \in EntryIds |-> t[k]]
<1> DEFINE t == FreshTable
           A == FirstEntry("dir", ROOT_DIR_NAME, KernelEntry)
           B == FirstEntry("file", KernelName, FirstData)
           C == FreeEntry
<1>1. t = [n \in EntryIds |-> CASE n = 0 -> A [] n = KernelEntry -> B [] OTHER -> C]
  BY DEF FreshTable, FirstEntry
<1> DEFINE dot == ROOT_DIR_NAME
           name == KernelName
           none == ""
<1>2. dot \in DirNames /\ name \in FileNames /\ none \in {""}
  BY DEF DirNames, FileNames
<1>3. C = [kind |-> "free", name |-> none, size |-> 0, parent |-> 0, next |-> 0, ref |-> NoRefs]
  BY DEF FreeEntry
<1>4. 0 \in 0 .. WORD - 1
  BY WordAssumption, RefsAssumption
<1>5. /\ A \in EntrySet /\ A.kind = "dir" /\ A.name = dot /\ A.size = 1 /\ A.parent = 0 /\ A.next = 0
      /\ A.ref = FirstRef(KernelEntry)
  <2> HIDE DEF dot
  <2> QED BY <1>2, IdsAre, FirstEntryIs DEF dot
<1>6. /\ B \in EntrySet /\ B.kind = "file" /\ B.name = name /\ B.size = 1 /\ B.parent = 0 /\ B.next = 0
      /\ B.ref = FirstRef(FirstData)
  <2> HIDE DEF name
  <2> QED BY <1>2, IdsAre, FirstEntryIs DEF name
<1> HIDE DEF t, A, B, C, dot, name, none
<1>7. t[0] = A /\ (\A k \in EntryIds \ {0, KernelEntry} : t[k] = C) /\ t = [k \in EntryIds |-> t[k]]
  BY <1>1, IdsAre
<1>8. t[KernelEntry] = B
  BY <1>1, IdsAre
<1>9. C \in EntrySet /\ C.kind = "free" /\ C.ref = NoRefs
  BY <1>2, <1>3, <1>4, IdsAre DEF EntrySet
<1> QED BY <1>5, <1>6, <1>7, <1>8, <1>9 DEF t, C, dot, name

LEMMA FreshTableSound ==
  Table(FreshTable)
<1> DEFINE t == FreshTable
           R0 == FirstRef(KernelEntry)
           R1 == FirstRef(FirstData)
           dot == ROOT_DIR_NAME
           name == KernelName
<1>1. /\ t[0].kind = "dir" /\ t[0].name = dot /\ t[0].size = 1 /\ t[0].parent = 0
      /\ t[0].next = 0 /\ t[0].ref = R0 /\ t[0] \in EntrySet
      /\ t[KernelEntry].kind = "file" /\ t[KernelEntry].name = name /\ t[KernelEntry].size = 1
      /\ t[KernelEntry].parent = 0 /\ t[KernelEntry].next = 0
      /\ t[KernelEntry].ref = R1 /\ t[KernelEntry] \in EntrySet
  BY FreshIs
<1>2. /\ t = [k \in EntryIds |-> t[k]]
      /\ \A k \in EntryIds : k # 0 /\ k # KernelEntry => t[k].kind = "free" /\ t[k].ref = NoRefs
      /\ \A k \in EntryIds : t[k] \in EntrySet
  <2>1. /\ t = [k \in EntryIds |-> t[k]]
        /\ \A k \in EntryIds : k # 0 /\ k # KernelEntry => t[k] = FreeEntry
        /\ FreeEntry \in EntrySet /\ FreeEntry.kind = "free" /\ FreeEntry.ref = NoRefs
    BY FreshIs
  <2> HIDE DEF t
  <2> QED BY <1>1, <2>1
<1>3. dot \in DirNames /\ name \in FileNames
  BY DEF DirNames, FileNames
<1>4. /\ \A i \in RefIds : R0[i] = IF i = 0 THEN KernelEntry ELSE 0
      /\ \A i \in RefIds : R1[i] = IF i = 0 THEN FirstData ELSE 0
  BY IdsAre DEF NoRefs, FirstRef
<1>5. \A i \in RefIds : i < 1 <=> i = 0
  BY DEF RefIds
<1>6. \A i \in RefIds : NoRefs[i] = 0
  BY IdsAre
<1> HIDE DEF t, R0, R1, dot, name
<1>7. RootThere(t)
  BY <1>1 DEF RootThere, IsDir, dot
<1>8. \A k \in EntryIds : /\ IsDir(t, k) <=> k = 0
                          /\ IsFile(t, k) <=> k = KernelEntry
                          /\ IsHead(t, k) <=> k = 0 \/ k = KernelEntry
                          /\ ~IsChain(t, k)
                          /\ t[k].kind = "file" <=> k = KernelEntry
  BY <1>1, <1>2, IdsAre DEF IsDir, IsFile, IsHead, IsChain
<1>9. DirsSound(t)
  BY <1>1, <1>3, <1>4, <1>8, IdsAre, RefsAssumption DEF DirsSound
<1>10. FilesSound(t)
  BY <1>1, <1>3, <1>4, <1>8, IdsAre, RefsAssumption DEF FilesSound
<1>11. FreeSound(t)
  BY <1>1, <1>2, <1>6, IdsAre DEF FreeSound
<1>12. Unique(t)
  <2>1. name # dot
    BY DEF name, dot, KernelName, ROOT_DIR_NAME
  <2> QED BY <1>1, <1>8, <2>1 DEF Unique
<1>13. Lists(t)
  <2> SUFFICES ASSUME NEW p \in EntryIds, p = 0
               PROVE  /\ \A i \in RefIds : i < t[p].size =>
                           t[p].ref[i] # 0 /\ IsHead(t, t[p].ref[i]) /\ t[t[p].ref[i]].parent = p
                      /\ \A n \in EntryIds \ {0} : IsHead(t, n) /\ t[n].parent = p =>
                           \E i \in RefIds : i < t[p].size /\ t[p].ref[i] = n
                      /\ \A i, j \in RefIds : i < t[p].size /\ j < t[p].size /\ t[p].ref[i] = t[p].ref[j] => i = j
                      /\ \A i \in RefIds : i >= t[p].size => t[p].ref[i] = 0
    BY <1>8 DEF Lists
  <2>1. \A i \in RefIds : i < t[p].size <=> i = 0
    BY <1>1, <1>5
  <2>2. \A i \in RefIds : i >= t[p].size <=> i # 0
    BY <1>1 DEF RefIds
  <2> QED BY <1>1, <1>4, <1>8, <2>1, <2>2, IdsAre
<1>14. Owned(t)
  <2>1. \A n \in EntryIds, i \in RefIds : IsFile(t, n) /\ i < t[n].size => n = KernelEntry /\ i = 0
    BY <1>1, <1>5, <1>8
  <2>2. t[KernelEntry].ref[0] \in DataBlocks
    BY <1>1, <1>4, IdsAre
  <2> QED BY <2>1, <2>2 DEF Owned
<1>15. t \in [EntryIds -> EntrySet]
  BY <1>2
<1> QED BY <1>7, <1>9, <1>10, <1>11, <1>12, <1>13, <1>14, <1>15 DEF Table, t

LEMMA FreshSound ==
  Sound(FreshTable, FreshData)
<1>1. Starts(FreshTable, FreshData)
  BY IdsAre DEF Starts, FreshData, Blocks, BootBlock
<1>2. FreshData \in [Blocks -> Vals \cup {Boot, Kernel, Blank}]
  BY DEF FreshData
<1> QED BY <1>1, <1>2, FreshTableSound DEF Sound
-----------------------------------------------------------------------------
(* What a call on the name in directory p leaves of a disk: entries in use *)
(* stay where they are, those that come are named so or chained to a file, *)
(* and files that are not named so keep their blocks.                      *)
Spares(t, x, u, y, p, name) ==
  /\ \A k \in EntryIds : t[k].kind # "free" =>
       u[k].kind = t[k].kind /\ u[k].name = t[k].name /\ u[k].parent = t[k].parent
  /\ \A k \in EntryIds : t[k].kind = "free" /\ u[k].kind # "free" =>
       (u[k].parent = p /\ u[k].name = name) \/ IsChain(u, k)
  /\ \A k \in EntryIds : IsFile(t, k) /\ ~(t[k].parent = p /\ t[k].name = name) =>
       u[k] = t[k] /\ \A i \in RefIds : i < t[k].size => y[t[k].ref[i]] = x[t[k].ref[i]]
  /\ y[BootBlock] = x[BootBlock]

LEMMA SparesAll ==
  ASSUME NEW t, NEW x, NEW p, NEW name
  PROVE  Spares(t, x, t, x, p, name)
BY DEF Spares

LEMMA SparesOn ==
  ASSUME NEW t, Table(t), NEW x, NEW u, NEW y, NEW w, NEW z, NEW p, NEW name,
         Table(u), Spares(t, x, u, y, p, name), Spares(u, y, w, z, p, name)
  PROVE  Spares(t, x, w, z, p, name)
<1>1. \A k \in EntryIds : t[k].parent \in EntryIds /\ u[k].parent \in EntryIds
  BY TableIs
<1>2. \A k \in EntryIds : t[k].kind # "free" =>
        w[k].kind = t[k].kind /\ w[k].name = t[k].name /\ w[k].parent = t[k].parent
  BY DEF Spares
<1>3. \A k \in EntryIds : t[k].kind = "free" /\ w[k].kind # "free" =>
        (w[k].parent = p /\ w[k].name = name) \/ IsChain(w, k)
  <2> SUFFICES ASSUME NEW k \in EntryIds, t[k].kind = "free", w[k].kind # "free"
               PROVE  (w[k].parent = p /\ w[k].name = name) \/ IsChain(w, k)
    OBVIOUS
  <2>1. CASE u[k].kind = "free"
    BY <2>1 DEF Spares
  <2>2. CASE u[k].kind # "free"
    <3>1. w[k].kind = u[k].kind /\ w[k].name = u[k].name /\ w[k].parent = u[k].parent
      BY <2>2 DEF Spares
    <3>2. (u[k].parent = p /\ u[k].name = name) \/ IsChain(u, k)
      BY <2>2 DEF Spares
    <3>3. IsChain(u, k) => IsChain(w, k)
      BY <1>1, <3>1 DEF IsChain, Spares
    <3> QED BY <3>1, <3>2, <3>3
  <2> QED BY <2>1, <2>2
<1>4. \A k \in EntryIds : IsFile(t, k) /\ ~(t[k].parent = p /\ t[k].name = name) =>
        w[k] = t[k] /\ \A i \in RefIds : i < t[k].size => z[t[k].ref[i]] = x[t[k].ref[i]]
  <2> SUFFICES ASSUME NEW k \in EntryIds, IsFile(t, k), ~(t[k].parent = p /\ t[k].name = name)
               PROVE  w[k] = t[k] /\ \A i \in RefIds : i < t[k].size => z[t[k].ref[i]] = x[t[k].ref[i]]
    OBVIOUS
  <2>1. u[k] = t[k] /\ \A i \in RefIds : i < t[k].size => y[t[k].ref[i]] = x[t[k].ref[i]]
    BY DEF Spares
  <2>2. IsFile(u, k)
    BY <1>1, <2>1 DEF IsFile, IsDir, Spares
  <2>3. w[k] = u[k] /\ \A i \in RefIds : i < u[k].size => z[u[k].ref[i]] = y[u[k].ref[i]]
    BY <2>1, <2>2 DEF Spares
  <2> QED BY <2>1, <2>3
<1>5. z[BootBlock] = x[BootBlock]
  BY DEF Spares
<1> QED BY <1>2, <1>3, <1>4, <1>5 DEF Spares

(* A new entry, and a write to the file of that name.                      *)
LEMMA MadeSpares ==
  ASSUME NEW t, Table(t), NEW x, NEW n \in EntryIds, t[n].kind = "free", NEW p \in EntryIds, IsDir(t, p),
         t[p].size < ENTRYREFS, NEW kind \in {"file", "dir"}, NEW name \in DirNames \cup FileNames
  PROVE  Spares(t, x, Made(t, n, NewEntry(kind, p, name), p), x, p, name)
<1> DEFINE u == Made(t, n, NewEntry(kind, p, name), p)
<1>1. t \in Tables /\ t[p].next = 0 /\ NewEntry(kind, p, name) \in EntrySet
  <2>1. t \in Tables /\ t[p].next = 0
    BY TableIs, Kinds
  <2>2. NewEntry(kind, p, name) \in EntrySet
    BY NewIs
  <2> QED BY <2>1, <2>2
<1>2. /\ u[n] = NewEntry(kind, p, name)
      /\ u[p].kind = t[p].kind /\ u[p].name = t[p].name /\ u[p].parent = t[p].parent
      /\ \A k \in EntryIds : k # p /\ k # n => u[k] = t[k]
  <2> DEFINE e == NewEntry(kind, p, name)
             v == Made(t, n, e, p)
  <2>1. v = u
    OBVIOUS
  <2> HIDE DEF e, u
  <2> QED BY <1>1, <2>1, MadeIs DEF e, IsDir
<1>3. u[n].parent = p /\ u[n].name = name
  <2> HIDE DEF u
  <2> QED BY <1>2 DEF NewEntry
<1> HIDE DEF u
<1>4. \A k \in EntryIds : IsFile(t, k) => k # p /\ k # n
  BY DEF IsFile, IsDir
<1> QED BY <1>2, <1>3, <1>4 DEF Spares, IsDir, u

LEMMA WroteSpares ==
  ASSUME NEW t, Table(t), NEW m \in EntryIds, IsFile(t, m), NEW u, Table(u), Keeps(t, u, m),
         NEW x \in [Blocks -> Vals \cup {Boot, Kernel, Blank}], NEW off \in RefIds, NEW v \in Vals, NEW q,
         IsError(q) \/ off + 1 <= u[m].size, NEW y, Wrote(x, y, u, q, m, off, v)
  PROVE  /\ Spares(t, x, u, y, t[m].parent, t[m].name)
         /\ y \in [Blocks -> Vals \cup {Boot, Kernel, Blank}]
<1>1. \A k \in EntryIds : t[k].parent \in EntryIds /\ u[k].parent \in EntryIds /\ u[k].size \in Nat
  BY TableIs
<1>2. \A k \in EntryIds : (IsFile(t, k) => IsFile(u, k)) /\ (IsDir(t, k) => IsDir(u, k))
  BY KeepsKinds
<1>3. \A k \in EntryIds : t[k].kind = "free" /\ u[k].kind # "free" => IsChain(u, k)
  <2> SUFFICES ASSUME NEW k \in EntryIds, t[k].kind = "free", u[k].kind # "free"
               PROVE  IsChain(u, k)
    OBVIOUS
  <2>1. u[k].parent = m /\ IsFile(u, m)
    BY <1>2 DEF Keeps
  <2>2. ~IsDir(u, k) /\ ~IsFile(u, k)
    BY <2>1, Kinds DEF IsFile, IsDir
  <2> QED BY <2>2, TableIs, Kinds DEF IsDir
<1>4. \A k \in EntryIds : IsFile(t, k) /\ k # m => u[k] = t[k] /\ IsFile(u, k)
  BY <1>2 DEF Keeps, IsHead
<1>5. /\ y \in [Blocks -> Vals \cup {Boot, Kernel, Blank}]
      /\ \A b \in Blocks : y[b] = x[b] \/ (~IsError(q) /\ b = u[m].ref[off])
  BY DEF Wrote, Put
<1>6. ~IsError(q) => off < u[m].size /\ u[m].ref[off] \in DataBlocks
  <2>1. IsFile(u, m)
    BY <1>2
  <2>2. ~IsError(q) => off < u[m].size
    BY <1>1 DEF RefIds
  <2> QED BY <2>1, <2>2 DEF Table, Owned
<1>7. BootBlock \in Blocks /\ BootBlock \notin DataBlocks /\ DataBlocks \subseteq Blocks
  BY IdsAre DEF BootBlock, Blocks
<1>8. y[BootBlock] = x[BootBlock]
  BY <1>5, <1>6, <1>7
<1>9. ASSUME NEW k \in EntryIds, IsFile(t, k), k # m, NEW i \in RefIds, i < t[k].size
      PROVE  y[t[k].ref[i]] = x[t[k].ref[i]]
  <2>1. u[k] = t[k] /\ IsFile(u, k) /\ IsFile(u, m)
    BY <1>2, <1>4, <1>9
  <2>2. t[k].ref[i] \in DataBlocks
    BY <1>9 DEF Table, Owned
  <2>3. ~IsError(q) => u[k].ref[i] # u[m].ref[off]
    BY <1>6, <1>9, <2>1 DEF Table, Owned
  <2> QED BY <1>5, <1>7, <2>1, <2>2, <2>3
<1>10. \A k \in EntryIds : t[k].kind # "free" =>
         u[k].kind = t[k].kind /\ u[k].name = t[k].name /\ u[k].parent = t[k].parent
  BY DEF Keeps
<1> QED BY <1>3, <1>4, <1>5, <1>8, <1>9, <1>10 DEF Spares
-----------------------------------------------------------------------------
(* What a path names, when its last name is that of a file.                *)
LEMMA ResolveIs ==
  ASSUME Orderly, NEW t, Table(t), NEW p, GoodPath(p), NameOf(p) \in FileNames,
         NEW q, q = Within(t, p), NEW n, n = Resolve(t, p)
  PROVE  /\ q = NOT_FOUND \/ (q \in EntryIds /\ IsDir(t, q) /\ ~IsError(q))
         /\ q = NOT_FOUND => n = NOT_FOUND
         /\ n = NOT_FOUND \/ (n \in EntryIds /\ ~IsError(n) /\ IsFile(t, n) /\ t[n].parent = q
                              /\ t[n].name = NameOf(p))
         /\ n = NOT_FOUND /\ q # NOT_FOUND =>
              \A k \in EntryIds : ~(t[k].parent = q /\ t[k].name = NameOf(p) /\ t[k].kind # "free")
<1>1. /\ q = NOT_FOUND \/ (q \in EntryIds /\ IsDir(t, q) /\ ~IsError(q))
      /\ n = IF IsError(q) THEN q ELSE LookupIn(t, q, NameOf(p))
  BY WithinIs
<1>2. IsError(NOT_FOUND)
  BY DEF IsError, NOT_FOUND
<1>3. CASE q = NOT_FOUND
  BY <1>1, <1>2, <1>3
<1>4. CASE q # NOT_FOUND
  <2>1. n = LookupIn(t, q, NameOf(p)) /\ q \in EntryIds /\ IsDir(t, q)
    BY <1>1, <1>4
  <2>2. /\ n = NOT_FOUND \/ (n \in EntryIds /\ t[n].parent = q /\ t[n].name = NameOf(p) /\ t[n].kind # "free")
        /\ n = NOT_FOUND => \A k \in EntryIds : ~(t[k].parent = q /\ t[k].name = NameOf(p) /\ t[k].kind # "free")
    BY <2>1, LookupIs
  <2>3. ASSUME n # NOT_FOUND PROVE n \in EntryIds /\ ~IsError(n) /\ IsFile(t, n)
    <3>1. n \in EntryIds /\ t[n].parent = q /\ t[n].name \in FileNames /\ t[n].kind # "free"
      BY <2>2, <2>3
    <3>2. ~IsDir(t, n)
      BY <3>1, Kinds DEF Orderly
    <3>3. t[n].kind = "file"
      BY <3>1, <3>2, TableIs DEF IsDir
    <3> QED BY <2>1, <3>1, <3>3, IdsAre DEF IsFile
  <2> QED BY <1>1, <1>4, <2>2, <2>3
<1> QED BY <1>3, <1>4

(* The whole call.                                                         *)
Found(s, p, n, create) == IF n = NOT_FOUND /\ create THEN CreateFile(s, p) ELSE Return(s, n)

LEMMA WriteFileBody ==
  ASSUME NEW s, NEW p, NEW off, NEW v, NEW create, NEW truncate, NEW d, d = p.disk,
         NEW n, n = fs_get_entry(s, p)
  PROVE  fs_write_file(s, p, off, v, create, truncate) =
           IF ~IsError(n) /\ s.tab[d][n].kind = "dir" THEN Return(s, NOT_FOUND)
           ELSE IF IsError(Found(s, p, n, create).ret) THEN Found(s, p, n, create)
           ELSE Writing(Found(s, p, n, create), d, Found(s, p, n, create).ret, off, v, truncate)
<1> DEFINE F(w) == Writing(w, d, w.ret, off, v, truncate)
<1>1. fs_write_file(s, p, off, v, create, truncate) =
        IF ~IsError(n) /\ s.tab[d][n].kind = "dir" THEN Return(s, NOT_FOUND)
        ELSE Then(Found(s, p, n, create), F)
  BY DEF fs_write_file, Writing, Fit, Found
<1> HIDE DEF F
<1>2. Then(Found(s, p, n, create), F) = IF IsError(Found(s, p, n, create).ret) THEN Found(s, p, n, create)
                                        ELSE F(Found(s, p, n, create))
  BY DEF Then
<1> QED BY <1>1, <1>2 DEF F

Spared(t, x, u, y, p) ==
  /\ Table(u) /\ Spares(t, x, u, y, Within(t, p), NameOf(p))
  /\ y \in [Blocks -> Vals \cup {Boot, Kernel, Blank}]

(* Writing to a file that is there, and going on after it was created.     *)
LEMMA WritingSpares ==
  ASSUME Stores, ~Cuttable, NEW d \in Disks, NEW t, Table(t),
         NEW x \in [Blocks -> Vals \cup {Boot, Kernel, Blank}], NEW r, NEW m \in EntryIds,
         IsFile(t, m), NEW off \in RefIds, off <= t[m].size, NEW v \in Vals, NEW truncate
  PROVE  \E u, y, a : /\ Writing(On(d, t, x, r), d, m, off, v, truncate) = On(d, u, y, a)
                      /\ \/ Full(u)
                         \/ /\ Table(u) /\ Spares(t, x, u, y, t[m].parent, t[m].name)
                            /\ y \in [Blocks -> Vals \cup {Boot, Kernel, Blank}]
<1>1. PICK u, y, q, a : /\ Writing(On(d, t, x, r), d, m, off, v, truncate) = On(d, u, y, a)
                        /\ Fits(t, u, q, m, off + 1) /\ Wrote(x, y, u, q, m, off, v)
  BY WritingIs
<1>2. CASE Full(u)
  BY <1>1, <1>2
<1>3. CASE ~Full(u)
  <2>1. Table(u) /\ Keeps(t, u, m) /\ (IsError(q) \/ off + 1 <= u[m].size)
    BY <1>1, <1>3 DEF Fits
  <2>2. /\ Spares(t, x, u, y, t[m].parent, t[m].name)
        /\ y \in [Blocks -> Vals \cup {Boot, Kernel, Blank}]
    BY <1>1, <2>1, WroteSpares
  <2> QED BY <1>1, <2>1, <2>2
<1> QED BY <1>2, <1>3

LEMMA WriteFileIs ==
  ASSUME Stores, Orderly, NEW c \in WriteCalls, NEW d, d = c.path.disk, NEW t, Table(t),
         NEW x \in [Blocks -> Vals \cup {Boot, Kernel, Blank}],
         \A k \in EntryIds : IsDir(t, k) => t[k].size < ENTRYREFS,
         c.off <= IF IsError(Resolve(t, c.path)) THEN 0 ELSE t[Resolve(t, c.path)].size
  PROVE  \E u, y, a :
           /\ fs_write_file(On(d, t, x, 0), c.path, c.off, c.val, c.create, c.truncate) = On(d, u, y, a)
           /\ Full(u) \/ Spared(t, x, u, y, c.path)
<1> DEFINE p == c.path
           s == On(d, t, x, 0)
           n == Resolve(t, p)
           q == Within(t, p)
           F(w) == Writing(w, d, w.ret, c.off, c.val, c.truncate)
           found == Found(s, p, n, c.create)
           result == fs_write_file(s, p, c.off, c.val, c.create, c.truncate)
<1>1. /\ ~Cuttable /\ GoodPath(p) /\ NameOf(p) \in FileNames /\ Clean[NameOf(p)] = NameOf(p)
      /\ c.off \in RefIds /\ c.val \in Vals /\ d \in Disks
  BY OrderlyPath DEF Orderly, IsPath
<1>2. /\ q = NOT_FOUND \/ (q \in EntryIds /\ IsDir(t, q) /\ ~IsError(q))
      /\ q = NOT_FOUND => n = NOT_FOUND
      /\ n = NOT_FOUND \/ (n \in EntryIds /\ ~IsError(n) /\ IsFile(t, n) /\ t[n].parent = q
                           /\ t[n].name = NameOf(p))
      /\ n = NOT_FOUND /\ q # NOT_FOUND =>
           \A k \in EntryIds : ~(t[k].parent = q /\ t[k].name = NameOf(p) /\ t[k].kind # "free")
  <2> HIDE DEF p
  <2> QED BY <1>1, ResolveIs
<1>3. IsError(NOT_FOUND)
  BY DEF IsError, NOT_FOUND
<1>4. s.tab[d] = t /\ fs_get_entry(s, p) = n
  BY <1>1, OnParts DEF fs_get_entry
<1>5. result = IF IsError(found.ret) THEN found ELSE F(found)
  <2> HIDE DEF s, n, p
  <2>1. ~(~IsError(n) /\ s.tab[d][n].kind = "dir")
    BY <1>2, <1>3, <1>4 DEF IsFile
  <2>2. result = IF ~IsError(n) /\ s.tab[d][n].kind = "dir" THEN Return(s, NOT_FOUND)
                 ELSE IF IsError(found.ret) THEN found ELSE F(found)
    BY <1>4, WriteFileBody DEF p
  <2> HIDE DEF result, found, F
  <2> QED BY <2>1, <2>2
<1>6. ASSUME NEW r, IsError(r), found = On(d, t, x, r)
      PROVE  result = On(d, t, x, r) /\ Spared(t, x, t, x, p)
  <2>1. On(d, t, x, r).ret = r
    BY <1>1, OnParts
  <2> HIDE DEF F, found, result
  <2>2. result = On(d, t, x, r)
    BY <1>5, <1>6, <2>1
  <2> QED BY <2>2, SparesAll DEF Spared
<1>7. CASE n # NOT_FOUND
  <2>1. found = On(d, t, x, n) /\ On(d, t, x, n).ret = n
    BY <1>1, <1>7, OnReturn, OnParts DEF Found
  <2>2. c.off <= t[n].size
    BY <1>2, <1>7
  <2>3. PICK u, y, a : /\ Writing(On(d, t, x, n), d, n, c.off, c.val, c.truncate) = On(d, u, y, a)
                       /\ \/ Full(u)
                          \/ /\ Table(u) /\ Spares(t, x, u, y, t[n].parent, t[n].name)
                             /\ y \in [Blocks -> Vals \cup {Boot, Kernel, Blank}]
    <3> HIDE DEF n, p
    <3> QED BY <1>1, <1>2, <1>7, <2>2, WritingSpares
  <2>4. result = On(d, u, y, a)
    <3> HIDE DEF n, found, result
    <3> QED BY <1>2, <1>5, <1>7, <2>1, <2>3
  <2>5. Full(u) \/ Spared(t, x, u, y, p)
    BY <1>2, <1>7, <2>3 DEF Spared
  <2> QED BY <2>4, <2>5
<1>8. CASE n = NOT_FOUND /\ ~c.create
  <2>1. found = On(d, t, x, NOT_FOUND)
    BY <1>8, OnReturn DEF Found
  <2> QED BY <1>3, <1>6, <2>1
<1>9. CASE n = NOT_FOUND /\ c.create
  <2> DEFINE f == FreeIn(t)
             e == NewEntry("file", q, NameOf(p))
             w == Made(t, f, e, q)
  <2>1. /\ t \in Tables
        /\ ~IsError(q) => q \in EntryIds /\ t[q].kind = "dir" /\ t[q].next = 0 /\ t[q].size < ENTRYREFS
    BY <1>2, <1>3, TableIs, Kinds DEF IsDir
  <2>2. CreateFile(s, p) = IF IsError(q) THEN On(d, t, x, q)
                           ELSE IF IsError(f) THEN On(d, t, x, f) ELSE On(d, w, x, f)
    <3> HIDE DEF p, q
    <3> QED BY <1>1, <2>1, CreateFileIs DEF p, q
  <2>3. CASE IsError(q)
    BY <1>6, <1>9, <2>2, <2>3 DEF Found
  <2>4. CASE ~IsError(q) /\ IsError(f)
    BY <1>6, <1>9, <2>2, <2>4 DEF Found
  <2>5. CASE ~IsError(q) /\ ~IsError(f)
    <3>1. found = On(d, w, x, f) /\ On(d, w, x, f).ret = f
      BY <1>1, <1>9, <2>2, <2>5, OnParts DEF Found
    <3>2. f \in EntryIds /\ t[f].kind = "free" /\ q \in EntryIds /\ IsDir(t, q) /\ q # NOT_FOUND
      BY <1>2, <1>3, <2>5, FreeInIs
    <3>3. \A k \in EntryIds : IsHead(t, k) /\ t[k].parent = q => t[k].name # NameOf(p)
      BY <1>2, <1>9, <3>2, Kinds
    <3>4. Table(w)
      <4> DEFINE name == NameOf(p)
      <4>1. name \in FileNames
        BY <1>1
      <4> HIDE DEF name
      <4>2. Table(Made(t, f, NewEntry("file", q, name), q))
        <5> HIDE DEF f, q
        <5> QED BY <2>1, <2>5, <3>2, <3>3, <4>1, MadeSound DEF name
      <4> QED BY <4>2 DEF name
    <3>5. Spares(t, x, w, x, q, NameOf(p))
      <4> DEFINE name == NameOf(p)
      <4>1. name \in FileNames
        BY <1>1
      <4> HIDE DEF name, f, q
      <4>2. Spares(t, x, Made(t, f, NewEntry("file", q, name), q), x, q, name)
        BY <2>1, <2>5, <3>2, <4>1, MadeSpares
      <4> QED BY <4>2 DEF name
    <3>6. w[f] = e /\ w[q].kind = "dir" /\ f # q
      <4>1. e \in EntrySet
        BY <1>1, <3>2, NewIs
      <4>2. f # q
        BY <3>2 DEF IsDir
      <4> HIDE DEF e, f, q
      <4> QED BY <2>1, <2>5, <3>2, <4>1, <4>2, MadeIs
    <3>7. w[f].kind = "file" /\ w[f].parent = q /\ w[f].name = NameOf(p) /\ w[f].size = 0
      <4> HIDE DEF w
      <4> QED BY <3>6 DEF NewEntry
    <3>8. IsFile(w, f) /\ c.off <= w[f].size
      BY <1>3, <1>9, <3>6, <3>7 DEF IsFile, IsDir
    <3> HIDE DEF w
    <3>9. PICK u, y, a : /\ Writing(On(d, w, x, f), d, f, c.off, c.val, c.truncate) = On(d, u, y, a)
                         /\ \/ Full(u)
                            \/ /\ Table(u) /\ Spares(w, x, u, y, w[f].parent, w[f].name)
                               /\ y \in [Blocks -> Vals \cup {Boot, Kernel, Blank}]
      <4> DEFINE off == c.off
                 v == c.val
                 truncate == c.truncate
      <4>1. off \in RefIds /\ v \in Vals /\ off <= w[f].size
        BY <1>1, <3>8
      <4> HIDE DEF f, off, v, truncate
      <4> QED BY <1>1, <3>2, <3>4, <3>8, <4>1, WritingSpares
    <3>10. result = On(d, u, y, a)
      <4> HIDE DEF f, found, result
      <4> QED BY <1>5, <2>5, <3>1, <3>9
    <3>11. Full(u) \/ Spared(t, x, u, y, p)
      <4> SUFFICES ASSUME ~Full(u) PROVE Spared(t, x, u, y, p)
        OBVIOUS
      <4>1. Table(u) /\ Spares(w, x, u, y, q, NameOf(p)) /\ y \in [Blocks -> Vals \cup {Boot, Kernel, Blank}]
        BY <3>7, <3>9
      <4>2. Spares(t, x, u, y, q, NameOf(p))
        BY <3>4, <3>5, <4>1, SparesOn
      <4> QED BY <4>1, <4>2 DEF Spared
    <3> QED BY <3>10, <3>11
  <2> QED BY <2>3, <2>4, <2>5
<1> QED BY <1>7, <1>8, <1>9
-----------------------------------------------------------------------------
(* Sequences with the same elements are the same.                          *)
LEMMA SeqSame ==
  ASSUME NEW a, IsSeq(a), NEW b, IsSeq(b), Len(a) = Len(b), \A k \in 1 .. Len(a) : a[k] = b[k]
  PROVE  a = b
<1> DEFINE A == {a[k] : k \in DOMAIN a}
           B == {b[k] : k \in DOMAIN b}
           S == A \cup B
<1>1. a \in Seq(A) /\ b \in Seq(B) /\ A \subseteq S /\ B \subseteq S
  BY DEF IsSeq
<1> HIDE DEF A, B, S
<1>2. a \in Seq(S) /\ b \in Seq(S)
  BY <1>1, SeqMonotonic
<1> QED BY <1>2, SeqEqual

(* A clean name is left as it is.                                          *)
LEMMA FrontAndLast ==
  ASSUME NEW comps, IsSeq(comps), comps # <<>>
  PROVE  Append(Front(comps), comps[Len(comps)]) = comps
<1> DEFINE f == Front(comps)
           a == Append(f, comps[Len(comps)])
<1>1. /\ IsSeq(f) /\ Len(f) = Len(comps) - 1 /\ Len(comps) >= 1
      /\ \A k \in 1 .. Len(comps) - 1 : f[k] = comps[k]
  BY FrontIs
<1>2. Len(comps) \in Nat
  BY SeqLen
<1> HIDE DEF f
<1>3. /\ IsSeq(a) /\ Len(a) = Len(f) + 1 /\ \A k \in 1 .. Len(f) : a[k] = f[k]
      /\ a[Len(f) + 1] = comps[Len(comps)]
  BY <1>1, SeqAppend
<1> HIDE DEF a
<1>4. Len(a) = Len(comps)
  BY <1>1, <1>2, <1>3
<1>5. \A k \in 1 .. Len(a) : a[k] = comps[k]
  <2> SUFFICES ASSUME NEW k \in 1 .. Len(a) PROVE a[k] = comps[k]
    OBVIOUS
  <2>1. CASE k = Len(comps)
    BY <1>1, <1>2, <1>3, <2>1
  <2>2. CASE k # Len(comps)
    <3>1. k \in 1 .. Len(comps) - 1 /\ k \in 1 .. Len(f)
      BY <1>1, <1>2, <1>4, <2>2
    <3> QED BY <1>1, <1>3, <3>1
  <2> QED BY <2>1, <2>2
<1>6. a = comps
  BY <1>3, <1>4, <1>5, SeqSame
<1> QED BY <1>6 DEF a, f

LEMMA SanitizeIs ==
  ASSUME NEW p, IsPath(p), Clean[NameOf(p)] = NameOf(p)
  PROVE  Sanitize(p) = p
<1>1. Append(DirPart(p), Clean[NameOf(p)]) = p.comps
  BY FrontAndLast DEF IsPath, NameOf, DirPart, Front
<1>2. Sanitize(p) = [p EXCEPT !.comps = p.comps]
  BY <1>1 DEF Sanitize
<1>3. p = [disk |-> p.disk, comps |-> p.comps]
  BY DEF IsPath
<1> QED BY <1>2, <1>3

(* A new directory.                                                        *)
BareDir(p, name) == [FreeEntry EXCEPT !.kind = "dir", !.parent = p, !.name = name]

LEMMA CreateDirectoryBody ==
  ASSUME NEW s, NEW p, Sanitize(p) = p, NEW d, d = p.disk, NEW q, q = ParentOf(s, p),
         NEW n, n = find_free_entry(s, d), NEW e,
         e = BareDir(q, NameOf(p)),
         NEW u, u = write_entry(s, d, n, e), ~IsError(u.ret), n # q
  PROVE  fs_create_directory(s, p) =
           IF IsError(q) THEN Return(s, q)
           ELSE IF ~IsError(LookupIn(s.tab[d], q, NameOf(p))) THEN Return(s, EXISTS)
           ELSE IF IsError(n) THEN Return(s, n)
           ELSE IF IsError(add_ref_in_entry(u, d, q, n).ret) THEN add_ref_in_entry(u, d, q, n)
           ELSE Return(add_ref_in_entry(u, d, q, n), n)
<1> DEFINE L == LookupIn(s.tab[d], q, NameOf(p))
           F(t) == Then(IF n = q THEN t ELSE add_ref_in_entry(t, d, q, n), LAMBDA w : Return(w, n))
           a == add_ref_in_entry(u, d, q, n)
<1>1. fs_create_directory(s, p) = CASE IsError(q) -> Return(s, q)
                                    [] ~IsError(q) /\ ~IsError(L) -> Return(s, EXISTS)
                                    [] ~IsError(q) /\ IsError(L) /\ IsError(n) -> Return(s, n)
                                    [] OTHER -> Then(u, F)
  <2> DEFINE As(dir, path, new) ==
        LET body == BareDir(dir, NameOf(path))
        IN  CASE IsError(dir) -> Return(s, dir)
              [] ~IsError(dir) /\ ~IsError(LookupIn(s.tab[path.disk], dir, NameOf(path))) -> Return(s, EXISTS)
              [] ~IsError(dir) /\ IsError(LookupIn(s.tab[path.disk], dir, NameOf(path)))
                   /\ IsError(new) -> Return(s, new)
              [] OTHER -> Then(write_entry(s, path.disk, new, body), LAMBDA t :
                            Then(IF new = dir THEN t ELSE add_ref_in_entry(t, path.disk, dir, new),
                                 LAMBDA w : Return(w, new)))
  <2>1. fs_create_directory(s, p) = As(ParentOf(s, p), Sanitize(p), find_free_entry(s, Sanitize(p).disk))
    BY DEF fs_create_directory, BareDir
  <2>2. As(ParentOf(s, p), Sanitize(p), find_free_entry(s, Sanitize(p).disk)) = As(q, p, n)
    <3> HIDE DEF As
    <3> QED OBVIOUS
  <2> HIDE DEF L
  <2> QED BY <2>1, <2>2 DEF L
<1>2. Then(u, F) = F(u)
  <2> HIDE DEF F
  <2> QED BY DEF Then
<1>3. F(u) = IF IsError(a.ret) THEN a ELSE Return(a, n)
  <2> HIDE DEF a
  <2> QED BY DEF Then, a
<1> HIDE DEF F, a, L
<1> QED BY <1>1, <1>2, <1>3 DEF a, L
LEMMA CreateDirectoryIs ==
  ASSUME Stores, Orderly, NEW p \in MkdirPaths, NEW d, d = p.disk, NEW t, Table(t),
         NEW x \in [Blocks -> Vals \cup {Boot, Kernel, Blank}],
         \A k \in EntryIds : IsDir(t, k) => t[k].size < ENTRYREFS
  PROVE  \E u, a : fs_create_directory(On(d, t, x, 0), p) = On(d, u, x, a) /\ Spared(t, x, u, x, p)
<1> DEFINE s == On(d, t, x, 0)
           q == Within(t, p)
           n == FreeIn(t)
           name == NameOf(p)
           e == NewEntry("dir", q, name)
           body == BareDir(q, name)
           v == write_entry(s, d, n, body)
           w == Made(t, n, e, q)
           L == LookupIn(t, q, name)
           result == fs_create_directory(s, p)
           all == add_ref_in_entry(v, d, q, n)
<1>1. /\ ~Cuttable /\ GoodPath(p) /\ name \in DirNames /\ Clean[NameOf(p)] = NameOf(p)
      /\ d \in Disks /\ IsPath(p)
  BY OrderlyPath DEF Orderly, IsPath
<1>2. q = NOT_FOUND \/ (q \in EntryIds /\ IsDir(t, q) /\ ~IsError(q))
  <2> HIDE DEF name
  <2> QED BY <1>1, WithinIs
<1>3. s.tab[d] = t /\ ParentOf(s, p) = q /\ find_free_entry(s, d) = n
  BY <1>1, OnParts, OnWithin, OnFree
<1>4. v = On(d, Put(t, n, body), x, 0) /\ ~IsError(v.ret)
  <2>1. v = On(d, Put(t, n, body), x, 0)
    <3> HIDE DEF body, n
    <3> QED BY <1>1, OnWrite
  <2>2. On(d, Put(t, n, body), x, 0).ret = 0
    <3> HIDE DEF body, n
    <3> QED BY <1>1, OnParts
  <2> QED BY <2>1, <2>2 DEF IsError
<1>5. n # q /\ (~IsError(n) => n \in EntryIds /\ t[n].kind = "free")
  <2>1. /\ ~IsError(n) => n \in EntryIds /\ t[n].kind = "free"
        /\ IsError(n) => n = NO_SPACE
    BY FreeInIs
  <2> HIDE DEF n, q
  <2> QED BY <1>2, <2>1 DEF IsDir, NOT_FOUND, NO_SPACE, IsError
<1>6. Sanitize(p) = p
  BY <1>1, SanitizeIs
<1>7. result = IF IsError(q) THEN Return(s, q)
               ELSE IF ~IsError(L) THEN Return(s, EXISTS)
               ELSE IF IsError(n) THEN Return(s, n)
               ELSE IF IsError(all.ret) THEN all ELSE Return(all, n)
  <2> HIDE DEF s, v, n, q, body
  <2>1. result = IF IsError(q) THEN Return(s, q)
           ELSE IF ~IsError(LookupIn(s.tab[d], q, NameOf(p))) THEN Return(s, EXISTS)
           ELSE IF IsError(n) THEN Return(s, n)
           ELSE IF IsError(add_ref_in_entry(v, d, q, n).ret) THEN add_ref_in_entry(v, d, q, n)
           ELSE Return(add_ref_in_entry(v, d, q, n), n)
    BY <1>3, <1>4, <1>5, <1>6, CreateDirectoryBody DEF body, v
  <2> HIDE DEF result
  <2> QED BY <1>3, <2>1
<1>8. Spared(t, x, t, x, p)
  BY SparesAll DEF Spared
<1>9. CASE IsError(q)
  <2>1. result = On(d, t, x, q)
    <3>1. result = Return(s, q)
      <4> HIDE DEF s, q, L, n, all, result
      <4> QED BY <1>7, <1>9
    <3> QED BY <3>1, OnReturn
  <2> QED BY <1>8, <2>1
<1>10. CASE ~IsError(q) /\ ~IsError(L)
  <2>1. result = On(d, t, x, EXISTS)
    <3>1. result = Return(s, EXISTS)
      <4> HIDE DEF s, q, L, n, all, result
      <4> QED BY <1>7, <1>10
    <3> QED BY <3>1, OnReturn
  <2> QED BY <1>8, <2>1
<1>11. CASE ~IsError(q) /\ IsError(L) /\ IsError(n)
  <2>1. result = On(d, t, x, n)
    <3>1. result = Return(s, n)
      <4> HIDE DEF s, q, L, n, all, result
      <4> QED BY <1>7, <1>11
    <3> QED BY <3>1, OnReturn
  <2> QED BY <1>8, <2>1
<1>12. CASE ~IsError(q) /\ IsError(L) /\ ~IsError(n)
  <2>1. q \in EntryIds /\ IsDir(t, q) /\ n \in EntryIds /\ t[n].kind = "free"
    <3> HIDE DEF q, n
    <3> QED BY <1>2, <1>5, <1>12 DEF NOT_FOUND, IsError
  <2>2. t \in Tables /\ t[q].kind = "dir" /\ t[q].next = 0 /\ t[q].size < ENTRYREFS
    <3> HIDE DEF q
    <3> QED BY <2>1, TableIs, Kinds DEF IsDir
  <2> HIDE DEF q, n, name
  <2>3. body = e /\ e \in EntrySet
    <3>1. BareDir(q, name) = NewEntry("dir", q, name)
      BY <1>1, <2>1, NewIs DEF BareDir
    <3>2. NewEntry("dir", q, name) \in EntrySet
      BY <1>1, <2>1, NewIs
    <3> QED BY <3>1, <3>2 DEF name
  <2>4. all = On(d, w, x, 0)
    <3> HIDE DEF body, e
    <3> QED BY <1>1, <2>1, <2>2, <2>3, MakeIs
  <2>5. all.ret = 0 /\ Return(all, n) = On(d, w, x, n)
    <3> HIDE DEF w, all
    <3> QED BY <1>1, <2>4, OnParts, OnReturn
  <2>6. result = On(d, w, x, n)
    <3> HIDE DEF s, L, all, result
    <3> QED BY <1>7, <1>12, <2>5 DEF IsError
  <2>7. \A k \in EntryIds : IsHead(t, k) /\ t[k].parent = q => t[k].name # name
    <3>1. \A k \in EntryIds : ~(t[k].parent = q /\ t[k].name = name /\ t[k].kind # "free")
      <4> HIDE DEF L
      <4>1. L = LookupIn(t, q, name)
        BY DEF L
      <4> QED BY <1>12, <4>1, LookupIs
    <3> QED BY <3>1, Kinds
  <2>8. Table(w)
    BY <1>1, <2>1, <2>2, <2>7, MadeSound
  <2>9. Spares(t, x, w, x, q, name)
    BY <1>1, <2>1, <2>2, MadeSpares
  <2>10. Spared(t, x, w, x, p)
    BY <2>8, <2>9 DEF Spared, q, name
  <2> QED BY <2>6, <2>10
<1> QED BY <1>9, <1>10, <1>11, <1>12
-----------------------------------------------------------------------------
(* Only a path of one name leads to the root directory.                    *)
LEMMA WithinRoot ==
  ASSUME NEW t, Table(t), NEW p, IsPath(p), Within(t, p) = 0
  PROVE  Len(p.comps) = 1
<1> DEFINE f == Front(p.comps)
<1>1. /\ IsSeq(f) /\ Len(f) = Len(p.comps) - 1 /\ Len(p.comps) >= 1
      /\ \A k \in 1 .. Len(p.comps) - 1 : f[k] = p.comps[k]
  BY FrontIs DEF IsPath
<1>2. Len(p.comps) \in Nat
  BY SeqLen DEF IsPath
<1>3. Walk(t, 0, f) = 0
  BY DEF Within
<1> HIDE DEF f
<1>4. CASE f = <<>>
  <2>1. Len(f) = 0
    BY <1>4
  <2> QED BY <1>1, <1>2, <2>1
<1>5. CASE f # <<>>
  <2> DEFINE a == Walk(t, 0, Front(f))
             name == f[Len(f)]
  <2>1. Onward(t, a, name) = 0
    BY <1>1, <1>3, <1>5, WalkOneMore
  <2>2. Len(f) >= 1
    BY <1>1, <1>5, FrontIs
  <2>3. Len(f) \in 1 .. Len(p.comps) - 1 /\ Len(f) \in 1 .. Len(p.comps)
    BY <1>1, <1>2, <2>2
  <2>4. name = p.comps[Len(f)] /\ name \in Comps(p)
    BY <1>1, <2>3 DEF Comps
  <2> HIDE DEF a, name
  <2>5. LookupIn(t, a, name) = 0
    BY <2>1 DEF Onward, IsError
  <2>6. t[0].name = name
    BY <2>5, LookupIs DEF NOT_FOUND
  <2>7. name = ROOT_DIR_NAME
    BY <2>6 DEF Table, RootThere
  <2> QED BY <2>4, <2>7 DEF IsPath
<1> QED BY <1>4, <1>5

(* No call names the boot program.                                         *)
LEMMA KernelApart ==
  ASSUME Orderly, NEW t, Table(t), NEW p, IsPath(p), p.comps # <<KernelName>>, Within(t, p) = 0
  PROVE  NameOf(p) # KernelName
<1> SUFFICES ASSUME NameOf(p) = KernelName PROVE FALSE
  OBVIOUS
<1>1. Len(p.comps) = 1
  BY WithinRoot
<1>2. p.comps[1] = KernelName
  BY <1>1 DEF NameOf
<1> DEFINE b == <<KernelName>>
           name == KernelName
<1>3. IsSeq(b) /\ Len(b) = 1 /\ b[1] = KernelName
  <2> HIDE DEF name
  <2>1. <<name>> \in Seq({name})
    OBVIOUS
  <2>2. Len(<<name>>) = 1 /\ <<name>>[1] = name
    OBVIOUS
  <2>3. IsSeq(<<name>>)
    BY <2>1, SeqOver
  <2> QED BY <2>2, <2>3 DEF name
<1> HIDE DEF b
<1>4. \A k \in 1 .. Len(p.comps) : p.comps[k] = b[k]
  BY <1>1, <1>2, <1>3
<1>5. p.comps = b
  BY <1>1, <1>3, <1>4, SeqSame DEF IsPath
<1> QED BY <1>5 DEF b

(* A call leaves a sound disk sound.                                       *)
LEMMA SparedSound ==
  ASSUME NEW t, NEW x, Sound(t, x), NEW u, NEW y, NEW p, Spared(t, x, u, y, p),
         ~(Within(t, p) = 0 /\ NameOf(p) = KernelName)
  PROVE  Sound(u, y)
<1> DEFINE e == t[KernelEntry]
<1>1. e.kind = "file" /\ e.parent = 0 /\ e.name = KernelName /\ e.size = 1 /\ e.ref = FirstRef(FirstData)
  BY FreshIs DEF Sound, Starts
<1>2. IsFile(t, KernelEntry)
  BY <1>1 DEF IsFile, Sound, Table, RootThere
<1>3. e.ref[0] = FirstData
  BY <1>1, IdsAre DEF FirstRef, NoRefs
<1>4. u[KernelEntry] = e /\ \A i \in RefIds : i < e.size => y[e.ref[i]] = x[e.ref[i]]
  <2> DEFINE name == KernelName
             k == KernelEntry
  <2> HIDE DEF name, k
  <2>1. IsFile(t, k) /\ ~(t[k].parent = Within(t, p) /\ t[k].name = NameOf(p)) /\ k \in EntryIds
    BY <1>1, <1>2, IdsAre DEF name, k
  <2>2. u[k] = t[k] /\ \A i \in RefIds : i < t[k].size => y[t[k].ref[i]] = x[t[k].ref[i]]
    BY <2>1 DEF Spared, Spares
  <2> QED BY <2>2 DEF k
<1>5. y[FirstData] = x[FirstData]
  <2> HIDE DEF e
  <2> QED BY <1>1, <1>3, <1>4, IdsAre
<1>6. y[BootBlock] = x[BootBlock]
  BY DEF Spared, Spares
<1>7. Starts(u, y)
  BY <1>4, <1>5, <1>6 DEF Sound, Starts
<1> QED BY <1>7 DEF Spared, Sound

(* One step of the machine.                                                *)
Touched(d, p, u, y) ==
  /\ d \in Disks /\ p.disk = d /\ GoodPath(p)
  /\ tab' = [tab EXCEPT ![d] = u] /\ data' = [data EXCEPT ![d] = y]
  /\ p \in Named(call')
  /\ ~(Within(tab[d], p) = 0 /\ NameOf(p) = KernelName)
  /\ Full(u) \/ Spared(tab[d], data[d], u, y, p)

(* Room before the call is room in the directories, room after it a block  *)
(* for the file.                                                           *)
RoomBefore == \A d \in Disks : \A n \in EntryIds : IsDir(tab[d], n) => tab[d][n].size < ENTRYREFS
RoomAfter  == \A d \in Disks : ~Full(tab'[d])

LEMMA RoomyIs ==
  Roomy => RoomBefore
BY DEF Roomy, RoomBefore, IsDir

LEMMA RoomyAfter ==
  ASSUME Roomy'
  PROVE  RoomAfter
<1> SUFFICES ASSUME NEW d \in Disks PROVE ~IsError(BlockIn(tab'[d]))
  BY DEF RoomAfter, Full
<1>1. ~IsError(find_free_block(Now', d))
  BY DEF Roomy
<1>2. Now'.tab = tab'
  BY DEF Now
<1>3. find_free_block(Now', d) = BlockIn(tab'[d])
  BY <1>2 DEF find_free_block, BlockIn
<1> QED BY <1>1, <1>3

LEMMA FinishIs ==
  ASSUME Stores, NEW d \in Disks, NEW u, NEW y, NEW a, NEW op, NEW args,
         NEW s, s = On(d, u, y, a), Finish(s, op, args)
  PROVE  /\ tab' = [tab EXCEPT ![d] = u] /\ data' = [data EXCEPT ![d] = y]
         /\ call'.op = op /\ call'.args = args
<1>1. s.seen = {}
  BY OnParts
<1>2. Complete(s, op, args)
  BY <1>1 DEF Finish, CutShort
<1>3. s.tab = [tab EXCEPT ![d] = u] /\ s.data = [data EXCEPT ![d] = y]
  BY DEF On
<1> QED BY <1>2, <1>3 DEF Complete

LEMMA StepIs ==
  ASSUME Orderly, Disk, RoomBefore, WritingNext
  PROVE  \E d, p, u, y : Touched(d, p, u, y)
<1>1. Stores
  BY DEF Disk, Stores
<1>2. CASE WriteFile
  <2>1. PICK c \in WriteCalls :
          /\ Sparse \/ c.off <= SizeOf(c.path)
          /\ Finish(fs_write_file(Now, c.path, c.off, c.val, c.create, c.truncate), "write", <<c>>)
    BY <1>2 DEF WriteFile
  <2> DEFINE p == c.path
             d == p.disk
             t == tab[d]
             x == data[d]
  <2>2. GoodPath(p) /\ d \in Disks /\ IsPath(p) /\ p.comps # <<KernelName>> /\ ~Sparse
    BY OrderlyPath DEF Orderly, IsPath
  <2>3. Sound(t, x)
    BY <2>2 DEF Disk
  <2>4. Now = On(d, t, x, 0)
    BY <1>1, <2>2, OnIsNow
  <2>5. c.off <= IF IsError(Resolve(t, p)) THEN 0 ELSE t[Resolve(t, p)].size
    BY <2>1, <2>2 DEF SizeOf, fs_get_entry, Now
  <2>6. \A k \in EntryIds : IsDir(t, k) => t[k].size < ENTRYREFS
    BY <2>2 DEF RoomBefore
  <2> HIDE DEF t, x
  <2>7. PICK u, y, a :
           /\ fs_write_file(On(d, t, x, 0), p, c.off, c.val, c.create, c.truncate) = On(d, u, y, a)
           /\ Full(u) \/ Spared(t, x, u, y, p)
    BY <1>1, <2>3, <2>5, <2>6, WriteFileIs DEF Sound
  <2>8. Finish(On(d, u, y, a), "write", <<c>>)
    BY <2>1, <2>4, <2>7
  <2>9. /\ tab' = [tab EXCEPT ![d] = u] /\ data' = [data EXCEPT ![d] = y]
        /\ call'.op = "write" /\ call'.args = <<c>>
    BY <1>1, <2>2, <2>8, FinishIs
  <2>10. p \in Named(call')
    BY <2>9 DEF Named
  <2>11. ~(Within(t, p) = 0 /\ NameOf(p) = KernelName)
    BY <2>2, <2>3, KernelApart DEF Sound
  <2>12. Touched(d, p, u, y)
    BY <2>2, <2>7, <2>9, <2>10, <2>11 DEF Touched, t, x
  <2> QED BY <2>12
<1>3. CASE CreateDirectory
  <2>1. PICK p \in MkdirPaths : Finish(fs_create_directory(Now, p), "mkdir", <<p>>)
    BY <1>3 DEF CreateDirectory
  <2> DEFINE d == p.disk
             t == tab[d]
             x == data[d]
  <2>2. GoodPath(p) /\ d \in Disks /\ IsPath(p) /\ NameOf(p) \in DirNames
    BY OrderlyPath DEF Orderly, IsPath
  <2>3. Sound(t, x)
    BY <2>2 DEF Disk
  <2>4. Now = On(d, t, x, 0)
    BY <1>1, <2>2, OnIsNow
  <2>6. \A k \in EntryIds : IsDir(t, k) => t[k].size < ENTRYREFS
    BY <2>2 DEF RoomBefore
  <2> HIDE DEF t, x
  <2>7. PICK u, a : fs_create_directory(On(d, t, x, 0), p) = On(d, u, x, a) /\ Spared(t, x, u, x, p)
    BY <1>1, <2>3, <2>6, CreateDirectoryIs DEF Sound
  <2>8. Finish(On(d, u, x, a), "mkdir", <<p>>)
    BY <2>1, <2>4, <2>7
  <2>9. /\ tab' = [tab EXCEPT ![d] = u] /\ data' = [data EXCEPT ![d] = x]
        /\ call'.op = "mkdir" /\ call'.args = <<p>>
    BY <1>1, <2>2, <2>8, FinishIs
  <2>10. p \in Named(call')
    BY <2>9 DEF Named
  <2>11. ~(Within(t, p) = 0 /\ NameOf(p) = KernelName)
    <3>1. KernelName \in FileNames /\ DirNames \cap FileNames = {}
      BY DEF FileNames, Orderly
    <3> DEFINE name == KernelName
    <3> HIDE DEF name
    <3> QED BY <2>2, <3>1 DEF name
  <2>12. Touched(d, p, u, x)
    BY <2>2, <2>7, <2>9, <2>10, <2>11 DEF Touched, t, x
  <2> QED BY <2>12
<1> QED BY <1>2, <1>3 DEF WritingNext

LEMMA DiskStays ==
  ASSUME Orderly, Disk, RoomBefore, RoomAfter, [WritingNext]_vars
  PROVE  Disk'
<1>1. CASE WritingNext
  <2>1. PICK d, p, u, y : Touched(d, p, u, y)
    BY <1>1, StepIs
  <2>2. tab'[d] = u /\ d \in Disks /\ \A b \in Disks : b # d => tab'[b] = tab[b] /\ data'[b] = data[b]
    BY <2>1 DEF Touched, Disk
  <2>3. data'[d] = y
    BY <2>1 DEF Touched, Disk
  <2>4. ~Full(u)
    BY <2>2 DEF RoomAfter
  <2>5. Spared(tab[d], data[d], u, y, p) /\ ~(Within(tab[d], p) = 0 /\ NameOf(p) = KernelName)
    BY <2>1, <2>4 DEF Touched
  <2>6. Sound(u, y)
    BY <2>2, <2>5, SparedSound DEF Disk
  <2>7. \A b \in Disks : Sound(tab'[b], data'[b])
    BY <2>2, <2>3, <2>6 DEF Disk
  <2>8. tab' = [b \in Disks |-> tab'[b]] /\ data' = [b \in Disks |-> data'[b]]
    BY <2>1 DEF Touched, Disk
  <2> QED BY <2>7, <2>8 DEF Disk
<1>2. CASE UNCHANGED vars
  BY <1>2 DEF vars, Disk
<1> QED BY <1>1, <1>2

LEMMA InitDisk ==
  Init => Disk
<1> SUFFICES ASSUME Init PROVE Disk
  OBVIOUS
<1>1. tab = [d \in Disks |-> FreshTable] /\ data = [d \in Disks |-> FreshData]
  BY DEF Init
<1> QED BY <1>1, FreshSound DEF Disk

(* Disk is inductive: after every call that creates, writes, extends or    *)
(* truncates a file or creates a directory (fs_write_file,                 *)
(* fs_create_directory), each table is sound and each block has one owner. *)
THEOREM WritingDisk ==
  ASSUME Orderly
  PROVE  WritingSpec /\ []Roomy => []Disk
<1>1. Disk /\ Roomy /\ Roomy' /\ [WritingNext]_vars => Disk'
  BY DiskStays, RoomyIs, RoomyAfter
<1> QED BY InitDisk, <1>1, PTL DEF WritingSpec
-----------------------------------------------------------------------------
(* What the properties call heads, directories and files.                  *)
LEMMA HeadsAre ==
  ASSUME NEW d \in Disks, Table(tab[d])
  PROVE  /\ Heads(d) = {n \in EntryIds : IsHead(tab[d], n)}
         /\ Dirs(d) = {n \in EntryIds : IsDir(tab[d], n)}
         /\ Files(d) = {n \in EntryIds : IsFile(tab[d], n)}
<1> DEFINE t == tab[d]
<1>1. \A n \in EntryIds : Used(d, n) <=> t[n].kind # "free"
  BY DEF Used
<1>2. ASSUME NEW n \in EntryIds
      PROVE  (Used(d, n) /\ ~Chained(d, n)) <=> IsHead(t, n)
  <2>1. CASE IsDir(t, n)
    <3>1. n # 0 => t[t[n].parent].next # n
      BY <1>2, <2>1, Kinds, TableIs
    <3>2. ~Chained(d, n)
      BY <3>1 DEF Chained
    <3> QED BY <1>1, <1>2, <2>1, <3>2 DEF IsDir, IsHead
  <2>2. CASE IsFile(t, n)
    <3>1. n # 0 => t[t[n].parent].next # n
      BY <1>2, <2>2, Kinds, TableIs DEF IsFile
    <3>2. ~Chained(d, n)
      BY <3>1 DEF Chained
    <3> QED BY <1>1, <1>2, <2>2, <3>2 DEF IsFile, IsHead
  <2>3. CASE IsChain(t, n)
    <3>1. t[t[n].parent].next = n /\ n # 0 /\ ~IsHead(t, n)
      BY <1>2, <2>3, Kinds DEF IsChain, IsDir
    <3> QED BY <1>1, <1>2, <2>3, <3>1 DEF Chained, IsChain
  <2>4. CASE t[n].kind = "free"
    BY <1>1, <1>2, <2>4 DEF IsHead, IsDir, IsFile
  <2>5. t[n].kind \in {"free", "dir", "file"}
    BY TableIs
  <2> QED BY <1>2, <2>1, <2>2, <2>3, <2>4, <2>5, Kinds DEF IsDir
<1>3. Heads(d) = {n \in EntryIds : IsHead(t, n)}
  BY <1>2 DEF Heads
<1>4. Dirs(d) = {n \in EntryIds : IsDir(t, n)}
  BY <1>3 DEF Dirs, IsHead, IsDir
<1>5. Files(d) = {n \in EntryIds : IsFile(t, n)}
  BY <1>3 DEF Files, IsHead, IsDir, IsFile
<1> QED BY <1>3, <1>4, <1>5

LEMMA DiskIs ==
  ASSUME Disk, NEW d \in Disks
  PROVE  Sound(tab[d], data[d]) /\ Table(tab[d])
BY DEF Disk, Sound

LEMMA DiskTypeOK ==
  ASSUME Disk
  PROVE  TypeOK
<1>1. DOMAIN tab = Disks /\ DOMAIN data = Disks
  BY DEF Disk
<1>2. ASSUME NEW d \in Disks
      PROVE  /\ DOMAIN tab[d] = EntryIds /\ DOMAIN data[d] = Blocks
             /\ \A b \in Blocks : data[d][b] \in Vals \cup {Boot, Kernel, Blank}
             /\ \A n \in EntryIds :
                 /\ tab[d][n].kind \in {"free", "dir", "file"}
                 /\ tab[d][n].size \in 0 .. WORD - 1
                 /\ tab[d][n].parent \in EntryIds /\ tab[d][n].next \in EntryIds
                 /\ \A i \in RefIds : tab[d][n].ref[i] \in
                      IF tab[d][n].kind = "file" THEN {0} \cup DataBlocks ELSE EntryIds
  <2> DEFINE t == tab[d]
  <2>1. Table(t) /\ data[d] \in [Blocks -> Vals \cup {Boot, Kernel, Blank}]
    BY <1>2, DiskIs DEF Sound
  <2>2. DOMAIN t = EntryIds /\ DOMAIN data[d] = Blocks
    BY <2>1, TableIs DEF Tables
  <2> HIDE DEF t
  <2>3. ASSUME NEW n \in EntryIds
        PROVE  /\ t[n].kind \in {"free", "dir", "file"} /\ t[n].size \in 0 .. WORD - 1
               /\ t[n].parent \in EntryIds /\ t[n].next \in EntryIds
    BY <2>1, <2>3, TableIs, EntryIs
  <2>4. ASSUME NEW n \in EntryIds, NEW i \in RefIds
        PROVE  t[n].ref[i] \in IF t[n].kind = "file" THEN {0} \cup DataBlocks ELSE EntryIds
    BY <2>1, <2>3, <2>4 DEF Table, FilesSound, FreeSound, DirsSound, IsDir
  <2> QED BY <2>1, <2>2, <2>3, <2>4 DEF t
<1> QED BY <1>1, <1>2 DEF TypeOK

LEMMA DiskChainsSound ==
  ASSUME Disk
  PROVE  ChainsSound
<1> SUFFICES ASSUME NEW d \in Disks, NEW n \in EntryIds, Used(d, n), tab[d][n].next # 0
             PROVE  /\ tab[d][tab[d][n].next].kind = tab[d][n].kind
                    /\ tab[d][tab[d][n].next].parent = n
                    /\ \A k \in EntryIds \ {n} : Used(d, k) => tab[d][k].next # tab[d][n].next
  BY DEF ChainsSound
<1> DEFINE t == tab[d]
<1>1. Table(t)
  BY DiskIs
<1> HIDE DEF t
<1>2. ASSUME NEW k \in EntryIds, t[k].kind # "free", t[k].next # 0
      PROVE  t[k].kind = "file" /\ IsFile(t, k)
  BY <1>1, <1>2, Kinds, TableIs DEF IsDir
<1>3. ASSUME NEW k \in EntryIds, t[k].kind # "free", t[k].next # 0
      PROVE  t[t[k].next].kind = "file" /\ t[t[k].next].parent = k
  BY <1>1, <1>2, <1>3 DEF Table, FilesSound
<1>4. \A k \in EntryIds : Used(d, k) <=> t[k].kind # "free"
  BY DEF Used, t
<1>5. \A k \in EntryIds \ {n} : Used(d, k) => t[k].next # t[n].next
  BY <1>3, <1>4 DEF t
<1> QED BY <1>2, <1>3, <1>4, <1>5 DEF t

LEMMA DiskNamesUnique ==
  ASSUME Disk
  PROVE  NamesUnique
<1> SUFFICES ASSUME NEW d \in Disks, NEW n \in Heads(d) \ {0}
             PROVE  /\ LookupIn(tab[d], tab[d][n].parent, tab[d][n].name) = n
                    /\ \A m \in Heads(d) \ {0, n} : <<tab[d][m].parent, tab[d][m].name>>
                                                   # <<tab[d][n].parent, tab[d][n].name>>
  BY DEF NamesUnique
<1> DEFINE t == tab[d]
           p == t[n].parent
           name == t[n].name
<1>1. Table(t) /\ Heads(d) = {k \in EntryIds : IsHead(t, k)}
  BY DiskIs, HeadsAre
<1>2. n \in EntryIds /\ IsHead(t, n)
  BY <1>1
<1>3. IsDir(t, p) /\ p \in EntryIds /\ t[n].kind # "free"
  BY <1>1, <1>2, Kinds, TableIs
<1> HIDE DEF t
<1>4. ASSUME NEW k \in EntryIds, t[k].parent = p, t[k].name = name, t[k].kind # "free"
      PROVE  k = n
  <2>1. IsHead(t, k)
    BY <1>1, <1>3, <1>4, TableIs DEF IsHead, IsDir, IsFile
  <2> QED BY <1>1, <1>2, <1>4, <2>1 DEF Table, Unique
<1> HIDE DEF p, name
<1>5. LookupIn(t, p, name) = n
  <2> DEFINE r == LookupIn(t, p, name)
  <2>1. /\ r = NOT_FOUND \/ (r \in EntryIds /\ t[r].parent = p /\ t[r].name = name /\ t[r].kind # "free")
        /\ r = NOT_FOUND => \A k \in EntryIds : ~(t[k].parent = p /\ t[k].name = name /\ t[k].kind # "free")
    BY LookupIs
  <2> HIDE DEF r
  <2>2. r # NOT_FOUND
    BY <1>2, <1>3, <2>1 DEF p, name
  <2> QED BY <1>4, <2>1, <2>2 DEF r
<1>6. \A m \in Heads(d) \ {0, n} : <<t[m].parent, t[m].name>> # <<p, name>>
  <2> SUFFICES ASSUME NEW m \in Heads(d), m # n, t[m].parent = p, t[m].name = name PROVE FALSE
    OBVIOUS
  <2>1. m \in EntryIds /\ t[m].kind # "free"
    BY <1>1, Kinds
  <2> QED BY <1>4, <2>1
<1> QED BY <1>5, <1>6 DEF t, p, name

LEMMA DiskBlocksOwned ==
  ASSUME Disk
  PROVE  BlocksOwned
<1> SUFFICES ASSUME NEW d \in Disks
             PROVE  /\ \A x \in Positions(d) : tab[d][x[1]].ref[x[2]] \in DataBlocks
                    /\ \A x, y \in Positions(d) : x # y => tab[d][x[1]].ref[x[2]] # tab[d][y[1]].ref[y[2]]
  BY DEF BlocksOwned
<1> DEFINE t == tab[d]
<1>1. Table(t) /\ Files(d) = {k \in EntryIds : IsFile(t, k)}
  BY DiskIs, HeadsAre
<1>2. \A x \in Positions(d) : /\ x[1] \in EntryIds /\ IsFile(t, x[1]) /\ x[2] \in RefIds /\ x[2] < t[x[1]].size
                              /\ x = <<x[1], x[2]>>
  BY <1>1 DEF Positions
<1> HIDE DEF t
<1>3. \A x \in Positions(d) : t[x[1]].ref[x[2]] \in DataBlocks
  BY <1>1, <1>2 DEF Table, Owned
<1>4. \A x, y \in Positions(d) : t[x[1]].ref[x[2]] = t[y[1]].ref[y[2]] => x[1] = y[1] /\ x[2] = y[2]
  BY <1>1, <1>2 DEF Table, Owned
<1> QED BY <1>2, <1>3, <1>4 DEF t

LEMMA DiskBootable ==
  ASSUME Disk
  PROVE  Bootable
BY DiskIs DEF Bootable, Sound, Starts
(* The elements of a directory, and how many they are.                     *)
LEMMA ListedIs ==
  ASSUME NEW d \in Disks, Table(tab[d]), NEW p \in EntryIds, IsDir(tab[d], p)
  PROVE  /\ Listed(d, p) = {n \in EntryIds \ {0} : IsHead(tab[d], n) /\ tab[d][n].parent = p}
         /\ Cardinality(Listed(d, p)) = tab[d][p].size
<1> DEFINE t == tab[d]
           size == t[p].size
           e == t[p]
           L == {e.ref[i] : i \in 0 .. size - 1}
<1>1. size \in Nat /\ size <= ENTRYREFS
  BY Kinds, TableIs
<1>2. Lower(size, ENTRYREFS) = size
  BY <1>1, RefsAssumption DEF Lower
<1>3. Listed(d, p) = L
  <2>1. fs_list(Now, d, p) = [i \in 0 .. Lower(size, ENTRYREFS) - 1 |-> e.ref[i]]
    BY DEF fs_list, Now
  <2> HIDE DEF e, size
  <2>2. Listed(d, p) = {e.ref[i] : i \in 0 .. Lower(size, ENTRYREFS) - 1}
    BY <2>1 DEF Listed
  <2> QED BY <1>2, <2>2
<1>4. \A i \in RefIds : i < size <=> i \in 0 .. size - 1
  BY <1>1 DEF RefIds
<1>5. 0 .. size - 1 \subseteq RefIds
  BY <1>1, RefsAssumption DEF RefIds
<1> HIDE DEF t
<1>6. /\ \A i \in 0 .. size - 1 : e.ref[i] # 0 /\ IsHead(t, e.ref[i]) /\ t[e.ref[i]].parent = p
                                  /\ e.ref[i] \in EntryIds
      /\ \A n \in EntryIds \ {0} : IsHead(t, n) /\ t[n].parent = p => \E i \in 0 .. size - 1 : e.ref[i] = n
      /\ \A i, j \in 0 .. size - 1 : e.ref[i] = e.ref[j] => i = j
  BY <1>4, <1>5 DEF Table, Lists, DirsSound, t
<1> HIDE DEF e, size
<1>7. L = {n \in EntryIds \ {0} : IsHead(t, n) /\ t[n].parent = p}
  BY <1>6
<1>8. Cardinality(L) = size
  <2> DEFINE F == [k \in 1 .. size |-> e.ref[k - 1]]
  <2>1. \A k \in 1 .. size : k - 1 \in 0 .. size - 1
    BY <1>1
  <2>2. F \in [1 .. size -> L]
    BY <2>1
  <2>3. \A a, b \in 1 .. size : F[a] = F[b] => a = b
    <3> SUFFICES ASSUME NEW a \in 1 .. size, NEW b \in 1 .. size, F[a] = F[b] PROVE a = b
      OBVIOUS
    <3>1. e.ref[a - 1] = e.ref[b - 1]
      OBVIOUS
    <3>2. a - 1 = b - 1
      BY <1>6, <2>1, <3>1
    <3> QED BY <3>2
  <2>4. \A n \in L : \E k \in 1 .. size : F[k] = n
    <3> SUFFICES ASSUME NEW i \in 0 .. size - 1 PROVE \E k \in 1 .. size : F[k] = e.ref[i]
      OBVIOUS
    <3>1. i + 1 \in 1 .. size /\ i + 1 - 1 = i
      BY <1>1
    <3>2. F[i + 1] = e.ref[i]
      BY <3>1
    <3> QED BY <3>1, <3>2
  <2> HIDE DEF F, L
  <2>5. F \in Bijection(1 .. size, L)
    BY <2>2, <2>3, <2>4, Fun_IsBij
  <2>6. ExistsBijection(1 .. size, L)
    BY <2>5 DEF ExistsBijection
  <2> QED BY <1>1, <2>6, FS_CountingElements
<1> HIDE DEF L
<1> QED BY <1>3, <1>7, <1>8 DEF t, e, size

LEMMA DiskDirectories ==
  ASSUME Disk
  PROVE  DirectoriesConsistent
<1> SUFFICES ASSUME NEW d \in Disks
             PROVE  /\ \A n \in Heads(d) \ {0} : tab[d][n].parent \in Dirs(d)
                    /\ \A p \in Dirs(d) :
                        /\ Listed(d, p) = {n \in Heads(d) \ {0} : tab[d][n].parent = p}
                        /\ Cardinality(Listed(d, p)) = tab[d][p].size
                        /\ \A i \in RefIds : i >= tab[d][p].size => tab[d][p].ref[i] = 0
  BY DEF DirectoriesConsistent
<1> DEFINE t == tab[d]
<1>1. /\ Table(t) /\ Heads(d) = {k \in EntryIds : IsHead(t, k)}
      /\ Dirs(d) = {k \in EntryIds : IsDir(t, k)}
  BY DiskIs, HeadsAre
<1>2. \A n \in Heads(d) \ {0} : t[n].parent \in Dirs(d)
  BY <1>1, Kinds, TableIs
<1>3. ASSUME NEW p \in Dirs(d)
      PROVE  /\ Listed(d, p) = {n \in Heads(d) \ {0} : t[n].parent = p}
             /\ Cardinality(Listed(d, p)) = t[p].size
             /\ \A i \in RefIds : i >= t[p].size => t[p].ref[i] = 0
  <2>1. p \in EntryIds /\ IsDir(t, p)
    BY <1>1, <1>3
  <2>2. /\ Listed(d, p) = {n \in EntryIds \ {0} : IsHead(t, n) /\ t[n].parent = p}
        /\ Cardinality(Listed(d, p)) = t[p].size
    BY <1>1, <2>1, ListedIs
  <2>3. \A i \in RefIds : i >= t[p].size => t[p].ref[i] = 0
    BY <1>1, <2>1 DEF Table, Lists
  <2> QED BY <1>1, <2>2, <2>3
<1> QED BY <1>2, <1>3
-----------------------------------------------------------------------------
(* Every entry in use is further from the root than its parent.            *)
IsRank(rank, t) == /\ rank \in [EntryIds -> Nat]
                   /\ \A n \in EntryIds \ {0} : t[n].kind # "free" => rank[t[n].parent] < rank[n]
Rooted(t) == \E rank : IsRank(rank, t)

LEMMA FreshRooted ==
  Rooted(FreshTable)
<1> DEFINE rank == [n \in EntryIds |-> n]
<1>1. rank \in [EntryIds -> Nat] /\ rank[0] = 0 /\ rank[KernelEntry] = KernelEntry
  BY IdsAre
<1>2. ASSUME NEW n \in EntryIds \ {0}, FreshTable[n].kind # "free"
      PROVE  n = KernelEntry
  BY <1>2, FreshIs
<1>3. FreshTable[KernelEntry].parent = 0
  BY FreshIs
<1>4. rank[0] < rank[KernelEntry]
  BY <1>1 DEF KernelEntry
<1> HIDE DEF rank
<1>5. IsRank(rank, FreshTable)
  BY <1>1, <1>2, <1>3, <1>4 DEF IsRank
<1> QED BY <1>5 DEF Rooted

(* What comes is put below what was there, or chained to a file.           *)
LEMMA RootedStays ==
  ASSUME NEW t, Table(t), Rooted(t), NEW x, NEW u, Table(u), NEW y, NEW p, NEW name,
         p = NOT_FOUND \/ (p \in EntryIds /\ IsDir(t, p)), Spares(t, x, u, y, p, name)
  PROVE  Rooted(u)
<1>1. PICK rank : IsRank(rank, t)
  BY DEF Rooted
<1> DEFINE old == [k \in EntryIds |-> IF t[k].kind # "free" THEN rank[k] ELSE rank[u[k].parent] + 1]
           new == [k \in EntryIds |-> IF IsChain(u, k) THEN old[u[k].parent] + 1 ELSE old[k]]
<1>2. \A k \in EntryIds : t[k].parent \in EntryIds /\ u[k].parent \in EntryIds
  BY TableIs
<1>3. /\ \A k \in EntryIds : rank[k] \in Nat
      /\ \A n \in EntryIds \ {0} : t[n].kind # "free" => rank[t[n].parent] < rank[n]
  BY <1>1 DEF IsRank
<1>4. old \in [EntryIds -> Nat]
  BY <1>2, <1>3
<1>5. new \in [EntryIds -> Nat]
  <2> HIDE DEF old
  <2> QED BY <1>2, <1>4
<1>6. \A k \in EntryIds : /\ t[k].kind # "free" => old[k] = rank[k]
                          /\ t[k].kind = "free" => old[k] = rank[u[k].parent] + 1
                          /\ IsChain(u, k) => new[k] = old[u[k].parent] + 1
                          /\ ~IsChain(u, k) => new[k] = old[k]
  OBVIOUS
<1> HIDE DEF old, new
<1>7. \A k \in EntryIds : t[k].kind # "free" => u[k].kind = t[k].kind /\ u[k].parent = t[k].parent
  BY DEF Spares
<1>8. ASSUME NEW n \in EntryIds \ {0}, u[n].kind # "free"
      PROVE  new[u[n].parent] < new[n]
  <2> DEFINE m == u[n].parent
  <2>1. m \in EntryIds
    BY <1>2
  <2>2. CASE IsChain(u, n)
    <3>1. ~IsChain(u, m)
      BY <2>1, <2>2, Kinds DEF IsChain
    <3>2. new[n] = old[m] + 1 /\ new[m] = old[m]
      BY <1>6, <2>1, <2>2, <3>1
    <3> QED BY <1>4, <2>1, <3>2
  <2>3. CASE ~IsChain(u, n)
    <3>1. IsDir(u, m) /\ ~IsChain(u, m)
      BY <1>8, <2>1, <2>3, Kinds, TableIs DEF IsHead, IsDir, IsChain
    <3>2. new[n] = old[n] /\ new[m] = old[m]
      BY <1>6, <2>1, <2>3, <3>1
    <3>3. CASE t[n].kind # "free"
      <4>1. m = t[n].parent /\ t[m].kind # "free"
        <5>1. m = t[n].parent
          BY <1>7, <3>3
        <5>2. t[m].kind # "free"
          BY <3>3, <5>1, Kinds, TableIs DEF IsHead, IsDir, IsChain
        <5> QED BY <5>1, <5>2
      <4>2. old[n] = rank[n] /\ old[m] = rank[m]
        BY <1>6, <2>1, <3>3, <4>1
      <4> QED BY <1>3, <3>2, <3>3, <4>1, <4>2
    <3>4. CASE t[n].kind = "free"
      <4>1. m = p
        BY <1>8, <2>3, <3>4 DEF Spares
      <4>2. t[m].kind # "free"
        BY <2>1, <4>1, IdsAre DEF IsDir, IsError, NOT_FOUND
      <4>3. old[n] = rank[m] + 1 /\ old[m] = rank[m]
        BY <1>6, <2>1, <3>4, <4>2
      <4> QED BY <1>3, <2>1, <3>2, <4>3
    <3> QED BY <3>3, <3>4
  <2> QED BY <2>2, <2>3
<1>9. IsRank(new, u)
  BY <1>5, <1>8 DEF IsRank
<1> QED BY <1>9 DEF Rooted

(* How far the properties look from the root.                              *)
Wider(t, S) == S \cup {n \in EntryIds : t[n].kind # "free" /\ t[n].parent \in S}
Levels(g, t, n) == g = [k \in 0 .. n |-> IF k = 0 THEN {0} ELSE Wider(t, g[k - 1])]

LEMMA LevelsExist ==
  ASSUME NEW t, NEW len \in Nat
  PROVE  \E g : Levels(g, t, len)
<1> DEFINE None == {n \in 0 .. len : ~\E g : Levels(g, t, n)}
<1> SUFFICES ASSUME None # {} PROVE FALSE
  OBVIOUS
<1> DEFINE n == Min(None)
<1>1. n \in None /\ \A y \in None : n <= y
  <2>1. None \subseteq Nat
    OBVIOUS
  <2> QED BY <2>1, MinIsLeast
<1> HIDE DEF n
<1>2. CASE n = 0
  <2> DEFINE g == [k \in 0 .. 0 |-> {0}]
  <2>1. g = [k \in 0 .. 0 |-> IF k = 0 THEN {0} ELSE Wider(t, g[k - 1])]
    OBVIOUS
  <2> QED BY <1>1, <1>2, <2>1 DEF Levels
<1>3. CASE n # 0
  <2>1. n \in 1 .. len /\ n - 1 \in 0 .. len /\ n - 1 \notin None
    BY <1>1, <1>3
  <2>2. PICK g : Levels(g, t, n - 1)
    BY <2>1
  <2> DEFINE h == [k \in 0 .. n |-> IF k <= n - 1 THEN g[k] ELSE Wider(t, g[n - 1])]
  <2>3. \A k \in 0 .. n - 1 : g[k] = IF k = 0 THEN {0} ELSE Wider(t, g[k - 1])
    BY <2>2 DEF Levels
  <2>4. \A k \in 0 .. n : h[k] = IF k = 0 THEN {0} ELSE Wider(t, h[k - 1])
    <3> SUFFICES ASSUME NEW k \in 0 .. n
                 PROVE  h[k] = IF k = 0 THEN {0} ELSE Wider(t, h[k - 1])
      OBVIOUS
    <3>1. CASE k <= n - 1
      <4>1. h[k] = g[k] /\ k \in 0 .. n - 1
        BY <2>1, <3>1
      <4>2. k # 0 => h[k - 1] = g[k - 1]
        BY <2>1, <3>1
      <4> HIDE DEF h
      <4> QED BY <2>3, <4>1, <4>2
    <3>2. CASE k = n
      <4>1. h[k] = Wider(t, g[n - 1]) /\ h[n - 1] = g[n - 1]
        BY <2>1, <3>2
      <4> HIDE DEF h
      <4> QED BY <1>3, <3>2, <4>1
    <3> QED BY <2>1, <3>1, <3>2
  <2>5. h = [k \in 0 .. n |-> h[k]]
    OBVIOUS
  <2> HIDE DEF h
  <2>6. Levels(h, t, n)
    BY <2>4, <2>5 DEF Levels
  <2> QED BY <1>1, <2>6
<1> QED BY <1>2, <1>3

LEMMA BelowIs ==
  ASSUME NEW d
  PROVE  \E g : Levels(g, tab[d], NENT) /\ Below(d) = g[NENT]
<1> DEFINE t == tab[d]
           Step(S) == S \cup {n \in EntryIds : Used(d, n) /\ tab[d][n].parent \in S}
           Eq(f) == f = [k \in 0 .. Len(Hops) |->
                           IF k = 0 THEN {0} ELSE CHOOSE v \in {Step(s) : s \in {f[k - 1]}} : TRUE]
           F == CHOOSE f : Eq(f)
<1>1. Below(d) = F[Len(Hops)]
  BY DEF Below, Folded
<1>2. Len(Hops) = NENT /\ NENT \in Nat
  BY SeqFun, NentAssumption DEF Hops
<1>3. ASSUME NEW f PROVE Eq(f) <=> Levels(f, t, NENT)
  <2>1. \A k : (CHOOSE v \in {Step(s) : s \in {f[k - 1]}} : TRUE) = Wider(t, f[k - 1])
    <3> TAKE k
    <3>1. {Step(s) : s \in {f[k - 1]}} = {Step(f[k - 1])}
      OBVIOUS
    <3>2. Step(f[k - 1]) = Wider(t, f[k - 1])
      BY DEF Wider, Used
    <3> HIDE DEF Step
    <3> QED BY <3>1, <3>2
  <2> HIDE DEF Step
  <2> QED BY <1>2, <2>1 DEF Levels
<1>4. Eq(F)
  <2>1. PICK g : Levels(g, t, NENT)
    BY <1>2, LevelsExist
  <2>2. Eq(g)
    BY <1>3, <2>1
  <2> HIDE DEF Eq
  <2> QED BY <2>2
<1>5. Levels(F, t, NENT)
  BY <1>3, <1>4
<1> HIDE DEF F
<1> QED BY <1>1, <1>2, <1>5

(* Each level reaches one entry more, until all are reached.               *)
LEMMA LevelsReach ==
  ASSUME NEW t, Table(t), Rooted(t), NEW g, Levels(g, t, NENT)
  PROVE  {n \in EntryIds : t[n].kind # "free"} \subseteq g[NENT]
<1> DEFINE U == {n \in EntryIds : t[n].kind # "free"}
           Good(k) == /\ g[k] \subseteq EntryIds /\ 0 \in g[k]
                      /\ U \subseteq g[k] \/ Cardinality(g[k]) > k
           Bad == {k \in 0 .. NENT : ~Good(k)}
<1>1. IsFiniteSet(EntryIds) /\ Cardinality(EntryIds) = NENT /\ NENT \in Nat
  BY NentAssumption, FS_Interval DEF EntryIds
<1>2. /\ g[0] = {0}
      /\ \A k \in 1 .. NENT : g[k] = Wider(t, g[k - 1])
  <2>1. \A k \in 0 .. NENT : g[k] = IF k = 0 THEN {0} ELSE Wider(t, g[k - 1])
    BY DEF Levels
  <2>2. 0 \in 0 .. NENT /\ \A k \in 1 .. NENT : k \in 0 .. NENT /\ k # 0
    BY <1>1
  <2> QED BY <2>1, <2>2
<1>3. Bad = {}
  <2> SUFFICES ASSUME Bad # {} PROVE FALSE
    OBVIOUS
  <2> DEFINE k == Min(Bad)
  <2>1. k \in Bad /\ \A j \in Bad : k <= j
    <3>1. Bad \subseteq Nat
      OBVIOUS
    <3> HIDE DEF Bad
    <3> QED BY <3>1, MinIsLeast
  <2> HIDE DEF k
  <2>2. CASE k = 0
    <3>1. Cardinality({0}) = 1
      BY FS_Singleton
    <3>2. Good(0)
      BY <1>2, <3>1, IdsAre
    <3> HIDE DEF Good
    <3> QED BY <2>1, <2>2, <3>2
  <2>3. CASE k # 0
    <3> HIDE DEF Good
    <3>1. k \in 1 .. NENT /\ k - 1 \in 0 .. NENT /\ k - 1 \notin Bad
      <4>1. k \in 0 .. NENT
        BY <2>1
      <4>2. k \in 1 .. NENT /\ k - 1 \in 0 .. NENT /\ ~(k <= k - 1)
        BY <1>1, <2>3, <4>1
      <4> HIDE DEF Bad
      <4> QED BY <2>1, <4>2
    <3>2. Good(k - 1) /\ ~Good(k)
      BY <2>1, <3>1
    <3> DEFINE S == g[k - 1]
               T == g[k]
    <3>3. /\ T = Wider(t, S) /\ S \subseteq EntryIds /\ 0 \in S
          /\ U \subseteq S \/ Cardinality(S) > k - 1
      BY <1>2, <3>1, <3>2 DEF Good
    <3> HIDE DEF S, T
    <3>4. S \subseteq T /\ T \subseteq EntryIds /\ 0 \in T
      BY <3>3 DEF Wider
    <3>5. CASE U \subseteq S
      <4>1. U \subseteq T
        BY <3>4, <3>5
      <4> HIDE DEF U
      <4> QED BY <3>2, <3>4, <4>1 DEF Good, T
    <3>6. CASE ~(U \subseteq S)
      <4>1. PICK rank : IsRank(rank, t)
        BY DEF Rooted
      <4> DEFINE Left == U \ S
                 Ranks == {rank[n] : n \in Left}
      <4>2. Left # {} /\ \A n \in Left : rank[n] \in Nat
        BY <3>6, <4>1 DEF IsRank
      <4>3. Ranks # {} /\ Ranks \subseteq Nat
        BY <4>2
      <4>4. PICK n \in Left : \A m \in Left : rank[n] <= rank[m]
        <5> HIDE DEF Left
        <5>1. Min(Ranks) \in Ranks /\ \A r \in Ranks : Min(Ranks) <= r
          <6> HIDE DEF Ranks
          <6> QED BY <4>3, MinIsLeast
        <5> QED BY <5>1
      <4>5. n \in EntryIds /\ n # 0 /\ t[n].kind # "free" /\ n \notin S
        BY <3>3
      <4>6. t[n].parent \in U
        <5>1. t[n].parent \in EntryIds
          BY <4>5, TableIs
        <5>2. t[t[n].parent].kind # "free"
          BY <4>5, Kinds, TableIs DEF IsHead, IsDir, IsChain
        <5> QED BY <5>1, <5>2
      <4>7. t[n].parent \in S
        <5>1. rank[t[n].parent] < rank[n] /\ rank[n] \in Nat /\ rank[t[n].parent] \in Nat
          BY <4>1, <4>5, <4>6 DEF IsRank
        <5> HIDE DEF U
        <5>2. t[n].parent \notin Left
          BY <4>4, <5>1
        <5> QED BY <4>6, <5>2
      <4>8. n \in T
        BY <3>3, <4>5, <4>7 DEF Wider
      <4>9. IsFiniteSet(S) /\ IsFiniteSet(T)
        BY <1>1, <3>3, <3>4, FS_Subset
      <4>10. Cardinality(S \cup {n}) = Cardinality(S) + 1 /\ IsFiniteSet(S \cup {n})
        BY <4>5, <4>9, FS_AddElement
      <4>11. Cardinality(S \cup {n}) <= Cardinality(T)
        <5>1. S \cup {n} \subseteq T
          BY <3>4, <4>8
        <5> QED BY <4>9, <5>1, FS_Subset
      <4>12. Cardinality(S) \in Nat /\ Cardinality(T) \in Nat
        BY <4>9, FS_CardinalityType
      <4>13. Cardinality(T) > k
        <5> HIDE DEF U
        <5> QED BY <3>1, <3>3, <3>6, <4>10, <4>11, <4>12
      <4> HIDE DEF U
      <4> QED BY <3>2, <3>4, <4>13 DEF Good, T
    <3> QED BY <3>5, <3>6
  <2> QED BY <2>2, <2>3
<1>4. Good(NENT)
  <2> HIDE DEF Good
  <2> QED BY <1>1, <1>3
<1>5. Cardinality(g[NENT]) <= NENT /\ Cardinality(g[NENT]) \in Nat
  BY <1>1, <1>4, FS_Subset, FS_CardinalityType
<1> HIDE DEF U
<1>6. U \subseteq g[NENT]
  BY <1>1, <1>4, <1>5
<1> QED BY <1>6 DEF U

-----------------------------------------------------------------------------
Reached == \A d \in Disks : Rooted(tab[d])

LEMMA DiskNoOrphans ==
  ASSUME Disk, Reached
  PROVE  NoOrphans
<1> SUFFICES ASSUME NEW d \in Disks PROVE {n \in EntryIds : Used(d, n)} \subseteq Below(d)
  BY DEF NoOrphans
<1>1. Table(tab[d]) /\ Rooted(tab[d])
  BY DiskIs DEF Reached
<1>2. PICK g : Levels(g, tab[d], NENT) /\ Below(d) = g[NENT]
  BY BelowIs
<1>3. {n \in EntryIds : tab[d][n].kind # "free"} \subseteq g[NENT]
  BY <1>1, <1>2, LevelsReach
<1> QED BY <1>2, <1>3 DEF Used

LEMMA ReachedStays ==
  ASSUME Orderly, Disk, Reached, RoomBefore, RoomAfter, [WritingNext]_vars
  PROVE  Reached'
<1>1. CASE WritingNext
  <2>1. PICK d, p, u, y : Touched(d, p, u, y)
    BY <1>1, StepIs
  <2>2. tab'[d] = u /\ d \in Disks /\ \A b \in Disks : b # d => tab'[b] = tab[b]
    BY <2>1 DEF Touched, Disk
  <2>3. ~Full(u)
    BY <2>2 DEF RoomAfter
  <2>4. Spared(tab[d], data[d], u, y, p) /\ GoodPath(p)
    BY <2>1, <2>3 DEF Touched
  <2> DEFINE q == Within(tab[d], p)
  <2>5. q = NOT_FOUND \/ (q \in EntryIds /\ IsDir(tab[d], q))
    BY <2>2, <2>4, DiskIs, WithinIs
  <2> HIDE DEF q
  <2>6. Rooted(u)
    BY <2>2, <2>4, <2>5, DiskIs, RootedStays DEF Reached, Spared, q
  <2> QED BY <2>2, <2>6 DEF Reached
<1>2. CASE UNCHANGED vars
  BY <1>2 DEF vars, Reached
<1> QED BY <1>1, <1>2

LEMMA InitReached ==
  Init => Reached
BY FreshRooted DEF Init, Reached
-----------------------------------------------------------------------------
(* The way to an entry that is there, name by name.                        *)
LEMMA TrailThere ==
  ASSUME NEW t, NEW comps, NEW n \in Nat, NEW g, Trail(g, t, 0, comps, n), ~IsError(g[n]), NEW i \in 0 .. n
  PROVE  ~IsError(g[i])
<1>1. \A k \in 0 .. n : g[k] = IF k = 0 THEN 0 ELSE Onward(t, g[k - 1], comps[k])
  BY DEF Trail
<1> DEFINE Bad == {j \in 0 .. n : IsError(g[n - j])}
<1>2. Bad = {}
  <2> SUFFICES ASSUME Bad # {} PROVE FALSE
    OBVIOUS
  <2> DEFINE j == Min(Bad)
  <2>1. j \in Bad /\ \A l \in Bad : j <= l
    <3>1. Bad \subseteq Nat
      OBVIOUS
    <3> QED BY <3>1, MinIsLeast
  <2> HIDE DEF j
  <2>2. j \in 0 .. n /\ IsError(g[n - j]) /\ j # 0
    BY <2>1
  <2>3. j - 1 \in 0 .. n /\ j - 1 \notin Bad
    BY <2>1, <2>2
  <2> DEFINE k == n - j + 1
  <2>4. k \in 0 .. n /\ k # 0 /\ k - 1 = n - j /\ n - (j - 1) = k
    BY <2>2
  <2> HIDE DEF k
  <2>5. g[k] = Onward(t, g[k - 1], comps[k])
    BY <1>1, <2>4
  <2>6. ~IsError(g[k])
    BY <2>3, <2>4
  <2>7. IsError(g[k - 1])
    BY <2>2, <2>4
  <2> QED BY <2>5, <2>6, <2>7 DEF Onward
<1>3. n - i \in 0 .. n /\ n - (n - i) = i
  OBVIOUS
<1> QED BY <1>2, <1>3

LEMMA TrailStep ==
  ASSUME NEW t, NEW comps, NEW n \in Nat, NEW g, Trail(g, t, 0, comps, n), ~IsError(g[n]),
         NEW k \in 1 .. n, NEW j, j = k - 1
  PROVE  /\ g[k] = LookupIn(t, g[j], comps[k]) /\ g[k] \in EntryIds
         /\ t[g[k]].parent = g[j] /\ t[g[k]].name = comps[k] /\ t[g[k]].kind # "free"
<1>1. \A i \in 0 .. n : g[i] = IF i = 0 THEN 0 ELSE Onward(t, g[i - 1], comps[i])
  BY DEF Trail
<1>2. k \in 0 .. n /\ k # 0 /\ j \in 0 .. n
  OBVIOUS
<1>3. ~IsError(g[k]) /\ ~IsError(g[j])
  BY <1>2, TrailThere
<1>4. g[k] = LookupIn(t, g[j], comps[k])
  BY <1>1, <1>2, <1>3 DEF Onward
<1> QED BY <1>3, <1>4, LookupIs

LEMMA TrailPart ==
  ASSUME NEW t, NEW from, NEW comps, NEW m \in Nat, NEW n \in Nat, m <= n,
         NEW g, Trail(g, t, from, comps, m), NEW h, Trail(h, t, from, comps, n), NEW k \in 0 .. m
  PROVE  g[k] = h[k]
<1>1. \A i \in 1 .. m : comps[i] = comps[i]
  OBVIOUS
<1> QED BY <1>1, TrailUnique

(* Two ways from the root to the same entry are the same.                  *)
LEMMA SameWay ==
  ASSUME NEW t, Table(t), NEW a, NEW m \in Nat, NEW g, Trail(g, t, 0, a, m),
         NEW b, NEW n \in Nat, NEW h, Trail(h, t, 0, b, n), g[m] = h[n], ~IsError(g[m]),
         \A k \in 1 .. m : a[k] # ROOT_DIR_NAME, \A k \in 1 .. n : b[k] # ROOT_DIR_NAME
  PROVE  m = n /\ \A k \in 1 .. m : a[k] = b[k]
<1>1. /\ g[0] = 0 /\ \A k \in 1 .. m : t[g[k]].parent = g[k - 1] /\ t[g[k]].name = a[k]
      /\ h[0] = 0 /\ \A k \in 1 .. n : t[h[k]].parent = h[k - 1] /\ t[h[k]].name = b[k]
  <2>1. g[0] = 0 /\ h[0] = 0
    BY DEF Trail
  <2>2. ASSUME NEW k \in 1 .. m PROVE t[g[k]].parent = g[k - 1] /\ t[g[k]].name = a[k]
    BY TrailStep
  <2>3. ASSUME NEW k \in 1 .. n PROVE t[h[k]].parent = h[k - 1] /\ t[h[k]].name = b[k]
    <3>1. ~IsError(h[n])
      OBVIOUS
    <3> QED BY <3>1, TrailStep
  <2> QED BY <2>1, <2>2, <2>3
<1> DEFINE Bad == {j \in Nat : j <= m /\ j <= n /\ g[m - j] # h[n - j]}
<1>2. Bad = {}
  <2> SUFFICES ASSUME Bad # {} PROVE FALSE
    OBVIOUS
  <2> DEFINE j == Min(Bad)
  <2>1. j \in Bad /\ \A i \in Bad : j <= i
    <3>1. Bad \subseteq Nat
      OBVIOUS
    <3> QED BY <3>1, MinIsLeast
  <2> HIDE DEF j
  <2>2. j \in Nat /\ j <= m /\ j <= n /\ g[m - j] # h[n - j] /\ j # 0
    BY <2>1
  <2>3. j - 1 \in Nat /\ j - 1 <= m /\ j - 1 <= n /\ j - 1 \notin Bad
    BY <2>1, <2>2
  <2> DEFINE k == m - j + 1
             l == n - j + 1
  <2>4. /\ k \in 1 .. m /\ k - 1 = m - j /\ m - (j - 1) = k
        /\ l \in 1 .. n /\ l - 1 = n - j /\ n - (j - 1) = l
    BY <2>2
  <2> HIDE DEF k, l
  <2>5. g[k] = h[l]
    BY <2>3, <2>4
  <2>6. g[k - 1] = h[l - 1]
    BY <1>1, <2>4, <2>5
  <2> QED BY <2>2, <2>4, <2>6
<1>3. t[0].name = ROOT_DIR_NAME
  BY DEF Table, RootThere
<1>4. ~(m < n)
  <2> SUFFICES ASSUME m < n PROVE FALSE
    OBVIOUS
  <2>1. m \notin Bad
    BY <1>2
  <2>2. g[m - m] = h[n - m]
    BY <2>1
  <2>3. m - m = 0 /\ n - m \in 1 .. n
    OBVIOUS
  <2>4. h[n - m] = 0
    BY <1>1, <2>2, <2>3
  <2> QED BY <1>1, <1>3, <2>3, <2>4
<1>5. ~(n < m)
  <2> SUFFICES ASSUME n < m PROVE FALSE
    OBVIOUS
  <2>1. n \notin Bad
    BY <1>2
  <2>2. g[m - n] = h[n - n]
    BY <2>1
  <2>3. n - n = 0 /\ m - n \in 1 .. m
    OBVIOUS
  <2>4. g[m - n] = 0
    BY <1>1, <2>2, <2>3
  <2> QED BY <1>1, <1>3, <2>3, <2>4
<1>6. m = n
  BY <1>4, <1>5
<1>7. ASSUME NEW k \in 1 .. m PROVE a[k] = b[k]
  <2>1. m - k \in Nat /\ m - k <= m /\ m - k <= n /\ m - (m - k) = k /\ n - (m - k) = k
    BY <1>6
  <2>2. m - k \notin Bad
    BY <1>2
  <2>3. g[m - (m - k)] = h[n - (m - k)]
    BY <2>1, <2>2
  <2>4. g[k] = h[k] /\ k \in 1 .. n
    BY <1>6, <2>1, <2>3
  <2> QED BY <1>1, <2>4
<1> QED BY <1>6, <1>7

LEMMA PrefixIs ==
  ASSUME NEW a, IsSeq(a), NEW b, IsSeq(b), Len(a) <= Len(b), \A k \in 1 .. Len(a) : a[k] = b[k]
  PROVE  SubSeq(b, 1, Len(a)) = a
<1> DEFINE S == {b[k] : k \in DOMAIN b}
           c == SubSeq(b, 1, Len(a))
<1>1. Len(a) \in Nat /\ Len(b) \in Nat /\ b \in Seq(S)
  BY SeqLen DEF IsSeq
<1> HIDE DEF S
<1>2. c = [k \in 1 .. Len(a) |-> b[k]]
  BY <1>1
<1> HIDE DEF c
<1>3. IsSeq(c) /\ Len(c) = Len(a)
  BY <1>1, <1>2, SeqFun
<1>4. c = a
  BY <1>1, <1>2, <1>3, SeqSame
<1> QED BY <1>4 DEF c

(* The directories along the way to a good path.                           *)
LEMMA GoodTrail ==
  ASSUME NEW t, Table(t), NEW p, GoodPath(p), NEW g, Trail(g, t, 0, p.comps, Len(p.comps))
  PROVE  /\ Len(p.comps) \in Nat /\ Len(p.comps) >= 1
         /\ \A k \in 1 .. Len(p.comps) : p.comps[k] # ROOT_DIR_NAME
         /\ \A k \in 1 .. Len(p.comps) :
              g[k - 1] = NOT_FOUND \/ (g[k - 1] \in EntryIds /\ IsDir(t, g[k - 1]))
<1>1. Len(p.comps) \in Nat /\ Len(p.comps) >= 1
  BY SeqLen, FrontIs DEF GoodPath, IsPath
<1>2. \A k \in 1 .. Len(p.comps) : p.comps[k] # ROOT_DIR_NAME
  BY DEF GoodPath, IsPath, Comps
<1>3. PICK m \in Nat : m = Len(p.comps) - 1
  BY <1>1
<1>4. PICK h : Trail(h, t, 0, p.comps, m)
  BY TrailExists
<1>5. \A k \in 1 .. m : p.comps[k] \notin FileNames
  BY <1>3 DEF GoodPath
<1>6. \A k \in 0 .. m : h[k] = NOT_FOUND \/ (h[k] \in EntryIds /\ IsDir(t, h[k]))
  BY <1>4, <1>5, TrailDirs
<1>7. \A k \in 0 .. m : h[k] = g[k]
  <2>1. PICK n \in Nat : n = Len(p.comps)
    BY <1>1
  <2> DEFINE comps == p.comps
  <2>2. m <= n /\ Trail(g, t, 0, comps, n) /\ Trail(h, t, 0, comps, m)
    BY <1>1, <1>3, <1>4, <2>1
  <2> HIDE DEF comps
  <2> QED BY <2>2, TrailPart
<1>8. \A k \in 1 .. Len(p.comps) : k - 1 \in 0 .. m
  BY <1>1, <1>3
<1> QED BY <1>1, <1>2, <1>6, <1>7, <1>8
-----------------------------------------------------------------------------
(* A path the call does not concern never passes through what it names.    *)
LEMMA OffPath ==
  ASSUME NEW t, Table(t), NEW p, GoodPath(p), NEW q, GoodPath(q), p.disk = q.disk, ~IsAbove(p, q),
         NEW g, Trail(g, t, 0, q.comps, Len(q.comps)), NEW k \in 1 .. Len(q.comps),
         NEW j, j = k - 1, ~IsError(g[j]), q.comps[k] = NameOf(p)
  PROVE  g[j] # Within(t, p)
<1> SUFFICES ASSUME g[j] = Within(t, p) PROVE FALSE
  OBVIOUS
<1> DEFINE f == Front(p.comps)
           m == Len(f)
<1>1. /\ IsSeq(f) /\ m \in Nat /\ m = Len(p.comps) - 1 /\ Len(p.comps) \in Nat
      /\ \A i \in 1 .. m : f[i] = p.comps[i]
  BY FrontIs, SeqLen DEF GoodPath, IsPath
<1>2. Len(q.comps) \in Nat
  BY SeqLen DEF GoodPath, IsPath
<1>3. Within(t, p) = Walk(t, 0, f)
  BY DEF Within
<1> HIDE DEF f, m
<1>4. PICK h : Trail(h, t, 0, f, m)
  BY <1>1, TrailExists
<1>5. Within(t, p) = h[m]
  BY <1>1, <1>3, <1>4, WalkTrail DEF m
<1>6. j \in Nat /\ j <= Len(q.comps)
  BY <1>2
<1>7. PICK e : Trail(e, t, 0, q.comps, j)
  BY <1>6, TrailExists
<1>8. e[j] = g[j]
  <2> DEFINE comps == q.comps
             n == Len(q.comps)
  <2>1. PICK l \in Nat : l = j
    BY <1>6
  <2>2. n \in Nat /\ l <= n /\ Trail(g, t, 0, comps, n) /\ Trail(e, t, 0, comps, l)
    BY <1>2, <1>6, <1>7, <2>1
  <2> HIDE DEF comps, n
  <2>3. \A i \in 0 .. l : e[i] = g[i]
    BY <2>2, TrailPart
  <2> QED BY <2>1, <2>3
<1>9. \A i \in 1 .. m : f[i] # ROOT_DIR_NAME
  <2>1. \A i \in 1 .. m : i \in 1 .. Len(p.comps)
    BY <1>1
  <2> QED BY <1>1, <2>1 DEF GoodPath, IsPath, Comps
<1>10. \A i \in 1 .. j : q.comps[i] # ROOT_DIR_NAME
  <2>1. \A i \in 1 .. j : i \in 1 .. Len(q.comps)
    BY <1>2, <1>6
  <2> QED BY <2>1 DEF GoodPath, IsPath, Comps
<1>11. m = j /\ \A i \in 1 .. m : f[i] = q.comps[i]
  <2>1. PICK l \in Nat : l = j
    BY <1>6
  <2>2. PICK w \in Nat : w = m
    BY <1>1
  <2>3. PICK a : a = f
    OBVIOUS
  <2>4. PICK c : c = q.comps
    OBVIOUS
  <2>5. Trail(h, t, 0, a, w) /\ Trail(e, t, 0, c, l)
    BY <1>4, <1>7, <2>1, <2>2, <2>3, <2>4
  <2>6. (\A i \in 1 .. w : a[i] # ROOT_DIR_NAME) /\ \A i \in 1 .. l : c[i] # ROOT_DIR_NAME
    BY <1>9, <1>10, <2>1, <2>2, <2>3, <2>4
  <2>7. h[w] = e[l] /\ ~IsError(h[w])
    BY <1>5, <1>8, <2>1, <2>2
  <2>8. w = l /\ \A i \in 1 .. w : a[i] = c[i]
    BY <2>5, <2>6, <2>7, SameWay
  <2> QED BY <2>1, <2>2, <2>3, <2>4, <2>8
<1>12. Len(p.comps) = k /\ Len(p.comps) <= Len(q.comps)
  BY <1>1, <1>2, <1>11
<1>13. \A i \in 1 .. Len(p.comps) : p.comps[i] = q.comps[i]
  <2> SUFFICES ASSUME NEW i \in 1 .. Len(p.comps) PROVE p.comps[i] = q.comps[i]
    OBVIOUS
  <2>1. CASE i = k
    BY <1>12, <2>1 DEF NameOf
  <2>2. CASE i # k
    <3>1. i \in 1 .. m
      BY <1>1, <1>12, <2>2
    <3> QED BY <1>1, <1>11, <3>1
  <2> QED BY <2>1, <2>2
<1>14. SubSeq(q.comps, 1, Len(p.comps)) = p.comps
  BY <1>12, <1>13, PrefixIs DEF GoodPath, IsPath
<1> QED BY <1>12, <1>14 DEF IsAbove

(* Other names in a directory lead where they led.                         *)
LEMMA LookupKept ==
  ASSUME NEW t, Table(t), NEW x, NEW u, Table(u), NEW y, NEW p, NEW name,
         Spares(t, x, u, y, p, name), NEW a \in EntryIds, IsDir(t, a), NEW other,
         ~(a = p /\ other = name)
  PROVE  LookupIn(u, a, other) = LookupIn(t, a, other) /\ IsDir(u, a)
<1>1. IsDir(u, a)
  BY DEF Spares, IsDir
<1>2. ASSUME NEW k \in EntryIds
      PROVE  (t[k].parent = a /\ t[k].name = other /\ t[k].kind # "free") <=>
             (u[k].parent = a /\ u[k].name = other /\ u[k].kind # "free")
  <2>1. CASE t[k].kind # "free"
    BY <2>1 DEF Spares
  <2>2. CASE t[k].kind = "free"
    <3>1. u[k].kind # "free" => (u[k].parent = p /\ u[k].name = name) \/ IsChain(u, k)
      BY <2>2 DEF Spares
    <3>2. IsChain(u, k) => u[k].parent # a
      BY <1>1 DEF IsChain, IsDir
    <3> QED BY <2>2, <3>1, <3>2
  <2> QED BY <2>1, <2>2
<1> QED BY <1>1, <1>2, LookupSame

LEMMA TrailKept ==
  ASSUME NEW t, Table(t), NEW x, NEW u, NEW y, NEW p, GoodPath(p), Spared(t, x, u, y, p),
         NEW q, GoodPath(q), p.disk = q.disk, ~IsAbove(p, q), NEW n, n = Len(q.comps),
         NEW g, Trail(g, t, 0, q.comps, n), NEW h, Trail(h, u, 0, q.comps, n)
  PROVE  \A k \in 0 .. n : h[k] = g[k]
<1> DEFINE Wrong == {k \in 0 .. n : h[k] # g[k]}
<1> SUFFICES ASSUME Wrong # {} PROVE FALSE
  OBVIOUS
<1>1. /\ n \in Nat
      /\ \A k \in 1 .. n : g[k - 1] = NOT_FOUND \/ (g[k - 1] \in EntryIds /\ IsDir(t, g[k - 1]))
  BY GoodTrail
<1>2. PICK k \in Wrong : \A i \in Wrong : k <= i
  <2>1. Wrong \in SUBSET Nat
    OBVIOUS
  <2> HIDE DEF Wrong
  <2> QED BY <2>1, MinIsLeast
<1>3. /\ \A i \in 0 .. n : g[i] = IF i = 0 THEN 0 ELSE Onward(t, g[i - 1], q.comps[i])
      /\ \A i \in 0 .. n : h[i] = IF i = 0 THEN 0 ELSE Onward(u, h[i - 1], q.comps[i])
  BY DEF Trail
<1>4. k \in 0 .. n /\ k # 0 /\ h[k] # g[k]
  BY <1>3
<1>5. PICK j : j = k - 1
  OBVIOUS
<1>6. k \in 1 .. n /\ j \in 0 .. n /\ j \notin Wrong
  BY <1>1, <1>2, <1>4, <1>5
<1>7. h[j] = g[j]
  BY <1>6
<1> HIDE DEF Wrong
<1>8. g[k] = Onward(t, g[j], q.comps[k]) /\ h[k] = Onward(u, g[j], q.comps[k])
  BY <1>3, <1>4, <1>5, <1>7
<1>9. g[j] = NOT_FOUND \/ (g[j] \in EntryIds /\ IsDir(t, g[j]))
  BY <1>1, <1>5, <1>6
<1>10. CASE IsError(g[j])
  BY <1>4, <1>8, <1>10 DEF Onward
<1>11. CASE ~IsError(g[j])
  <2>1. g[j] \in EntryIds /\ IsDir(t, g[j])
    BY <1>9, <1>11 DEF IsError, NOT_FOUND
  <2>2. ~(g[j] = Within(t, p) /\ q.comps[k] = NameOf(p))
    BY <1>5, <1>6, <1>11, OffPath
  <2>3. LookupIn(u, g[j], q.comps[k]) = LookupIn(t, g[j], q.comps[k])
    BY <2>1, <2>2, LookupKept DEF Spared
  <2> QED BY <1>4, <1>8, <1>11, <2>3 DEF Onward
<1> QED BY <1>10, <1>11

(* What a path reads as, when it leads to entry n.                         *)
Reads(t, x, n) ==
  CASE IsError(n) -> Absent
    [] ~IsError(n) /\ t[n].kind = "dir" -> ADir
    [] OTHER -> [kind |-> "file", data |-> [i \in 1 .. t[n].size |-> BlockAt(t, x, n, i - 1)]]

LEMMA FileReads ==
  ASSUME NEW t, Table(t), NEW x, NEW n \in EntryIds, IsFile(t, n)
  PROVE  Reads(t, x, n) = [kind |-> "file", data |-> [i \in 1 .. t[n].size |-> x[t[n].ref[i - 1]]]]
<1>1. ~IsError(n) /\ t[n].kind # "dir"
  BY IdsAre DEF IsFile
<1>2. t[n].size \in Nat /\ t[n].size <= ENTRYREFS /\ ENTRYREFS \in Nat
  BY TableIs, Kinds, RefsAssumption
<1>3. ASSUME NEW i \in 1 .. t[n].size
      PROVE  BlockAt(t, x, n, i - 1) = x[t[n].ref[i - 1]]
  <2>1. i - 1 \in RefIds
    BY <1>2 DEF RefIds
  <2> DEFINE j == i - 1
  <2> HIDE DEF j
  <2>2. j \in RefIds
    BY <2>1 DEF j
  <2>3. get_nref_entry_from_entry(t, n, j) = n /\ j % ENTRYREFS = j
    BY <2>2, SmallIndex DEF get_nref_entry_from_entry
  <2>4. BlockAt(t, x, n, j) = x[t[n].ref[j]]
    BY <2>3 DEF BlockAt
  <2> QED BY <2>4 DEF j
<1>4. [i \in 1 .. t[n].size |-> BlockAt(t, x, n, i - 1)] = [i \in 1 .. t[n].size |-> x[t[n].ref[i - 1]]]
  BY <1>3
<1> QED BY <1>1, <1>4 DEF Reads

LEMMA ContentKept ==
  ASSUME NEW t, Table(t), NEW x, NEW u, NEW y, NEW p, GoodPath(p), Spared(t, x, u, y, p),
         NEW q, GoodPath(q), p.disk = q.disk, ~IsAbove(p, q)
  PROVE  Content(u, y, q) = Content(t, x, q)
<1> DEFINE comps == q.comps
           n == Len(comps)
<1>1. IsSeq(comps) /\ comps # <<>> /\ n \in Nat /\ n >= 1
  BY SeqLen, FrontIs DEF GoodPath, IsPath
<1>2. PICK g : Trail(g, t, 0, comps, n)
  BY <1>1, TrailExists
<1>3. PICK h : Trail(h, u, 0, comps, n)
  BY <1>1, TrailExists
<1> DEFINE r == g[n]
<1>4. Resolve(t, q) = r /\ Resolve(u, q) = h[n]
  <2>1. Resolve(t, q) = Walk(t, 0, comps) /\ Resolve(u, q) = Walk(u, 0, comps)
    BY <1>1 DEF Resolve
  <2>2. Walk(t, 0, comps) = g[n] /\ Walk(u, 0, comps) = h[n]
    <3> HIDE DEF comps
    <3> QED BY <1>1, <1>2, <1>3, WalkTrail
  <2> QED BY <2>1, <2>2
<1>5. h[n] = r
  <2>1. \A k \in 0 .. n : h[k] = g[k]
    BY <1>2, <1>3, TrailKept
  <2>2. n \in 0 .. n
    BY <1>1
  <2> QED BY <2>1, <2>2
<1>6. Content(t, x, q) = Reads(t, x, r) /\ Content(u, y, q) = Reads(u, y, r)
  <2> HIDE DEF r, n
  <2> QED BY <1>4, <1>5, Zenon DEF Content, Reads
<1>7. CASE IsError(r)
  BY <1>6, <1>7 DEF Reads
<1>8. CASE ~IsError(r)
  <2>1. PICK j : j = n - 1
    OBVIOUS
  <2>2. n \in 1 .. n
    BY <1>1
  <2>3. /\ r \in EntryIds /\ t[r].kind # "free" /\ t[r].parent = g[j] /\ t[r].name = comps[n]
    <3> HIDE DEF comps, n
    <3> QED BY <1>1, <1>2, <1>8, <2>1, <2>2, TrailStep
  <2>4. g[j] = NOT_FOUND \/ (g[j] \in EntryIds /\ IsDir(t, g[j]))
    BY <1>2, <2>1, <2>2, GoodTrail
  <2>5. t[r].parent \in EntryIds /\ t[r].kind \in {"dir", "file"}
    BY <2>3, TableIs
  <2>6. g[j] \in EntryIds /\ IsDir(t, g[j]) /\ ~IsError(g[j])
    BY <2>3, <2>4, <2>5, IdsAre DEF NOT_FOUND
  <2>7. CASE t[r].kind = "dir"
    <3>1. u[r].kind = "dir"
      BY <2>3, <2>7 DEF Spared, Spares
    <3> HIDE DEF r
    <3> QED BY <1>6, <1>8, <2>7, <3>1 DEF Reads
  <2>8. CASE t[r].kind = "file"
    <3>1. IsFile(t, r)
      BY <2>3, <2>6, <2>8 DEF IsFile
    <3>2. ~(t[r].parent = Within(t, p) /\ t[r].name = NameOf(p))
      <4> HIDE DEF r
      <4> QED BY <1>2, <2>1, <2>2, <2>3, <2>6, OffPath
    <3> HIDE DEF r
    <3>3. u[r] = t[r] /\ \A i \in RefIds : i < t[r].size => y[t[r].ref[i]] = x[t[r].ref[i]]
      BY <2>3, <3>1, <3>2 DEF Spared, Spares
    <3>4. IsFile(u, r) /\ Table(u)
      <4>1. IsDir(u, t[r].parent)
        BY <2>3, <2>6 DEF Spared, Spares, IsDir
      <4> QED BY <3>1, <3>3, <4>1 DEF IsFile, Spared
    <3>5. t[r].size \in Nat /\ t[r].size <= ENTRYREFS
      BY <2>3, <3>1, TableIs, Kinds
    <3>6. \A i \in 1 .. t[r].size : i - 1 \in RefIds /\ i - 1 < t[r].size
      BY <3>5, RefsAssumption DEF RefIds
    <3>7. [i \in 1 .. t[r].size |-> y[t[r].ref[i - 1]]] = [i \in 1 .. t[r].size |-> x[t[r].ref[i - 1]]]
      BY <3>3, <3>6
    <3>8. Reads(t, x, r) = [kind |-> "file", data |-> [i \in 1 .. t[r].size |-> x[t[r].ref[i - 1]]]]
      BY <2>3, <3>1, FileReads
    <3>9. Reads(u, y, r) = [kind |-> "file", data |-> [i \in 1 .. u[r].size |-> y[u[r].ref[i - 1]]]]
      BY <2>3, <3>4, FileReads
    <3>10. Reads(u, y, r) = [kind |-> "file", data |-> [i \in 1 .. t[r].size |-> y[t[r].ref[i - 1]]]]
      BY <3>3, <3>9
    <3>11. Reads(t, x, r) = Reads(u, y, r)
      BY <3>7, <3>8, <3>10
    <3> QED BY <1>6, <3>11
  <2> QED BY <2>5, <2>7, <2>8
<1> QED BY <1>7, <1>8

LEMMA OthersKept ==
  ASSUME Orderly, OrderlyPaths, Disk, RoomBefore, RoomAfter, [WritingNext]_vars,
         NEW q \in Universe, q \notin Concerned(call')
  PROVE  TreeOf(tab', data')[q] = Tree[q]
<1>1. GoodPath(q) /\ q.disk \in Disks
  <2>1. IsPath(q) /\ Inner(q) \cap FileNames = {}
    BY DEF OrderlyPaths
  <2> QED BY <2>1 DEF GoodPath, IsPath, Inner
<1>2. /\ Tree[q] = Content(tab[q.disk], data[q.disk], q)
      /\ TreeOf(tab', data')[q] = Content(tab'[q.disk], data'[q.disk], q)
  BY DEF Tree, TreeOf
<1>3. CASE WritingNext
  <2>1. PICK d, p, u, y : Touched(d, p, u, y)
    BY <1>3, StepIs
  <2>2. /\ tab'[d] = u /\ data'[d] = y /\ d \in Disks
        /\ \A b \in Disks : b # d => tab'[b] = tab[b] /\ data'[b] = data[b]
    BY <2>1 DEF Touched, Disk
  <2>3. Spared(tab[d], data[d], u, y, p) /\ GoodPath(p) /\ p.disk = d
    BY <2>1, <2>2 DEF Touched, RoomAfter
  <2>4. ~IsAbove(p, q)
    BY <2>1 DEF Touched, Concerned
  <2>5. CASE q.disk = d
    <3>1. Table(tab[d])
      BY <2>2, DiskIs
    <3>2. Content(u, y, q) = Content(tab[d], data[d], q)
      BY <1>1, <2>3, <2>4, <2>5, <3>1, ContentKept
    <3> QED BY <1>2, <2>2, <2>5, <3>2
  <2>6. CASE q.disk # d
    BY <1>1, <1>2, <2>2, <2>6
  <2> QED BY <2>5, <2>6
<1>4. CASE UNCHANGED vars
  BY <1>2, <1>4 DEF vars
<1> QED BY <1>3, <1>4

-----------------------------------------------------------------------------
(* The theorems.  All of them are about programs that write files from     *)
(* their start on, into the references of one entry, and create            *)
(* directories, on disks with room: Orderly says so of the calls, and      *)
(* []Roomy of the behaviour.  The disk without room and the directory      *)
(* without are what the runs "full" and "bigdir" show.                     *)

LEMMA WritingReached ==
  ASSUME Orderly
  PROVE  WritingSpec /\ []Roomy => [](Disk /\ Reached)
<1>1. Disk /\ Reached /\ Roomy /\ Roomy' /\ [WritingNext]_vars => Disk' /\ Reached'
  BY DiskStays, ReachedStays, RoomyIs, RoomyAfter
<1> QED BY InitDisk, InitReached, <1>1, PTL DEF WritingSpec

(* Entries, blocks and references stay within the layout of the disk.      *)
THEOREM WritingType ==
  ASSUME Orderly
  PROVE  WritingSpec /\ []Roomy => []TypeOK
BY WritingDisk, DiskTypeOK, PTL

(* fs.h:80-97: next and parent agree on every chain that a file that grows *)
(* builds, one entry at a time (set_entry_refcount).                       *)
THEOREM WritingChains ==
  ASSUME Orderly
  PROVE  WritingSpec /\ []Roomy => []ChainsSound
BY WritingDisk, DiskChainsSound, PTL

(* README.md:153: no two entries of a directory have one name, and looking *)
(* a name up finds its file and no entry chained to another.               *)
THEOREM WritingNames ==
  ASSUME Orderly
  PROVE  WritingSpec /\ []Roomy => []NamesUnique
BY WritingDisk, DiskNamesUnique, PTL

(* No two positions within files share a block, though find_free_block     *)
(* only looks at sizes and every call searches for itself.                 *)
THEOREM WritingBlocks ==
  ASSUME Orderly
  PROVE  WritingSpec /\ []Roomy => []BlocksOwned
BY WritingDisk, DiskBlocksOwned, PTL

(* The boot block and the boot program survive all the others write.       *)
THEOREM WritingBoots ==
  ASSUME Orderly
  PROVE  WritingSpec /\ []Roomy => []Bootable
BY WritingDisk, DiskBootable, PTL

(* A directory lists what it is the parent of, each once.                  *)
THEOREM WritingDirectories ==
  ASSUME Orderly
  PROVE  WritingSpec /\ []Roomy => []DirectoriesConsistent
BY WritingDisk, DiskDirectories, PTL

(* Whatever is stored on a disk can be reached from its root.              *)
THEOREM WritingTree ==
  ASSUME Orderly
  PROVE  WritingSpec /\ []Roomy => []NoOrphans
BY WritingReached, DiskNoOrphans, PTL

(* A call changes what it names and nothing else: every other path reads   *)
(* the same before and after.                                              *)
THEOREM WritingLeavesOthers ==
  ASSUME Orderly, OrderlyPaths
  PROVE  WritingSpec /\ []Roomy => OthersUntouched
<1>1. ASSUME Disk, Roomy, Roomy', [WritingNext]_vars
      PROVE  [\A q \in Universe \ Concerned(call') : TreeOf(tab', data')[q] = Tree[q]]_vars
  BY <1>1, OthersKept, RoomyIs, RoomyAfter
<1> QED BY <1>1, WritingDisk, PTL DEF WritingSpec, OthersUntouched
-----------------------------------------------------------------------------
(* Room is no wish: a disk with more data blocks than all entries hold     *)
(* references has a block left whatever they hold, and a directory has     *)
(* room when there are fewer names than references.  fs_format makes at    *)
(* most 1024 entries of 120 references: a disk of 64 MB is such a disk.    *)
Names == DirNames \cup FileNames
Ample == /\ NBLK > NENT * ENTRYREFS
         /\ IsFiniteSet(Names) /\ Cardinality(Names) < ENTRYREFS

LEMMA AmpleBlocks ==
  ASSUME Ample, NEW t \in Tables
  PROVE  ~IsError(BlockIn(t))
<1> DEFINE P == EntryIds \X RefIds
           f == [z \in P |-> t[z[1]].ref[z[2]]]
           R == {f[z] : z \in P}
           free == DataBlocks \ UNION {CountedBlocks(t[n]) : n \in EntryIds}
<1>1. IsFiniteSet(P) /\ Cardinality(P) = NENT * ENTRYREFS
  <2>1. IsFiniteSet(EntryIds) /\ Cardinality(EntryIds) = NENT
    BY NentAssumption, FS_Interval DEF EntryIds
  <2>2. IsFiniteSet(RefIds) /\ Cardinality(RefIds) = ENTRYREFS
    BY RefsAssumption, FS_Interval DEF RefIds
  <2> QED BY <2>1, <2>2, FS_Product
<1>2. IsFiniteSet(R) /\ Cardinality(R) <= NENT * ENTRYREFS
  <2>1. f \in Surjection(P, R)
    BY DEF Surjection
  <2> HIDE DEF P, f, R
  <2> QED BY <1>1, <2>1, FS_Surjection
<1>3. \A n \in EntryIds : CountedBlocks(t[n]) \subseteq R
  <2> SUFFICES ASSUME NEW n \in EntryIds, NEW b \in CountedBlocks(t[n]) PROVE b \in R
    OBVIOUS
  <2>1. t[n].size \in Nat
    BY EntryIs DEF Tables
  <2>2. PICK i \in 0 .. Lower(t[n].size, ENTRYREFS) - 1 : b = t[n].ref[i]
    BY DEF CountedBlocks
  <2>3. i \in RefIds
    BY <2>1, <2>2, RefsAssumption DEF RefIds, Lower
  <2>4. <<n, i>> \in P /\ b = f[<<n, i>>]
    BY <2>2, <2>3
  <2> HIDE DEF P, f
  <2> QED BY <2>4
<1>4. IsFiniteSet(DataBlocks) /\ Cardinality(DataBlocks) = NBLK
  <2>1. FirstData \in Int /\ FirstData + NBLK - 1 \in Int /\ ~(FirstData > FirstData + NBLK - 1)
    BY NentAssumption, NblkAssumption DEF FirstData
  <2>2. (FirstData + NBLK - 1) - FirstData + 1 = NBLK
    BY NentAssumption, NblkAssumption DEF FirstData
  <2> QED BY <2>1, <2>2, FS_Interval DEF DataBlocks
<1> HIDE DEF R
<1>5. free # {}
  <2> SUFFICES ASSUME free = {} PROVE FALSE
    OBVIOUS
  <2>1. DataBlocks \subseteq R
    BY <1>3
  <2>2. Cardinality(DataBlocks) <= Cardinality(R)
    BY <1>2, <2>1, FS_Subset
  <2>3. Cardinality(R) \in Nat /\ NENT * ENTRYREFS \in Nat
    BY <1>2, FS_CardinalityType, NentAssumption, RefsAssumption
  <2> QED BY <1>2, <1>4, <2>2, <2>3, NblkAssumption DEF Ample
<1>6. BlockIn(t) = Min(free)
  BY <1>5, Zenon DEF BlockIn
<1>7. free \subseteq Nat
  BY IdsAre
<1> HIDE DEF free
<1>8. Min(free) \in Nat
  BY <1>5, <1>7, MinIsLeast
<1> QED BY <1>6, <1>8 DEF IsError

LEMMA AmpleDirectories ==
  ASSUME Ample, NEW t, Table(t), NEW p \in EntryIds, IsDir(t, p)
  PROVE  t[p].size < ENTRYREFS
<1> DEFINE S == 0 .. t[p].size - 1
           f == [i \in S |-> t[t[p].ref[i]].name]
<1>1. t[p].size \in Nat /\ t[p].size <= ENTRYREFS /\ S \subseteq RefIds
  BY TableIs, Kinds, RefsAssumption DEF RefIds
<1>2. \A i \in S : i \in RefIds /\ i < t[p].size
  BY <1>1
<1>3. \A i \in S : /\ t[p].ref[i] \in EntryIds
                   /\ IsHead(t, t[p].ref[i]) /\ t[t[p].ref[i]].parent = p
  BY <1>2 DEF Table, DirsSound, Lists
<1>4. \A i \in S : f[i] \in Names
  BY <1>3, Kinds DEF IsHead, IsFile, Names
<1>5. \A i, j \in S : f[i] = f[j] => i = j
  <2> SUFFICES ASSUME NEW i \in S, NEW j \in S, f[i] = f[j] PROVE i = j
    OBVIOUS
  <2>1. t[p].ref[i] = t[p].ref[j]
    BY <1>3 DEF Table, Unique
  <2> QED BY <1>2, <2>1 DEF Table, Lists
<1>6. f \in Injection(S, Names)
  <2>1. f \in [S -> Names]
    BY <1>4
  <2> HIDE DEF f, S
  <2> QED BY <1>5, <2>1, Fun_IsInj
<1> HIDE DEF f
<1>7. Cardinality(S) <= Cardinality(Names) /\ IsFiniteSet(S)
  BY <1>6, FS_Injection DEF Ample
<1>8. Cardinality(S) = t[p].size
  BY <1>1, FS_Interval
<1>9. Cardinality(Names) \in Nat
  BY FS_CardinalityType DEF Ample
<1> QED BY <1>1, <1>7, <1>8, <1>9, RefsAssumption DEF Ample

LEMMA AmpleRoom ==
  ASSUME Ample, Disk
  PROVE  Roomy
<1> SUFFICES ASSUME NEW d \in Disks
             PROVE  /\ ~IsError(find_free_block(Now, d))
                    /\ \A n \in EntryIds : tab[d][n].kind = "dir" => tab[d][n].size < ENTRYREFS
  BY DEF Roomy
<1>1. Table(tab[d]) /\ tab[d] \in Tables
  BY DiskIs, TableIs
<1>2. find_free_block(Now, d) = BlockIn(tab[d])
  BY DEF find_free_block, BlockIn, Now
<1> QED BY <1>1, <1>2, AmpleBlocks, AmpleDirectories DEF IsDir

(* On such a disk every behaviour of the machine has the room that the     *)
(* theorems assume: find_free_block and the directories never fail a call. *)
THEOREM WritingHasRoom ==
  ASSUME Orderly, Ample
  PROVE  WritingSpec => []Roomy
<1>1. Disk /\ [WritingNext]_vars => Disk'
  <2> SUFFICES ASSUME Disk, [WritingNext]_vars PROVE Disk'
    OBVIOUS
  <2>1. RoomBefore
    BY AmpleRoom, RoomyIs
  <2>2. RoomAfter
    BY AmpleBlocks DEF RoomAfter, Full
  <2> QED BY <2>1, <2>2, DiskStays
<1> QED BY InitDisk, <1>1, AmpleRoom, PTL DEF WritingSpec
=============================================================================
