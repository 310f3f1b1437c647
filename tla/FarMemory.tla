----------------------------- MODULE FarMemory -----------------------------
(***************************************************************************)
(* The allocator of far memory for user programs (source/kernel.c:129-243, *)
(* system calls LMEM_ALLOCATE and LMEM_FREE): a table of at most           *)
(* LMEM_MAX_BLOCK blocks, kept packed and sorted by address.               *)
(*                                                                         *)
(* Addresses and sizes are ul_t, unsigned and ULONG (2^32 in the code)     *)
(* wide.  An operator named f_x is f with a plausible bug x, for checking  *)
(* that a property would notice it; nothing uses it.                       *)
(***************************************************************************)
EXTENDS Integers, FiniteSetsExt

CONSTANTS
  LMEM_START, LMEM_LIMIT,   (* The memory map: first address, end.         *)
  LMEM_BLOCK_SIZE,          (* Alignment of sizes.                         *)
  LMEM_MAX_BLOCK,           (* Length of the table.                        *)
  ULONG,                    (* Number of values of a ul_t.                 *)
  Sizes,                    (* Sizes programs ask for.                     *)
  Pointers,                 (* Pointers programs free.                     *)
  AddrCap                   (* Bound on modelled addresses: calls that     *)
                            (* would end a block above it are left out.    *)

ASSUME MapAssumption   == /\ LMEM_START \in Nat \ {0} /\ LMEM_LIMIT \in Nat
                          /\ LMEM_START < LMEM_LIMIT /\ LMEM_LIMIT < ULONG
ASSUME TableAssumption == LMEM_MAX_BLOCK \in Nat /\ LMEM_MAX_BLOCK >= 2
ASSUME AlignAssumption == LMEM_BLOCK_SIZE \in Nat \ {0}
ASSUME UlongAssumption == ULONG \in Nat /\ AddrCap \in Nat /\ AddrCap < ULONG
ASSUME UserAssumption  == Sizes \subseteq 0 .. ULONG - 1 /\ Pointers \subseteq Nat

VARIABLES
  lmem,        (* lmem[i]: block i, start 0 when unused                    *)
  call         (* the last call: [op, arg, ret]                            *)

vars == <<lmem, call>>

Slots == 0 .. LMEM_MAX_BLOCK - 1
Last  == LMEM_MAX_BLOCK - 1
NoBlock == [start |-> 0, size |-> 0]

Plus(a, b) == (a + b) % ULONG

(* Round up to a multiple of LMEM_BLOCK_SIZE.                              *)
Align_none(size) == size
Align_down(size) == size - (size % LMEM_BLOCK_SIZE)
Align(size) ==
  IF size % LMEM_BLOCK_SIZE = 0 THEN size
  ELSE Plus(size, LMEM_BLOCK_SIZE - (size % LMEM_BLOCK_SIZE))

(* Address past block i of table t.                                        *)
EndOf(t, i) == Plus(t[i].start, t[i].size)

(* The slots where a block of this size may go: after a used one, before   *)
(* an unused one or one that starts strictly above its end.                *)
Places_any(t, size) ==
  {i \in Slots \ {0} : /\ t[i - 1].start # 0
                       /\ t[i].start = 0 \/ t[i].start > EndOf(t, i - 1)}
Places(t, size) ==
  {i \in Slots \ {0} :
     /\ t[i - 1].start # 0
     /\ \/ t[i].start = 0
        \/ t[i].start > Plus(EndOf(t, i - 1), size)}

InsertAt(t, i, b) ==
  [k \in Slots |-> CASE k < i -> t[k]
                     [] k = i -> b
                     [] k > i -> t[k - 1]]

(* Drop slots lo to hi, shifting the rest down.                            *)
Drop_hole(t, lo, hi) == [k \in Slots |-> IF k \in lo .. hi THEN NoBlock ELSE t[k]]
Drop(t, lo, hi) ==
  [k \in Slots |-> CASE k < lo -> t[k]
                     [] k >= lo /\ k + (hi - lo + 1) <= Last -> t[k + (hi - lo + 1)]
                     [] OTHER  -> NoBlock]

Returns(op, arg, ret) == call' = [op |-> op, arg |-> arg, ret |-> ret]

Init == /\ lmem = [i \in Slots |-> NoBlock]
        /\ call = [op |-> "none", arg |-> 0, ret |-> 0]

Refused(size) == lmem' = lmem /\ Returns("alloc", size, 0)

Granted(size, i, start) ==
  /\ start + Align(size) <= AddrCap
  /\ lmem' = InsertAt(lmem, i, [start |-> start, size |-> Align(size)])
  /\ Returns("alloc", size, start)

(* No size, or the last slot of the table in use.                          *)
lmem_alloc_refuse ==
  \E size \in Sizes : /\ size = 0 \/ lmem[Last].size # 0
                      /\ Refused(size)

(* An empty table: the first block is placed at the start of the region,   *)
(* if it fits in it.                                                       *)
lmem_alloc_first ==
  \E size \in Sizes :
    /\ size # 0 /\ lmem[Last].size = 0 /\ lmem[0].start = 0
    /\ IF LMEM_LIMIT - LMEM_START < Align(size)
       THEN Refused(size) ELSE Granted(size, 0, LMEM_START)

(* The first place after a used block; nothing compares it with the limit. *)
lmem_alloc_next ==
  \E size \in Sizes :
    LET places == Places(lmem, Align(size))
        i == Min(places)
    IN  /\ size # 0 /\ lmem[Last].size = 0 /\ lmem[0].start # 0
        /\ IF places = {} THEN Refused(size)
                          ELSE Granted(size, i, EndOf(lmem, i - 1))

(* Every block that starts at ptr goes; in a sorted table they are         *)
(* neighbours, and one unless a size wrapped to 0.                         *)
lmem_free ==
  \E ptr \in Pointers :
    LET found == {i \in Slots : lmem[i].start = ptr}
    IN  /\ lmem' = IF ptr = 0 \/ found = {} THEN lmem
                   ELSE Drop(lmem, Min(found), Max(found))
        /\ Returns("free", ptr, 0)

Next == lmem_alloc_refuse \/ lmem_alloc_first \/ lmem_alloc_next \/ lmem_free

Spec == Init /\ [][Next]_vars

-----------------------------------------------------------------------------

TypeOK ==
  /\ lmem \in [Slots -> [start : 0 .. AddrCap, size : 0 .. AddrCap]]
  /\ \A i \in Slots : lmem[i].size % LMEM_BLOCK_SIZE = 0
  /\ call.ret \in 0 .. AddrCap

(* The table is packed and sorted, its blocks end before the next begins   *)
(* and none is empty: what allocation relies on when it looks at           *)
(* neighbours only, and what keeps the memory of two programs apart.       *)
Sorted ==
  \A i \in Slots :
    /\ (lmem[i].start = 0) <=> (lmem[i].size = 0)
    /\ (i > 0 /\ lmem[i].start # 0) =>
         /\ lmem[i - 1].start # 0
         /\ lmem[i - 1].start + lmem[i - 1].size <= lmem[i].start

(* kernel.c:175-181, the search: no two blocks overlap, neighbours or not. *)
Disjoint ==
  \A i, j \in Slots :
    (i # j /\ lmem[i].start # 0 /\ lmem[j].start # 0) =>
      \/ lmem[i].start + lmem[i].size <= lmem[j].start
      \/ lmem[j].start + lmem[j].size <= lmem[i].start

(* README.md:47 of the repository, the memory map: user data lies between  *)
(* LMEM_START and LMEM_LIMIT.                                              *)
InRegion ==
  \A i \in Slots : lmem[i].start # 0 =>
    LMEM_START <= lmem[i].start /\ lmem[i].start + lmem[i].size <= LMEM_LIMIT

(* ulib.h: lmalloc and lmfree are an allocator of whole, private blocks.   *)
Block(b) == [start |-> b.start, cells |-> b.start .. b.start + b.size - 1]
Live == {Block(lmem[i]) : i \in {k \in Slots : lmem[k].start # 0}}

Promise == INSTANCE Allocator WITH live <- Live, CELL <- 1

ImplementsAllocator == Promise!Spec
=============================================================================
