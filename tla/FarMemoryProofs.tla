-------------------------- MODULE FarMemoryProofs --------------------------
(***************************************************************************)
(* FarMemory keeps the blocks of its callers apart, for every table        *)
(* length, region and alignment, as long as no size comes near the width   *)
(* of a ul_t (SizesBounded).                                               *)
(***************************************************************************)
EXTENDS FarMemory, DataLemmas

(* No sum of an address below AddrCap and an aligned size wraps.           *)
SizesBounded == \A size \in Sizes : AddrCap + size + LMEM_BLOCK_SIZE < ULONG

(* The inductive invariant.  Sorted compares neighbours, which says        *)
(* nothing of distant slots without induction over the table; Ordered      *)
(* compares any two slots and is kept by every step as it stands.          *)
Sized(t)   == \A i \in Slots : (t[i].start = 0) <=> (t[i].size = 0)
Capped(t)  == \A i \in Slots : t[i].start + t[i].size <= AddrCap
Ordered(t) == \A i, j \in Slots :
                (i < j /\ t[j].start # 0) =>
                   t[i].start # 0 /\ t[i].start + t[i].size <= t[j].start
Typed(t)   == t \in [Slots -> [start : 0 .. AddrCap, size : 0 .. AddrCap]]
Aligned(t) == \A i \in Slots : t[i].size % LMEM_BLOCK_SIZE = 0
TableOK(t) == Typed(t) /\ Sized(t) /\ Capped(t) /\ Ordered(t) /\ Aligned(t)

IInv == TypeOK /\ TableOK(lmem)

USE TableAssumption, AlignAssumption, UlongAssumption, MapAssumption DEF Slots, Last

-----------------------------------------------------------------------------
(* Lemmas.                                                                 *)

(* Aligning a size rounds it up, by less than LMEM_BLOCK_SIZE.             *)
LEMMA AlignExact ==
  ASSUME SizesBounded, NEW size \in Sizes
  PROVE  Align(size) \in Nat /\ size <= Align(size)
         /\ Align(size) <= size + LMEM_BLOCK_SIZE
<1> DEFINE r == size % LMEM_BLOCK_SIZE
<1>1. size \in Nat /\ AddrCap + size + LMEM_BLOCK_SIZE < ULONG
  BY UserAssumption DEF SizesBounded
<1>2. r \in 0 .. LMEM_BLOCK_SIZE - 1
  BY <1>1, ModBound
<1> HIDE DEF r
<1>3. (size + (LMEM_BLOCK_SIZE - r)) % ULONG = size + (LMEM_BLOCK_SIZE - r)
  BY <1>1, <1>2, ModOfSmall
<1> QED BY <1>1, <1>2, <1>3 DEF Align, Plus, r

(* An aligned size is a multiple of LMEM_BLOCK_SIZE.                       *)
LEMMA AlignWhole ==
  ASSUME SizesBounded, NEW size \in Sizes
  PROVE  Align(size) % LMEM_BLOCK_SIZE = 0
<1> DEFINE m == LMEM_BLOCK_SIZE
           d == size \div m
           r == size % m
<1>1. size \in Nat /\ AddrCap + size + m < ULONG
  BY UserAssumption DEF SizesBounded
<1>2. d \in Nat /\ r \in 0 .. m - 1 /\ size = d * m + r
  BY <1>1, DivMod, ModBound
<1>3. CASE r = 0
  BY <1>3 DEF Align
<1>4. CASE r # 0
  <2>1. (size + (m - r)) % ULONG = size + (m - r)
    <3> HIDE DEF r
    <3> QED BY <1>1, <1>2, ModOfSmall
  <2>2. Align(size) = size + (m - r)
    BY <1>4, <2>1 DEF Align, Plus
  <2>3. size + (m - r) = (d + 1) * m
    <3> HIDE DEF d, r
    <3>1. (d + 1) * m = d * m + m
      BY <1>2
    <3> QED BY <1>1, <1>2, <3>1
  <2>4. ((d + 1) * m) % m = 0
    <3> HIDE DEF d
    <3> QED BY <1>2, MultipleMod
  <2> QED BY <2>2, <2>3, <2>4
<1> QED BY <1>3, <1>4

(* The end of a block in a capped table does not wrap.                     *)
LEMMA EndExact ==
  ASSUME TableOK(lmem), NEW i \in Slots
  PROVE  EndOf(lmem, i) = lmem[i].start + lmem[i].size
         /\ EndOf(lmem, i) \in 0 .. AddrCap
<1>1. lmem[i].start \in Nat /\ lmem[i].size \in Nat
      /\ lmem[i].start + lmem[i].size <= AddrCap
  BY DEF TableOK, Typed, Capped
<1> DEFINE a == lmem[i].start + lmem[i].size
<1>2. a \in Nat /\ a < ULONG
  BY <1>1
<1>3. a % ULONG = a
  <2> HIDE DEF a
  <2> QED BY <1>2, ModOfSmall
<1> QED BY <1>1, <1>3 DEF EndOf, Plus

(* Inserting a block after all that end before it and before all that      *)
(* start after it keeps the table.                                         *)
LEMMA InsertKeeps ==
  ASSUME NEW t, TableOK(t), NEW i \in Slots,
         NEW start \in Nat \ {0}, NEW size \in Nat \ {0}, start + size <= AddrCap,
         size % LMEM_BLOCK_SIZE = 0,
         \A k \in Slots : k < i => t[k].start # 0 /\ t[k].start + t[k].size <= start,
         \A k \in Slots : (k >= i /\ t[k].start # 0) => start + size <= t[k].start
  PROVE  TableOK(InsertAt(t, i, [start |-> start, size |-> size]))
<1> DEFINE b == [start |-> start, size |-> size]
           u == InsertAt(t, i, b)
<1>1. \A k \in Slots : u[k] = IF k < i THEN t[k] ELSE IF k = i THEN b ELSE t[k - 1]
  BY DEF InsertAt
<1>2. \A k \in Slots : k > i => k - 1 \in Slots
  OBVIOUS
<1>3. Typed(u)
  BY <1>2 DEF TableOK, Typed, InsertAt
<1>4. Sized(u)
  BY <1>1, <1>2 DEF TableOK, Sized
<1>5. Capped(u)
  BY <1>1, <1>2 DEF TableOK, Capped
<1>6. Ordered(u)
  <2> SUFFICES ASSUME NEW j \in Slots, NEW k \in Slots, j < k, u[k].start # 0
               PROVE  u[j].start # 0 /\ u[j].start + u[j].size <= u[k].start
    BY DEF Ordered
  <2>1. CASE k < i
    BY <2>1, <1>1 DEF TableOK, Ordered
  <2>2. CASE k = i
    BY <2>2, <1>1
  <2>3. CASE k > i /\ j < i
    <3>1. u[j] = t[j] /\ u[k] = t[k - 1] /\ k - 1 \in Slots /\ j < k - 1
      BY <2>3, <1>1, <1>2
    <3> QED BY <3>1 DEF TableOK, Ordered
  <2>4. CASE k > i /\ j = i
    <3>1. u[j] = b /\ u[k] = t[k - 1] /\ k - 1 \in Slots /\ k - 1 >= i
      BY <2>4, <1>1, <1>2
    <3> QED BY <3>1
  <2>5. CASE k > i /\ j > i
    <3>1. u[j] = t[j - 1] /\ u[k] = t[k - 1] /\ k - 1 \in Slots /\ j - 1 \in Slots
          /\ j - 1 < k - 1
      BY <2>5, <1>1, <1>2
    <3> QED BY <3>1 DEF TableOK, Ordered
  <2> QED BY <2>1, <2>2, <2>3, <2>4, <2>5
<1>7. Aligned(u)
  BY <1>1, <1>2 DEF TableOK, Aligned
<1> QED BY <1>3, <1>4, <1>5, <1>6, <1>7 DEF TableOK

(* Dropping one slot and shifting the rest down keeps the table.           *)
LEMMA DropKeeps ==
  ASSUME NEW t, TableOK(t), NEW i \in Slots
  PROVE  TableOK(Drop(t, i, i))
<1> DEFINE u == Drop(t, i, i)
<1>1. \A k \in Slots : u[k] = IF k < i THEN t[k]
                              ELSE IF k + 1 \in Slots THEN t[k + 1] ELSE NoBlock
  BY DEF Drop
<1>2. Typed(u)
  <2>1. u = [k \in Slots |-> u[k]]
    BY DEF Drop
  <2>2. \A k \in Slots : u[k] \in [start : 0 .. AddrCap, size : 0 .. AddrCap]
    <3> SUFFICES ASSUME NEW k \in Slots
                 PROVE  u[k] \in [start : 0 .. AddrCap, size : 0 .. AddrCap]
      OBVIOUS
    <3>1. NoBlock \in [start : 0 .. AddrCap, size : 0 .. AddrCap]
      BY DEF NoBlock
    <3>2. u[k] = NoBlock \/ u[k] = t[k] \/ (k + 1 \in Slots /\ u[k] = t[k + 1])
      BY <1>1
    <3> HIDE DEF u
    <3> QED BY <3>1, <3>2 DEF TableOK, Typed
  <2> HIDE DEF u
  <2> QED BY <2>1, <2>2 DEF Typed
<1>3. Sized(u)
  BY <1>1 DEF TableOK, Sized, NoBlock
<1>4. Capped(u)
  BY <1>1 DEF TableOK, Capped, NoBlock
<1>5. Ordered(u)
  <2> SUFFICES ASSUME NEW j \in Slots, NEW k \in Slots, j < k, u[k].start # 0
               PROVE  u[j].start # 0 /\ u[j].start + u[j].size <= u[k].start
    BY DEF Ordered
  <2>1. CASE k < i
    BY <2>1, <1>1 DEF TableOK, Ordered
  <2>2. CASE k >= i
    <3>1. u[k] = t[k + 1] /\ k + 1 \in Slots
      BY <2>2, <1>1 DEF NoBlock
    <3>2. u[j] = t[j] \/ (u[j] = t[j + 1] /\ j + 1 \in Slots)
      BY <2>2, <1>1
    <3> QED BY <3>1, <3>2 DEF TableOK, Ordered
  <2> QED BY <2>1, <2>2
<1>6. Aligned(u)
  BY <1>1, MultipleMod DEF TableOK, Aligned, NoBlock
<1> QED BY <1>2, <1>3, <1>4, <1>5, <1>6 DEF TableOK

(* In a table that is in order, only one block starts at an address.       *)
LEMMA StartsDiffer ==
  ASSUME NEW t, TableOK(t), NEW i \in Slots, NEW j \in Slots,
         t[i].start = t[j].start, t[i].start # 0
  PROVE  i = j
<1>1. \A k \in Slots : /\ t[k].start \in Nat /\ t[k].size \in Nat
                       /\ (t[k].start = 0) <=> (t[k].size = 0)
  BY DEF TableOK, Typed, Sized
<1>2. ~(i < j) /\ ~(j < i)
  BY <1>1 DEF TableOK, Ordered
<1> QED BY <1>2

(* The first place is after a used slot, and the blocks from there on      *)
(* start above the end of the new one.                                     *)
LEMMA PlaceFits ==
  ASSUME TableOK(lmem), NEW size \in Nat, AddrCap + size < ULONG,
         NEW i, i = Min(Places(lmem, size)), Places(lmem, size) # {}
  PROVE  /\ i \in Slots \ {0} /\ i - 1 \in Slots
         /\ lmem[i - 1].start # 0
         /\ \A k \in Slots : k < i =>
              lmem[k].start # 0 /\ lmem[k].start + lmem[k].size <= EndOf(lmem, i - 1)
         /\ \A k \in Slots : (k >= i /\ lmem[k].start # 0) =>
              EndOf(lmem, i - 1) + size <= lmem[k].start
<1>1. Places(lmem, size) \in SUBSET Nat
  BY DEF Places
<1>2. i \in Places(lmem, size)
  BY <1>1, MinIsLeast
<1>3. i \in Slots \ {0} /\ i - 1 \in Slots /\ lmem[i - 1].start # 0
  BY <1>2 DEF Places
<1> DEFINE e == EndOf(lmem, i - 1)
<1>4. e = lmem[i - 1].start + lmem[i - 1].size /\ e \in 0 .. AddrCap
  BY <1>3, EndExact
<1> HIDE DEF e
<1>5. Plus(e, size) = e + size
  BY <1>4, ModOfSmall DEF Plus
<1>6. lmem[i].start = 0 \/ lmem[i].start > e + size
  BY <1>2, <1>5 DEF Places, e
<1>7. \A k \in Slots : lmem[k].start \in Nat /\ lmem[k].size \in Nat
  BY DEF TableOK, Typed
<1>8. ASSUME NEW k \in Slots, k < i
      PROVE  lmem[k].start # 0 /\ lmem[k].start + lmem[k].size <= e
  <2>1. k = i - 1 \/ k < i - 1
    BY <1>8, <1>3
  <2>2. k < i - 1 => /\ lmem[k].start # 0
                     /\ lmem[k].start + lmem[k].size <= lmem[i - 1].start
    BY <1>3 DEF TableOK, Ordered
  <2> QED BY <2>1, <2>2, <1>3, <1>4, <1>7
<1>9. ASSUME NEW k \in Slots, k >= i, lmem[k].start # 0
      PROVE  e + size <= lmem[k].start
  <2>1. k > i => lmem[i].start # 0 /\ lmem[i].start + lmem[i].size <= lmem[k].start
    BY <1>9, <1>3 DEF TableOK, Ordered
  <2> QED BY <2>1, <1>9, <1>6, <1>7, <1>3, <1>4
<1> QED BY <1>3, <1>8, <1>9 DEF e

-----------------------------------------------------------------------------
(* The invariant.                                                          *)

LEMMA InitOK == Init => IInv
<1> SUFFICES ASSUME Init PROVE IInv  OBVIOUS
<1>1. lmem = [i \in Slots |-> NoBlock] /\ call.ret = 0
  BY DEF Init
<1>2. Typed(lmem)
  BY <1>1 DEF Typed, NoBlock
<1>3. Sized(lmem) /\ Capped(lmem) /\ Ordered(lmem)
  BY <1>1 DEF Sized, Capped, Ordered, NoBlock
<1>4. Aligned(lmem)
  BY <1>1 DEF Aligned, NoBlock
<1> QED BY <1>1, <1>2, <1>3, <1>4 DEF IInv, TypeOK, TableOK, Typed, Aligned

(* The invariant speaks of the table and of the value returned.            *)
LEMMA NextOK ==
  ASSUME TableOK(lmem'), call'.ret \in 0 .. AddrCap
  PROVE  IInv'
BY DEF IInv, TypeOK, TableOK, Typed, Capped, Sized, Ordered, Aligned

(* A step that returns null and keeps the table keeps the invariant.       *)
LEMMA NullOK ==
  ASSUME IInv, lmem' = lmem, NEW op, NEW arg, Returns(op, arg, 0)
  PROVE  IInv'
<1>1. call'.ret = 0
  BY DEF Returns
<1>2. TableOK(lmem')
  BY DEF IInv
<1> QED BY <1>1, <1>2, NextOK

(* A block of this size at start, in slot i: after all those before and    *)
(* below all those behind.                                                 *)
Fits(size, i, start) ==
  /\ \A k \in Slots : k < i =>
       lmem[k].start # 0 /\ lmem[k].start + lmem[k].size <= start
  /\ \A k \in Slots : (k >= i /\ lmem[k].start # 0) =>
       start + Align(size) <= lmem[k].start

Grant(size, i, start) ==
  size # 0 /\ lmem[Last].size = 0 /\ Fits(size, i, start) /\ Granted(size, i, start)

(* A call past the first checks is refused or granted a block that fits.   *)
LEMMA AllocFits ==
  ASSUME SizesBounded, IInv, lmem_alloc_first \/ lmem_alloc_next
  PROVE  \E size \in Sizes :
           \/ Refused(size)
           \/ \E i \in Slots, start \in Nat \ {0} : Grant(size, i, start)
<1>1. CASE lmem_alloc_first
  <2>1. PICK size \in Sizes :
          /\ size # 0 /\ lmem[Last].size = 0 /\ lmem[0].start = 0
          /\ IF LMEM_LIMIT - LMEM_START < Align(size)
             THEN Refused(size) ELSE Granted(size, 0, LMEM_START)
    BY <1>1 DEF lmem_alloc_first
  <2>2. \A k \in Slots : lmem[k].start = 0
    BY <2>1 DEF IInv, TableOK, Ordered
  <2>3. Refused(size) \/ Grant(size, 0, LMEM_START)
    BY <2>1, <2>2 DEF Grant, Fits
  <2> QED BY <2>3
<1>2. CASE lmem_alloc_next
  <2>1. PICK size \in Sizes :
          /\ size # 0 /\ lmem[Last].size = 0 /\ lmem[0].start # 0
          /\ IF Places(lmem, Align(size)) = {} THEN Refused(size)
             ELSE Granted(size, Min(Places(lmem, Align(size))),
                          EndOf(lmem, Min(Places(lmem, Align(size))) - 1))
    BY <1>2 DEF lmem_alloc_next
  <2>2. CASE Places(lmem, Align(size)) = {}
    BY <2>1, <2>2
  <2>3. CASE Places(lmem, Align(size)) # {}
    <3> DEFINE i == Min(Places(lmem, Align(size)))
    <3>1. Align(size) \in Nat /\ AddrCap + Align(size) < ULONG
      BY AlignExact, UserAssumption DEF SizesBounded
    <3>2. /\ i \in Slots \ {0} /\ i - 1 \in Slots
          /\ lmem[i - 1].start # 0
          /\ Fits(size, i, EndOf(lmem, i - 1))
      BY <2>3, <3>1, PlaceFits DEF IInv, Fits
    <3>3. Granted(size, i, EndOf(lmem, i - 1))
      BY <2>1, <2>3
    <3> HIDE DEF i
    <3>4. EndOf(lmem, i - 1) \in Nat \ {0}
      <4>1. EndOf(lmem, i - 1) = lmem[i - 1].start + lmem[i - 1].size
        BY <3>2, EndExact DEF IInv
      <4>2. lmem[i - 1].start \in Nat /\ lmem[i - 1].size \in Nat
        BY <3>2 DEF IInv, TableOK, Typed
      <4> QED BY <4>1, <4>2, <3>2
    <3> QED BY <2>1, <3>2, <3>3, <3>4 DEF Grant
  <2> QED BY <2>2, <2>3
<1> QED BY <1>1, <1>2

(* A free keeps the table, or drops the one block that starts at ptr.      *)
LEMMA FreeDropsOne ==
  ASSUME IInv, lmem_free
  PROVE  \E ptr \in Pointers :
           /\ Returns("free", ptr, 0)
           /\ \/ /\ lmem' = lmem
                 /\ \A k \in Slots : lmem[k].start # 0 => lmem[k].start # ptr
              \/ \E i \in Slots : /\ lmem[i].start = ptr /\ ptr # 0
                                  /\ lmem' = Drop(lmem, i, i)
<1>1. PICK ptr \in Pointers :
        /\ lmem' = IF ptr = 0 \/ {i \in Slots : lmem[i].start = ptr} = {} THEN lmem
                   ELSE Drop(lmem, Min({i \in Slots : lmem[i].start = ptr}),
                                   Max({i \in Slots : lmem[i].start = ptr}))
        /\ Returns("free", ptr, 0)
  BY DEF lmem_free
<1>2. CASE ptr = 0 \/ {i \in Slots : lmem[i].start = ptr} = {}
  BY <1>1, <1>2
<1>3. CASE ptr # 0 /\ {i \in Slots : lmem[i].start = ptr} # {}
  <2>1. PICK i \in Slots : lmem[i].start = ptr
    BY <1>3
  <2>2. {k \in Slots : lmem[k].start = ptr} = {i}
    BY <1>3, <2>1, StartsDiffer DEF IInv
  <2>3. lmem' = Drop(lmem, i, i)
    BY <1>1, <1>3, <2>2 DEF Min, Max
  <2> QED BY <1>1, <1>3, <2>1, <2>3
<1> QED BY <1>2, <1>3

(* A granted block leaves the table in order.                              *)
LEMMA GrantOK ==
  ASSUME SizesBounded, IInv, NEW size \in Sizes,
         NEW i \in Slots, NEW start \in Nat \ {0}, Grant(size, i, start)
  PROVE  IInv'
<1>1. Align(size) \in Nat \ {0} /\ start + Align(size) <= AddrCap
  BY AlignExact, UserAssumption DEF Grant, Granted
<1>2. TableOK(lmem')
  BY <1>1, AlignWhole, InsertKeeps DEF IInv, Grant, Granted, Fits
<1>3. call'.ret = start
  BY DEF Grant, Granted, Returns
<1>4. call'.ret \in 0 .. AddrCap
  BY <1>1, <1>3
<1> QED BY <1>2, <1>4, NextOK

LEMMA StepOK == ASSUME SizesBounded, IInv, [Next]_vars PROVE IInv'
<1>1. CASE lmem_alloc_refuse
  <2>1. PICK size \in Sizes : Refused(size)
    BY <1>1 DEF lmem_alloc_refuse
  <2> QED BY <2>1, NullOK DEF Refused
<1>2. CASE lmem_alloc_first \/ lmem_alloc_next
  <2>1. PICK size \in Sizes :
          \/ Refused(size)
          \/ \E i \in Slots, start \in Nat \ {0} : Grant(size, i, start)
    BY <1>2, AllocFits
  <2>2. CASE Refused(size)
    BY <2>2, NullOK DEF Refused
  <2>3. CASE \E i \in Slots, start \in Nat \ {0} : Grant(size, i, start)
    BY <2>3, GrantOK
  <2> QED BY <2>1, <2>2, <2>3
<1>3. CASE lmem_free
  <2>1. PICK ptr \in Pointers :
          /\ Returns("free", ptr, 0)
          /\ lmem' = lmem \/ \E i \in Slots : lmem' = Drop(lmem, i, i)
    BY <1>3, FreeDropsOne
  <2>2. TableOK(lmem')
    BY <2>1, DropKeeps DEF IInv
  <2>3. call'.ret = 0
    BY <2>1 DEF Returns
  <2> QED BY <2>2, <2>3, NextOK
<1>4. CASE UNCHANGED vars
  BY <1>4 DEF vars, IInv, TypeOK, TableOK, Typed, Capped, Sized, Ordered, Aligned
<1> QED BY <1>1, <1>2, <1>3, <1>4 DEF Next

(* Every reachable table satisfies the inductive invariant.                *)
THEOREM Invariance == ASSUME SizesBounded PROVE Spec => []IInv
<1>1. Init => IInv
  BY InitOK
<1>2. IInv /\ [Next]_vars => IInv'
  BY StepOK
<1> QED BY <1>1, <1>2, PTL DEF Spec

(* lmem_alloc and lmem_free keep the table typed, with every address and   *)
(* size within the cap.                                                    *)
THEOREM TypeCorrect == ASSUME SizesBounded PROVE Spec => []TypeOK
<1>1. IInv => TypeOK
  BY DEF IInv
<1> QED BY <1>1, Invariance, PTL

(* The table stays packed and sorted (kernel.c:194, kernel.c:232: "keep    *)
(* the list sorted and contiguous").                                       *)
THEOREM SortedAlways == ASSUME SizesBounded PROVE Spec => []Sorted
<1>1. IInv => Sorted
  <2> SUFFICES ASSUME IInv, NEW i \in Slots
               PROVE  /\ (lmem[i].start = 0) <=> (lmem[i].size = 0)
                      /\ (i > 0 /\ lmem[i].start # 0) =>
                           /\ lmem[i - 1].start # 0
                           /\ lmem[i - 1].start + lmem[i - 1].size <= lmem[i].start
    BY DEF Sorted
  <2>1. i > 0 => i - 1 \in Slots /\ i - 1 < i
    OBVIOUS
  <2> QED BY <2>1 DEF IInv, TableOK, Sized, Ordered
<1> QED BY <1>1, Invariance, PTL

(* The memory of two allocations never overlaps, whatever was allocated    *)
(* and freed before.                                                       *)
THEOREM DisjointAlways == ASSUME SizesBounded PROVE Spec => []Disjoint
<1>1. IInv => Disjoint
  BY DEF IInv, TableOK, Ordered, Disjoint
<1> QED BY <1>1, Invariance, PTL

-----------------------------------------------------------------------------
(* Refinement: FarMemory implements Allocator.                             *)

LiveOf(t) == {Block(t[i]) : i \in {k \in Slots : t[k].start # 0}}

(* Inserting a block adds it to the live ones; the slot that falls off the *)
(* end of the table is unused.                                             *)
LEMMA InsertAddsLive ==
  ASSUME NEW t, NEW i \in Slots, NEW b, b.start # 0,
         t[Last].start = 0
  PROVE  LiveOf(InsertAt(t, i, b)) = LiveOf(t) \cup {Block(b)}
<1> DEFINE u == InsertAt(t, i, b)
<1>1. \A k \in Slots : u[k] = IF k < i THEN t[k] ELSE IF k = i THEN b ELSE t[k - 1]
  BY DEF InsertAt
<1> HIDE DEF u
<1>2. ASSUME NEW c \in LiveOf(u) PROVE c \in LiveOf(t) \cup {Block(b)}
  <2>1. PICK k \in Slots : u[k].start # 0 /\ c = Block(u[k])
    BY <1>2 DEF LiveOf
  <2>2. k > i => k - 1 \in Slots
    OBVIOUS
  <2> QED BY <1>1, <2>1, <2>2 DEF LiveOf
<1>3. ASSUME NEW c \in LiveOf(t) PROVE c \in LiveOf(u)
  <2>1. PICK k \in Slots : t[k].start # 0 /\ c = Block(t[k])
    BY <1>3 DEF LiveOf
  <2>2. k < i => u[k] = t[k]
    BY <1>1
  <2>3. k >= i => k + 1 \in Slots /\ u[k + 1] = t[k]
    BY <1>1, <2>1
  <2> QED BY <2>1, <2>2, <2>3 DEF LiveOf
<1>4. Block(b) \in LiveOf(u)
  BY <1>1 DEF LiveOf
<1> QED BY <1>2, <1>3, <1>4 DEF u

(* Dropping a slot removes its block from the live ones, and no other.     *)
LEMMA DropRemovesLive ==
  ASSUME NEW t, TableOK(t), NEW i \in Slots, t[i].start # 0
  PROVE  LiveOf(Drop(t, i, i)) = {c \in LiveOf(t) : c.start # t[i].start}
<1> DEFINE u == Drop(t, i, i)
<1>1. \A k \in Slots : u[k] = IF k < i THEN t[k]
                              ELSE IF k + 1 \in Slots THEN t[k + 1] ELSE NoBlock
  BY DEF Drop
<1> HIDE DEF u
<1>2. ASSUME NEW c \in LiveOf(u) PROVE c \in LiveOf(t) /\ c.start # t[i].start
  <2>1. PICK k \in Slots : u[k].start # 0 /\ c = Block(u[k])
    BY <1>2 DEF LiveOf
  <2>2. PICK j \in Slots : j # i /\ u[k] = t[j]
    <3>1. k < i => u[k] = t[k]
      BY <1>1
    <3>2. k >= i => k + 1 \in Slots /\ u[k] = t[k + 1] /\ k + 1 # i
      BY <1>1, <2>1 DEF NoBlock
    <3> QED BY <3>1, <3>2
  <2>3. c = Block(t[j]) /\ t[j].start # 0
    BY <2>1, <2>2
  <2>4. t[j].start # t[i].start
    BY <2>2, <2>3, StartsDiffer
  <2>5. c.start = t[j].start
    BY <2>3 DEF Block
  <2> QED BY <2>3, <2>4, <2>5 DEF LiveOf
<1>3. ASSUME NEW c \in LiveOf(t), c.start # t[i].start PROVE c \in LiveOf(u)
  <2>1. PICK k \in Slots : t[k].start # 0 /\ c = Block(t[k])
    BY <1>3 DEF LiveOf
  <2>2. k # i
    BY <1>3, <2>1 DEF Block
  <2>3. k < i => u[k] = t[k]
    BY <1>1
  <2>4. k > i => k - 1 \in Slots /\ u[k - 1] = t[k]
    BY <1>1
  <2> QED BY <2>1, <2>2, <2>3, <2>4 DEF LiveOf
<1> QED BY <1>2, <1>3 DEF u

(* A granted block is one the allocator may hand out.                      *)
LEMMA GrantAllocates ==
  ASSUME SizesBounded, IInv, NEW size \in Sizes,
         NEW i \in Slots, NEW start \in Nat \ {0}, Grant(size, i, start)
  PROVE  Promise!Allocate
<1> DEFINE n == Align(size)
           b == [start |-> start, size |-> n]
           last == start + n - 1
<1>1. n \in Nat \ {0} /\ size \in Nat /\ size <= n
  BY AlignExact, UserAssumption DEF Grant
<1>2. Live' = Live \cup {Block(b)}
  <2>1. lmem' = InsertAt(lmem, i, b) /\ lmem[Last].start = 0
    BY DEF Grant, Granted, IInv, TableOK, Sized
  <2>2. LiveOf(lmem') = LiveOf(lmem) \cup {Block(b)}
    BY <2>1, InsertAddsLive
  <2> QED BY <2>2 DEF Live, LiveOf
<1>3. ASSUME NEW c \in Live
      PROVE  c.start # Block(b).start /\ c.cells \cap Block(b).cells = {}
  <2>1. PICK k \in Slots : lmem[k].start # 0 /\ c = Block(lmem[k])
    BY <1>3 DEF Live
  <2>2. /\ lmem[k].start \in Nat /\ lmem[k].size \in Nat \ {0}
    BY <2>1 DEF IInv, TableOK, Typed, Sized
  <2>3. \/ lmem[k].start + lmem[k].size <= start
        \/ start + n <= lmem[k].start
    BY <2>1 DEF Grant, Fits
  <2>4. /\ c.start = lmem[k].start
        /\ c.cells = lmem[k].start .. lmem[k].start + lmem[k].size - 1
        /\ Block(b).start = start /\ Block(b).cells = start .. start + n - 1
    BY <2>1 DEF Block
  <2> HIDE DEF n, b
  <2>5. c.start # Block(b).start
    BY <1>1, <2>2, <2>3, <2>4, SMTT(30)
  <2>6. ~ \E x \in c.cells : x \in Block(b).cells
    BY <1>1, <2>2, <2>3, <2>4
  <2> QED BY <2>5, <2>6
<1>4. /\ Block(b).start = start
      /\ last \in Block(b).cells /\ Block(b).cells = start .. last
      /\ (last - start + 1) * 1 >= size
  <2>1. Block(b).start = start /\ Block(b).cells = start .. last
    BY DEF Block
  <2> HIDE DEF n, b
  <2>2. last \in start .. last /\ (last - start + 1) * 1 >= size
    BY <1>1
  <2> QED BY <2>1, <2>2
<1>5. Promise!Returns("alloc", size, Block(b).start)
  BY <1>4 DEF Grant, Granted, Returns, Promise!Returns
<1> HIDE DEF b, last
<1>6. Block(b) \in Live'
  BY <1>2
<1> QED BY <1>2, <1>3, <1>4, <1>5, <1>6 DEF Promise!Allocate

(* Every step of FarMemory is a step of Allocator, or stutters.            *)
LEMMA StepImplements ==
  ASSUME SizesBounded, IInv, [Next]_vars
  PROVE  [Promise!Next]_<<Live, call>>
<1>1. ASSUME NEW size \in Sizes, Refused(size) PROVE Promise!Refuse
  BY <1>1 DEF Refused, Returns, Promise!Refuse, Promise!Returns, Live
<1>2. CASE lmem_alloc_refuse
  BY <1>1, <1>2 DEF lmem_alloc_refuse, Promise!Next
<1>3. CASE lmem_alloc_first \/ lmem_alloc_next
  <2>1. PICK size \in Sizes :
          \/ Refused(size)
          \/ \E i \in Slots, start \in Nat \ {0} : Grant(size, i, start)
    BY <1>3, AllocFits
  <2>2. CASE Refused(size)
    BY <2>2, <1>1 DEF Promise!Next
  <2>3. CASE \E i \in Slots, start \in Nat \ {0} : Grant(size, i, start)
    BY <2>3, GrantAllocates DEF Promise!Next
  <2> QED BY <2>1, <2>2, <2>3
<1>4. CASE lmem_free
  <2>1. PICK ptr \in Pointers :
          /\ Returns("free", ptr, 0)
          /\ \/ /\ lmem' = lmem
                /\ \A k \in Slots : lmem[k].start # 0 => lmem[k].start # ptr
             \/ \E i \in Slots : /\ lmem[i].start = ptr /\ ptr # 0
                                 /\ lmem' = Drop(lmem, i, i)
    BY <1>4, FreeDropsOne
  <2>2. Live' = {c \in Live : c.start # ptr}
    <3>1. CASE /\ lmem' = lmem
               /\ \A k \in Slots : lmem[k].start # 0 => lmem[k].start # ptr
      BY <3>1 DEF Live, Block
    <3>2. CASE \E i \in Slots : /\ lmem[i].start = ptr /\ ptr # 0
                                /\ lmem' = Drop(lmem, i, i)
      <4>1. LiveOf(lmem') = {c \in LiveOf(lmem) : c.start # ptr}
        BY <3>2, DropRemovesLive DEF IInv
      <4> QED BY <4>1 DEF Live, LiveOf
    <3> QED BY <2>1, <3>1, <3>2
  <2>3. Promise!Free
    BY <2>1, <2>2 DEF Promise!Free, Promise!Returns, Returns
  <2> QED BY <2>3 DEF Promise!Next
<1>5. CASE UNCHANGED vars
  BY <1>5 DEF vars, Live
<1> QED BY <1>2, <1>3, <1>4, <1>5 DEF Next

(* lmalloc and lmfree are an allocator: what is handed out is at least as  *)
(* large as asked, is its caller's alone, and stays until it is freed.     *)
THEOREM Implementation == ASSUME SizesBounded PROVE Spec => ImplementsAllocator
<1>1. Init => Promise!Init
  BY DEF Init, Promise!Init, Live, NoBlock
<1>2. IInv /\ [Next]_vars => [Promise!Next]_<<Live, call>>
  BY StepImplements
<1>3. Spec => []IInv
  BY Invariance
<1> QED BY <1>1, <1>2, <1>3, PTL DEF Spec, ImplementsAllocator, Promise!Spec
=============================================================================
