----------------------------- MODULE KernelHeap -----------------------------
(***************************************************************************)
(* The heap of the kernel segment (source/kernel.c:44-127, system calls    *)
(* MEM_ALLOCATE and MEM_FREE): HEAP_MAX_BLOCK blocks of HEAP_BLOCK_SIZE    *)
(* bytes, and for each whether it is used and the pointer handed out for   *)
(* the run it is part of.  Pointers are counted in blocks.                 *)
(*                                                                         *)
(* An operator named f_x is f with a plausible bug x, for checking that a  *)
(* property would notice it; nothing uses it.                              *)
(***************************************************************************)
EXTENDS Integers, FiniteSetsExt

CONSTANTS
  HEAP_MAX_BLOCK, HEAP_BLOCK_SIZE,
  HEAPADDR,                 (* Address of block 0; not null.               *)
  Sizes,                    (* Sizes the kernel asks for.                  *)
  Pointers                  (* Pointers freed: MEM_FREE takes any.         *)

ASSUME HeapAssumption == /\ HEAP_MAX_BLOCK \in Nat \ {0}
                         /\ HEAP_BLOCK_SIZE \in Nat \ {0}
                         /\ HEAPADDR \in Nat \ {0}
ASSUME UserAssumption == Sizes \subseteq Nat /\ Pointers \subseteq Nat

VARIABLES
  heap,        (* heap[i]: [used, ptr] of block i                          *)
  call         (* the last call: [op, arg, ret]                            *)

vars == <<heap, call>>

BlockIds  == 0 .. HEAP_MAX_BLOCK - 1
FreeBlock == [used |-> FALSE, ptr |-> 0]

Needed_floor(size) == size \div HEAP_BLOCK_SIZE
Needed(size) == (size \div HEAP_BLOCK_SIZE)
                + (IF size % HEAP_BLOCK_SIZE = 0 THEN 0 ELSE 1)

(* The blocks i that end a run of n free ones.                             *)
RunEnds_under(n) == {i \in BlockIds : \A j \in BlockIds \cap (i + 1 - n .. i) : ~heap[j].used}
RunEnds(n) == {i \in BlockIds : /\ i + 1 >= n
                                /\ \A j \in i + 1 - n .. i : ~heap[j].used}

Returns(op, arg, ret) == call' = [op |-> op, arg |-> arg, ret |-> ret]

Init == /\ heap = [i \in BlockIds |-> FreeBlock]
        /\ call = [op |-> "none", arg |-> 0, ret |-> 0]

heap_alloc_refuse ==
  \E size \in Sizes :
    /\ size = 0 \/ RunEnds(Needed(size)) = {}
    /\ heap' = heap
    /\ Returns("alloc", size, 0)

(* The first run found from the left.                                      *)
heap_alloc ==
  \E size \in Sizes :
    LET n     == Needed(size)
        last  == Min(RunEnds(n))
        first == last + 1 - n
    IN  /\ size # 0 /\ RunEnds(n) # {}
        /\ heap' = [j \in BlockIds |-> IF j \in first .. last
                                       THEN [used |-> TRUE, ptr |-> HEAPADDR + first]
                                       ELSE heap[j]]
        /\ Returns("alloc", size, HEAPADDR + first)

heap_free_one ==
  \E ptr \in Pointers :
    /\ heap' = [i \in BlockIds |->
                  IF ptr = HEAPADDR + i /\ heap[i].ptr = ptr /\ heap[i].used
                  THEN FreeBlock ELSE heap[i]]
    /\ Returns("free", ptr, 0)
heap_free ==
  \E ptr \in Pointers :
    /\ heap' = [i \in BlockIds |->
                  IF ptr # 0 /\ heap[i].ptr = ptr /\ heap[i].used
                  THEN FreeBlock ELSE heap[i]]
    /\ Returns("free", ptr, 0)

Next == heap_alloc_refuse \/ heap_alloc \/ heap_free

Spec == Init /\ [][Next]_vars

-----------------------------------------------------------------------------

TypeOK == /\ heap \in [BlockIds -> [used : BOOLEAN, ptr : 0 .. HEAPADDR + HEAP_MAX_BLOCK]]
          /\ call.ret \in 0 .. HEAPADDR + HEAP_MAX_BLOCK

(* A pointer stands for one run of used blocks that begins where it points *)
(* and has no gap: what heap_free relies on when it frees by pointer.      *)
RunsWhole ==
  \A i \in BlockIds : heap[i].used =>
    /\ heap[i].ptr \in HEAPADDR .. HEAPADDR + i
    /\ \A j \in heap[i].ptr - HEAPADDR .. i : heap[j] = heap[i]

(* ulib.h: malloc and mfree are an allocator of whole, private blocks.     *)
RunOf(p) == [start |-> p,
             cells |-> {HEAPADDR + i : i \in {k \in BlockIds : heap[k].used /\ heap[k].ptr = p}}]
Live == {RunOf(heap[i].ptr) : i \in {k \in BlockIds : heap[k].used}}

Promise == INSTANCE Allocator WITH live <- Live, CELL <- HEAP_BLOCK_SIZE

ImplementsAllocator == Promise!Spec
=============================================================================
