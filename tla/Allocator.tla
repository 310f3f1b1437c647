----------------------------- MODULE Allocator -----------------------------
(***************************************************************************)
(* What malloc/mfree and lmalloc/lmfree promise (source/ulib/ulib.h): a    *)
(* caller that is handed a block has at least the bytes it asked for, and  *)
(* owns them alone until it frees that block.  KernelHeap and FarMemory    *)
(* implement it.                                                           *)
(***************************************************************************)
EXTENDS Integers

CONSTANTS
  Sizes,       (* Numbers of bytes callers ask for.                        *)
  Pointers,    (* What callers free: any pointer, allocated or not.        *)
  CELL         (* Bytes in one cell, the unit of allocation.               *)

VARIABLES
  live,        (* The blocks owned by callers: [start, cells].             *)
  call         (* The last call: [op, arg, ret], ret 0 (null) for none.    *)

Returns(op, arg, ret) == call' = [op |-> op, arg |-> arg, ret |-> ret]

Init == /\ live = {}
        /\ call = [op |-> "none", arg |-> 0, ret |-> 0]

(* A fresh contiguous block b, apart from all live ones.                   *)
Allocate ==
  \E size \in Sizes, b \in live' :
    /\ live' = live \cup {b}
    /\ \A c \in live : c.start # b.start /\ c.cells \cap b.cells = {}
    /\ \E last \in b.cells : /\ b.cells = b.start .. last
                             /\ (last - b.start + 1) * CELL >= size
    /\ Returns("alloc", size, b.start)

Refuse == /\ live' = live
          /\ \E size \in Sizes : Returns("alloc", size, 0)

Free ==
  \E p \in Pointers : /\ live' = {b \in live : b.start # p}
                      /\ Returns("free", p, 0)

Next == Allocate \/ Refuse \/ Free

Spec == Init /\ [][Next]_<<live, call>>
=============================================================================
