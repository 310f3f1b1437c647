-------------------------- MODULE KernelHeapProofs --------------------------
(***************************************************************************)
(* KernelHeap keeps every run of blocks whole and private to the caller it *)
(* was handed to, for every heap and block size.                           *)
(***************************************************************************)
EXTENDS KernelHeap, DataLemmas

(* TypeOK and RunsWhole are inductive as they stand.                       *)
IInv == TypeOK /\ RunsWhole

USE HeapAssumption DEF BlockIds

-----------------------------------------------------------------------------
(* Lemmas.                                                                 *)

(* The blocks counted for a size hold at least that many bytes.            *)
LEMMA NeededCovers ==
  ASSUME NEW size \in Nat
  PROVE  /\ Needed(size) \in Nat
         /\ Needed(size) * HEAP_BLOCK_SIZE >= size
         /\ size # 0 => Needed(size) # 0
<1> DEFINE q == size \div HEAP_BLOCK_SIZE
           r == size % HEAP_BLOCK_SIZE
<1>1. q \in Nat /\ size = q * HEAP_BLOCK_SIZE + r
  BY DivMod
<1>2. r \in 0 .. HEAP_BLOCK_SIZE - 1
  BY ModBound
<1>3. Needed(size) = q + (IF r = 0 THEN 0 ELSE 1)
  BY DEF Needed
<1> HIDE DEF q, r
<1>4. CASE r = 0
  <2>1. Needed(size) = q /\ size = q * HEAP_BLOCK_SIZE
    BY <1>1, <1>3, <1>4
  <2>2. q = 0 => size = 0
    BY <2>1
  <2> QED BY <1>1, <2>1, <2>2
<1>5. CASE r # 0
  <2>1. Needed(size) = q + 1
    BY <1>3, <1>5
  <2>2. (q + 1) * HEAP_BLOCK_SIZE = q * HEAP_BLOCK_SIZE + HEAP_BLOCK_SIZE
    BY <1>1
  <2> QED BY <1>1, <1>2, <2>1, <2>2
<1> QED BY <1>4, <1>5

(* A granting step writes the pointer to first into a run of unused blocks *)
(* first to last.                                                          *)
Grant(size, first, last) ==
  /\ first \in BlockIds /\ last \in BlockIds
  /\ last + 1 - first = Needed(size) /\ first <= last
  /\ \A j \in first .. last : ~heap[j].used
  /\ heap' = [j \in BlockIds |-> IF j \in first .. last
                                 THEN [used |-> TRUE, ptr |-> HEAPADDR + first]
                                 ELSE heap[j]]
  /\ Returns("alloc", size, HEAPADDR + first)

LEMMA AllocGrants ==
  ASSUME heap_alloc
  PROVE  \E size \in Sizes : \E first, last \in BlockIds : Grant(size, first, last)
<1>1. PICK size \in Sizes :
        LET n     == Needed(size)
            last  == Min(RunEnds(n))
            first == last + 1 - n
        IN  /\ size # 0 /\ RunEnds(n) # {}
            /\ heap' = [j \in BlockIds |-> IF j \in first .. last
                                           THEN [used |-> TRUE, ptr |-> HEAPADDR + first]
                                           ELSE heap[j]]
            /\ Returns("alloc", size, HEAPADDR + first)
  BY DEF heap_alloc
<1> DEFINE n     == Needed(size)
           last  == Min(RunEnds(n))
           first == last + 1 - n
<1>2. n \in Nat /\ n # 0
  BY <1>1, NeededCovers, UserAssumption
<1>3. RunEnds(n) \in SUBSET Nat /\ RunEnds(n) # {}
  BY <1>1 DEF RunEnds
<1>4. last \in RunEnds(n)
  BY <1>3, MinIsLeast
<1>5. last \in BlockIds /\ last + 1 >= n /\ \A j \in first .. last : ~heap[j].used
  BY <1>4 DEF RunEnds
<1>6. /\ heap' = [j \in BlockIds |-> IF j \in first .. last
                                     THEN [used |-> TRUE, ptr |-> HEAPADDR + first]
                                     ELSE heap[j]]
      /\ Returns("alloc", size, HEAPADDR + first)
  BY <1>1
<1>7. first \in BlockIds /\ first <= last /\ last + 1 - first = Needed(size)
  <2>1. n = Needed(size)
    OBVIOUS
  <2> HIDE DEF n, last
  <2> QED BY <1>2, <1>5, <2>1
<1> HIDE DEF first, last
<1> QED BY <1>5, <1>6, <1>7 DEF Grant, first

-----------------------------------------------------------------------------
(* The invariant.                                                          *)

LEMMA InitOK == Init => IInv
BY DEF Init, IInv, TypeOK, RunsWhole, FreeBlock

(* Writing a pointer into a run of unused blocks leaves other runs whole.  *)
LEMMA GrantOK ==
  ASSUME IInv, NEW size \in Sizes, NEW first \in BlockIds, NEW last \in BlockIds,
         Grant(size, first, last)
  PROVE  IInv'
<1>1. \A j \in BlockIds : heap'[j] = IF j \in first .. last
                                     THEN [used |-> TRUE, ptr |-> HEAPADDR + first]
                                     ELSE heap[j]
  BY DEF Grant
<1>2. TypeOK'
  <2>1. [used |-> TRUE, ptr |-> HEAPADDR + first]
          \in [used : BOOLEAN, ptr : 0 .. HEAPADDR + HEAP_MAX_BLOCK]
    OBVIOUS
  <2>2. heap' \in [BlockIds -> [used : BOOLEAN, ptr : 0 .. HEAPADDR + HEAP_MAX_BLOCK]]
    BY <2>1 DEF Grant, IInv, TypeOK
  <2>3. call'.ret = HEAPADDR + first
    BY DEF Grant, Returns
  <2>4. call'.ret \in 0 .. HEAPADDR + HEAP_MAX_BLOCK
    BY <2>3
  <2> QED BY <2>2, <2>4 DEF TypeOK
<1>3. RunsWhole'
  <2> SUFFICES ASSUME NEW i \in BlockIds, heap'[i].used
               PROVE  /\ heap'[i].ptr \in HEAPADDR .. HEAPADDR + i
                      /\ \A j \in heap'[i].ptr - HEAPADDR .. i : heap'[j] = heap'[i]
    BY DEF RunsWhole
  <2>1. CASE i \in first .. last
    <3>1. heap'[i].ptr = HEAPADDR + first
      BY <1>1, <2>1
    <3> QED BY <1>1, <2>1, <3>1
  <2>2. CASE i \notin first .. last
    <3>1. heap'[i] = heap[i]
      BY <1>1, <2>2
    <3>2. /\ heap[i].ptr \in HEAPADDR .. HEAPADDR + i
          /\ \A j \in heap[i].ptr - HEAPADDR .. i : heap[j] = heap[i]
      BY <3>1 DEF IInv, RunsWhole
    <3>3. ASSUME NEW j \in heap[i].ptr - HEAPADDR .. i PROVE heap'[j] = heap[j]
      <4>1. j \in BlockIds /\ heap[j].used
        BY <3>1, <3>2
      <4>2. j \notin first .. last
        BY <4>1 DEF Grant
      <4> QED BY <1>1, <4>1, <4>2
    <3> QED BY <3>1, <3>2, <3>3
  <2> QED BY <2>1, <2>2
<1> QED BY <1>2, <1>3 DEF IInv

LEMMA StepOK == ASSUME IInv, [Next]_vars PROVE IInv'
<1>1. CASE heap_alloc_refuse
  <2>1. heap' = heap /\ call'.ret = 0
    BY <1>1 DEF heap_alloc_refuse, Returns
  <2> QED BY <2>1 DEF IInv, TypeOK, RunsWhole
<1>2. CASE heap_alloc
  BY <1>2, AllocGrants, GrantOK
<1>3. CASE heap_free
  <2>1. PICK ptr \in Pointers :
          /\ heap' = [i \in BlockIds |->
                        IF ptr # 0 /\ heap[i].ptr = ptr /\ heap[i].used
                        THEN FreeBlock ELSE heap[i]]
          /\ Returns("free", ptr, 0)
    BY <1>3 DEF heap_free
  <2>2. \A i \in BlockIds : heap'[i] = IF ptr # 0 /\ heap[i].ptr = ptr /\ heap[i].used
                                       THEN FreeBlock ELSE heap[i]
    BY <2>1
  <2>3. TypeOK'
    <3>1. call'.ret = 0
      BY <2>1 DEF Returns
    <3>2. heap' \in [BlockIds -> [used : BOOLEAN, ptr : 0 .. HEAPADDR + HEAP_MAX_BLOCK]]
      BY <2>1 DEF IInv, TypeOK, FreeBlock
    <3> QED BY <3>1, <3>2 DEF TypeOK
  <2>4. RunsWhole'
    <3> SUFFICES ASSUME NEW i \in BlockIds, heap'[i].used
                 PROVE  /\ heap'[i].ptr \in HEAPADDR .. HEAPADDR + i
                        /\ \A j \in heap'[i].ptr - HEAPADDR .. i : heap'[j] = heap'[i]
      BY DEF RunsWhole
    <3>1. heap'[i] = heap[i] /\ ~(ptr # 0 /\ heap[i].ptr = ptr)
      BY <2>2 DEF FreeBlock
    <3>2. /\ heap[i].ptr \in HEAPADDR .. HEAPADDR + i
          /\ \A j \in heap[i].ptr - HEAPADDR .. i : heap[j] = heap[i]
      BY <3>1 DEF IInv, RunsWhole
    <3>3. ASSUME NEW j \in heap[i].ptr - HEAPADDR .. i PROVE heap'[j] = heap[j]
      <4>1. j \in BlockIds /\ heap[j] = heap[i]
        BY <3>2
      <4> QED BY <2>2, <3>1, <4>1
    <3> QED BY <3>1, <3>2, <3>3
  <2> QED BY <2>3, <2>4 DEF IInv
<1>4. CASE UNCHANGED vars
  BY <1>4 DEF vars, IInv, TypeOK, RunsWhole
<1> QED BY <1>1, <1>2, <1>3, <1>4 DEF Next

(* Every reachable heap satisfies the inductive invariant.                 *)
THEOREM Invariance == Spec => []IInv
<1>1. Init => IInv
  BY InitOK
<1>2. IInv /\ [Next]_vars => IInv'
  BY StepOK
<1> QED BY <1>1, <1>2, PTL DEF Spec

(* heap_alloc and heap_free keep the heap typed: no pointer is stored that *)
(* is outside of it.                                                       *)
THEOREM TypeCorrect == Spec => []TypeOK
<1>1. IInv => TypeOK
  BY DEF IInv
<1> QED BY <1>1, Invariance, PTL

(* Whatever was allocated and freed before, the blocks of a pointer are    *)
(* one run that begins where it points (kernel.c:89-99, 118-123).          *)
THEOREM RunsWholeAlways == Spec => []RunsWhole
<1>1. IInv => RunsWhole
  BY DEF IInv
<1> QED BY <1>1, Invariance, PTL

-----------------------------------------------------------------------------
(* Refinement: KernelHeap implements Allocator.                            *)

BlocksOf(h, p) == {k \in BlockIds : h[k].used /\ h[k].ptr = p}
RunIn(h, p) == [start |-> p, cells |-> {HEAPADDR + i : i \in BlocksOf(h, p)}]
LiveOf(h)   == {RunIn(h, h[i].ptr) : i \in {k \in BlockIds : h[k].used}}

LEMMA LiveIs == Live = LiveOf(heap) /\ Live' = LiveOf(heap')
BY DEF Live, RunOf, LiveOf, RunIn, BlocksOf

(* A granted run is a block the allocator may hand out.                    *)
LEMMA GrantAllocates ==
  ASSUME IInv, NEW size \in Sizes, NEW first \in BlockIds, NEW last \in BlockIds,
         Grant(size, first, last)
  PROVE  Promise!Allocate
<1> DEFINE p == HEAPADDR + first
           b == [start |-> p, cells |-> p .. HEAPADDR + last]
<1>1. \A j \in BlockIds : heap'[j] = IF j \in first .. last
                                     THEN [used |-> TRUE, ptr |-> p]
                                     ELSE heap[j]
  BY DEF Grant
<1>2. \A j \in first .. last : j \in BlockIds /\ ~heap[j].used
  BY DEF Grant
<1>3. \A j \in BlockIds : heap[j].used => heap[j].ptr # p /\ heap[j].ptr \in Nat
  <2> SUFFICES ASSUME NEW j \in BlockIds, heap[j].used
               PROVE  heap[j].ptr # p /\ heap[j].ptr \in Nat
    OBVIOUS
  <2>1. /\ heap[j].ptr \in HEAPADDR .. HEAPADDR + j
        /\ \A k \in heap[j].ptr - HEAPADDR .. j : heap[k] = heap[j]
    BY DEF IInv, RunsWhole
  <2>2. ASSUME heap[j].ptr = p PROVE FALSE
    <3>1. first \in heap[j].ptr - HEAPADDR .. j
      BY <2>1, <2>2
    <3>2. heap[first].used
      BY <2>1, <3>1
    <3>3. first \in first .. last
      BY DEF Grant
    <3> QED BY <1>2, <3>2, <3>3
  <2> QED BY <2>1, <2>2
<1>4. BlocksOf(heap', p) = first .. last
  BY <1>1, <1>2, <1>3 DEF BlocksOf
<1>5. RunIn(heap', p) = b
  <2>1. {HEAPADDR + i : i \in first .. last} = p .. HEAPADDR + last
    <3>1. \A x \in p .. HEAPADDR + last : x - HEAPADDR \in first .. last
                                          /\ HEAPADDR + (x - HEAPADDR) = x
      OBVIOUS
    <3>2. \A i \in first .. last : HEAPADDR + i \in p .. HEAPADDR + last
      OBVIOUS
    <3> QED BY <3>1, <3>2
  <2> QED BY <1>4, <2>1 DEF RunIn
<1>6. \A q : q # p => BlocksOf(heap', q) = BlocksOf(heap, q)
  BY <1>1, <1>2 DEF BlocksOf
<1>7. \A q : q # p => RunIn(heap', q) = RunIn(heap, q)
  BY <1>6 DEF RunIn
<1>8. Live' = Live \cup {b}
  <2>1. ASSUME NEW c \in LiveOf(heap') PROVE c \in LiveOf(heap) \cup {b}
    <3>1. PICK k \in BlockIds : heap'[k].used /\ c = RunIn(heap', heap'[k].ptr)
      BY <2>1 DEF LiveOf
    <3>2. CASE k \in first .. last
      BY <1>1, <1>5, <3>1, <3>2
    <3>3. CASE k \notin first .. last
      <4>1. heap'[k] = heap[k]
        BY <1>1, <3>3
      <4> QED BY <1>3, <1>7, <3>1, <4>1 DEF LiveOf
    <3> QED BY <3>2, <3>3
  <2>2. ASSUME NEW c \in LiveOf(heap) PROVE c \in LiveOf(heap')
    <3>1. PICK k \in BlockIds : heap[k].used /\ c = RunIn(heap, heap[k].ptr)
      BY <2>2 DEF LiveOf
    <3>2. heap'[k] = heap[k]
      BY <1>1, <1>2, <3>1
    <3> QED BY <1>3, <1>7, <3>1, <3>2 DEF LiveOf
  <2>3. b \in LiveOf(heap')
    <3>1. first \in first .. last
      BY DEF Grant
    <3>2. heap'[first].used /\ heap'[first].ptr = p
      BY <1>1, <3>1
    <3> QED BY <1>5, <3>2 DEF LiveOf
  <2> QED BY <2>1, <2>2, <2>3, LiveIs
<1>9. ASSUME NEW c \in Live PROVE c.start # b.start /\ c.cells \cap b.cells = {}
  <2>1. PICK k \in BlockIds : heap[k].used /\ c = RunIn(heap, heap[k].ptr)
    BY <1>9, LiveIs DEF LiveOf
  <2>2. c.start = heap[k].ptr /\ c.cells = {HEAPADDR + i : i \in BlocksOf(heap, heap[k].ptr)}
    BY <2>1 DEF RunIn
  <2>3. ASSUME NEW x \in c.cells, x \in b.cells PROVE FALSE
    <3>1. PICK i \in BlockIds : heap[i].used /\ x = HEAPADDR + i
      BY <2>2, <2>3 DEF BlocksOf
    <3>2. i \in first .. last
      BY <2>3, <3>1
    <3> QED BY <1>2, <3>1, <3>2
  <2> QED BY <1>3, <2>1, <2>2, <2>3
<1>10. \E top \in b.cells : /\ b.cells = b.start .. top
                            /\ (top - b.start + 1) * HEAP_BLOCK_SIZE >= size
  <2>1. HEAPADDR + last \in b.cells /\ b.cells = b.start .. HEAPADDR + last
    BY DEF Grant
  <2>2. HEAPADDR + last - b.start + 1 = Needed(size)
    BY DEF Grant
  <2>3. Needed(size) * HEAP_BLOCK_SIZE >= size
    BY NeededCovers, UserAssumption
  <2> QED BY <2>1, <2>2, <2>3
<1>11. Promise!Returns("alloc", size, b.start)
  BY DEF Grant, Returns, Promise!Returns
<1> HIDE DEF b
<1>12. b \in Live'
  BY <1>8
<1> QED BY <1>8, <1>9, <1>10, <1>11, <1>12 DEF Promise!Allocate

(* Freeing a pointer removes its run and no other.                         *)
LEMMA FreeRemovesLive ==
  ASSUME IInv, NEW ptr,
         heap' = [i \in BlockIds |-> IF ptr # 0 /\ heap[i].ptr = ptr /\ heap[i].used
                                     THEN FreeBlock ELSE heap[i]]
  PROVE  Live' = {c \in Live : c.start # ptr}
<1>1. \A k \in BlockIds : heap[k].used => heap[k].ptr # 0
  BY DEF IInv, RunsWhole
<1>2. \A k \in BlockIds : IF heap[k].used /\ heap[k].ptr = ptr
                          THEN ~heap'[k].used ELSE heap'[k] = heap[k]
  BY <1>1 DEF FreeBlock
<1>3. \A q : q # ptr => BlocksOf(heap', q) = BlocksOf(heap, q)
  BY <1>2 DEF BlocksOf
<1>4. \A q : q # ptr => RunIn(heap', q) = RunIn(heap, q)
  BY <1>3 DEF RunIn
<1>5. ASSUME NEW c \in LiveOf(heap') PROVE c \in LiveOf(heap) /\ c.start # ptr
  <2>1. PICK k \in BlockIds : heap'[k].used /\ c = RunIn(heap', heap'[k].ptr)
    BY <1>5 DEF LiveOf
  <2>2. heap'[k] = heap[k] /\ heap[k].ptr # ptr
    BY <1>2, <2>1
  <2>3. c = RunIn(heap, heap[k].ptr) /\ c.start = heap[k].ptr
    BY <1>4, <2>1, <2>2 DEF RunIn
  <2> QED BY <2>1, <2>2, <2>3 DEF LiveOf
<1>6. ASSUME NEW c \in LiveOf(heap), c.start # ptr PROVE c \in LiveOf(heap')
  <2>1. PICK k \in BlockIds : heap[k].used /\ c = RunIn(heap, heap[k].ptr)
    BY <1>6 DEF LiveOf
  <2>2. heap[k].ptr # ptr
    BY <1>6, <2>1 DEF RunIn
  <2>3. heap'[k] = heap[k]
    BY <1>2, <2>2
  <2> QED BY <1>4, <2>1, <2>2, <2>3 DEF LiveOf
<1> QED BY <1>5, <1>6, LiveIs

(* Every step of KernelHeap is a step of Allocator, or stutters.           *)
LEMMA StepImplements ==
  ASSUME IInv, [Next]_vars
  PROVE  [Promise!Next]_<<Live, call>>
<1>1. CASE heap_alloc_refuse
  BY <1>1 DEF heap_alloc_refuse, Returns, Promise!Next, Promise!Refuse,
              Promise!Returns, Live, RunOf
<1>2. CASE heap_alloc
  BY <1>2, AllocGrants, GrantAllocates DEF Promise!Next
<1>3. CASE heap_free
  <2>1. PICK ptr \in Pointers :
          /\ heap' = [i \in BlockIds |->
                        IF ptr # 0 /\ heap[i].ptr = ptr /\ heap[i].used
                        THEN FreeBlock ELSE heap[i]]
          /\ Returns("free", ptr, 0)
    BY <1>3 DEF heap_free
  <2>2. Live' = {c \in Live : c.start # ptr}
    BY <2>1, FreeRemovesLive
  <2> QED BY <2>1, <2>2 DEF Promise!Next, Promise!Free, Promise!Returns, Returns
<1>4. CASE UNCHANGED vars
  BY <1>4 DEF vars, Live, RunOf
<1> QED BY <1>1, <1>2, <1>3, <1>4 DEF Next

(* malloc and mfree are an allocator: what is handed out is at least as    *)
(* large as asked, is its caller's alone, and stays until it is freed.     *)
THEOREM Implementation == Spec => ImplementsAllocator
<1>1. Init => Promise!Init
  BY DEF Init, Promise!Init, Live, FreeBlock
<1>2. IInv /\ [Next]_vars => [Promise!Next]_<<Live, call>>
  BY StepImplements
<1> QED BY <1>1, <1>2, Invariance, PTL DEF Spec, ImplementsAllocator, Promise!Spec
=============================================================================
