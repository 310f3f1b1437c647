---------------------------- MODULE MCKernelHeap ----------------------------
(* Values for the constants of KernelHeap: six blocks of 8 bytes.          *)
EXTENDS KernelHeap
=============================================================================
