---------------------------- MODULE MCFarMemory ----------------------------
(* Values for the constants of FarMemory: a region of 16 bytes at 4,       *)
(* blocks aligned to 2.                                                    *)
EXTENDS FarMemory
=============================================================================
