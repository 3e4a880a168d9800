-------------------------- MODULE MCRecursiveMutex --------------------------
(***************************************************************************)
(* RecursiveMutex for TLC: threads 1, 2, ... with the identifiers that     *)
(* they would have if the kernel set them.  Today all have 0, which is     *)
(* also "no owner", and lock() locks nothing (README.md, section 4).       *)
(***************************************************************************)
EXTENDS RecursiveMutex

OwnID(t) == t
=============================================================================
