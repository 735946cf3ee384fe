---- MODULE MCHeapManager ----
(* Two ring entries, four addresses and four allocations: the entry of a   *)
(* live block is overwritten, an address is given out again, a block moves *)
(* and a signal arrives at every step.                                     *)
EXTENDS HeapManager, TLC

Symmetry == Permutations(Addresses)
====
