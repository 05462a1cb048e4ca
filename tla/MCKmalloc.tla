----------------------------- MODULE MCKmalloc -----------------------------
(* Two callers; a page is two blocks, so the pool takes sizes 1 to 4.      *)
EXTENDS Kmalloc, TLC
CONSTANTS c1, c2
MCCaller == {c1, c2}
MCSymmetry == Permutations(MCCaller)
=============================================================================
