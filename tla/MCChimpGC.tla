----------------------------- MODULE MCChimpGC -----------------------------
(* ChimpGC for TLC: slots of a slab are interchangeable, slabs are not.    *)
EXTENDS ChimpGC, TLC

CONSTANTS r1, r2, r3, r4

TwoSlabs == r1 :> 1 @@ r2 :> 1 @@ r3 :> 2 @@ r4 :> 2

Symmetry == Permutations({r1, r2}) \cup Permutations({r3, r4})
=============================================================================
