---------------------------- MODULE MCChimpArray ----------------------------
(* An instance of ChimpArray for TLC: nil and true as items, arrays of up  *)
(* to three, and a default block of two, so that every array that grows    *)
(* does so on its way to three.  An int32_t has eight values: 7 and 8 are  *)
(* taken for -1 and 0, and -5 for 3.                                       *)
EXTENDS ChimpArray

MCIndices == {-5, -4, -3, -1, 0, 1, 2, 3, 7, 8}
MCLiterals == {<<>>, <<Nil>>, <<True, Nil>>}
=============================================================================
