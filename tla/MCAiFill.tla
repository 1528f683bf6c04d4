------------------------------ MODULE MCAiFill ------------------------------
(* Instances of AiFill for TLC: requests are model values, and those that   *)
(* edit no item of this form are interchangeable.                           *)
EXTENDS AiFill, TLC

Interchangeable == Permutations(Request \ Editing)
=============================================================================
