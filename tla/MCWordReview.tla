---------------------------- MODULE MCWordReview ----------------------------
(* Instances of WordReview for TLC: threads are interchangeable.            *)
EXTENDS WordReview, TLC

Interchangeable == Permutations(Thread)
=============================================================================
