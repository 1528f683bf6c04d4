--------------------------- MODULE MCLocalPractice ---------------------------
(* Instances of LocalPractice for TLC.  Threads, activity ids, examples,      *)
(* keys and runs are interchangeable.                                         *)
EXTENDS LocalPractice, TLC

Interchangeable == Permutations(Thread) \union Permutations(Act)
                   \union Permutations(Example) \union Permutations(Key)
                   \union Permutations(Run)
=============================================================================
