---------------------------- MODULE MCLegacyQuiz ----------------------------
(* Instances of LegacyQuiz for TLC: threads and words are interchangeable.  *)
EXTENDS LegacyQuiz

Interchangeable == Permutations(Thread) \union Permutations(Word)
=============================================================================
