-------------------------- MODULE MCLearningEvents --------------------------
(* Instances of LearningEvents for TLC: threads, runs and keys are          *)
(* interchangeable; activities are ordered, since events are.               *)
EXTENDS LearningEvents, TLC

Interchangeable == Permutations(Thread) \union Permutations(Run) \union Permutations(Key)
=============================================================================
