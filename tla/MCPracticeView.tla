--------------------------- MODULE MCPracticeView ---------------------------
(* An instance of PracticeView for TLC: one accepted answer and one that may *)
(* be repaired.                                                              *)
EXTENDS PracticeView
=============================================================================
