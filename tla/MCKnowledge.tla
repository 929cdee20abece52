----------------------------- MODULE MCKnowledge -----------------------------
(* Small instances of KnowledgeBase for TLC. *)
EXTENDS KnowledgeBase, TLC

Symmetry == Permutations(Contents) \cup Permutations(Paths)
ProcSymmetry == Permutations(Procs)
=============================================================================
