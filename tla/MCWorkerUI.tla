------------------------------- MODULE MCWorkerUI -------------------------------
(***************************************************************************)
(* TLC instances of WorkerUI.                                              *)
(***************************************************************************)
EXTENDS WorkerUI, TLC

Symmetry == Permutations(Content \ {Unreadable}) \cup Permutations(Recipe)

=============================================================================
