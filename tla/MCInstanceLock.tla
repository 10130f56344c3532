----------------------------- MODULE MCInstanceLock -----------------------------
(* TLC instances of InstanceLock. *)
EXTENDS InstanceLock, TLC

\* For runs that check safety only.
Symmetry == Permutations(Proc)

=============================================================================
