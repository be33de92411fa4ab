---------------------------- MODULE MCInspection ----------------------------
(* TLC instances of Inspection. *)
EXTENDS Inspection, TLC

\* One stack is deeper than the implicit trace and the other is shallower.
UnevenStacks == {f \in [Threads -> {1, 3}] : f[1] # f[2]}

\* The tasks are interchangeable.
Symmetry == Permutations(Tasks)
=============================================================================
