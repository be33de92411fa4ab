---------------------------- MODULE MCBreakpoints ----------------------------
(* TLC instances of Breakpoints. *)
EXTENDS Breakpoints

\* The tasks are interchangeable.
Symmetry == Permutations(Tasks)
=============================================================================
