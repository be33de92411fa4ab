---------------------------- MODULE MCDapClient ----------------------------
(* TLC instances of DapClient. *)
EXTENDS DapClient, TLC

\* The callers and the exit codes are interchangeable: no definition tells
\* one from another.
Symmetry == Permutations(Callers) \cup Permutations(ExitCodes)
=============================================================================
