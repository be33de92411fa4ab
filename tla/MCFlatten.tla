----------------------------- MODULE MCFlatten -----------------------------
(* TLC instances of Flatten. *)
EXTENDS Flatten

\* Levels of at most two variables.  References point forward, and the last
\* one to itself too: a structure that contains itself.
SmallTrees ==
  {f \in [Refs -> BoundedSeq(Refs \cup {0}, 2)] :
     \A r \in Refs : \A i \in DOMAIN f[r] :
       f[r][i] = 0 \/ f[r][i] > r \/ (f[r][i] = r /\ \A s \in Refs : s <= r)}
=============================================================================
