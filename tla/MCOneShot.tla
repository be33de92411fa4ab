----------------------------- MODULE MCOneShot -----------------------------
(* TLC instances of OneShot. *)
EXTENDS OneShot

\* Every environment, up to the name of an override that is not there and the
\* two ways in which xcrun may say nothing where it is not asked.
AllEnvironments ==
  {e \in Environments :
     /\ e.override \in {"unset", "missing"} => e.namesLldbDap
     /\ e.xcrun = "fails" => e.override \in {"unset", "missing"} /\ e.onPath = {}}

\* An f64 of two binary digits: halves are exact up to 2, whole numbers up to
\* 4, and the largest i64, 7, lies between the f64s 6 and 8.
SmallDoubles ==
  {d \in -24..24 :
     LET size == IF d < 0 THEN -d ELSE d IN
     \/ size <= 4
     \/ size <= 8 /\ d % 2 = 0
     \/ size <= 16 /\ d % 4 = 0
     \/ d % 8 = 0}

\* A negative number, fractions, the whole number 5, which an f64 cannot be,
\* and the largest i64, which is rounded beyond itself.
Halves == {-2, 1, 3, 10, 14}

\* Memory of up to three rows of two bytes.
SmallReads == {[i \in 1..n |-> i] : n \in 0..5}

\* No detail, a plain one, and one that contains a separator.
SmallDetails == {<<>>, <<"word">>, <<"word", Failed, "word">>}
=============================================================================
