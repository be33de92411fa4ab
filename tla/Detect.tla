------------------------------- MODULE Detect -------------------------------
(***************************************************************************)
(* find_lldb_dap (lldb-backend/src/detect.rs): which adapter binary is     *)
(* spawned, and whether it is an lldb-dap.  What the file system answers   *)
(* is an input.                                                            *)
(***************************************************************************)
EXTENDS Naturals, Sequences, SequencesExt, FiniteSetsExt

CONSTANT Versions  \* the version suffixes searched; the code's are 15..20

ASSUME DetectAssumption == Versions \subseteq Nat \ {0} /\ IsFiniteSet(Versions)

\* A binary is a name and a version, 0 for the bare name.
LldbDap    == <<"lldb-dap", 0>>
LldbVscode == <<"lldb-vscode", 0>>
FromEnv    == <<"LLDB_DAP_PATH", 0>>
FromXcrun  == <<"xcrun", 0>>

\* Mutant of Descending: the search goes up.
Ascending == [i \in 1..Cardinality(Versions) |->
                CHOOSE v \in Versions : Cardinality({w \in Versions : w < v}) = i - 1]

\* (15..=20).rev()
Descending == [i \in 1..Cardinality(Versions) |->
                 CHOOSE v \in Versions : Cardinality({w \in Versions : w > v}) = i - 1]

\* What is looked up on PATH, in this order.
Candidates ==
  <<LldbDap>> \o [i \in DOMAIN Descending |-> <<"lldb-dap", Descending[i]>>]
              \o <<LldbVscode>>

\* The environment of a search.  LLDB_DAP_PATH is unset (or empty), or names
\* something found on PATH, a mere file, or nothing; its basename contains
\* lldb-dap or does not.  Elsewhere than on macOS xcrun is not run; where it is,
\* it fails or says nothing, or prints a path.
Environments ==
  [override : {"unset", "onPath", "file", "missing"}, namesLldbDap : BOOLEAN,
   onPath : SUBSET ToSet(Candidates),
   xcrun : {"notRun", "fails", "path"}]

Detected(path, capable) == [path |-> path, isLldbDap |-> capable, searched |-> <<>>]
NotFound(searched) == [path |-> <<>>, isLldbDap |-> FALSE, searched |-> searched]
IsDetected(d) == d.path # <<>>

\* Mutant of IsCapable: whatever is on PATH counts as an lldb-dap.
AlwaysCapable(binary) == TRUE

\* The flag of a binary found on PATH.
IsCapable(binary) == binary # LldbVscode

\* find_lldb_dap_with
FindLldbDap(env) ==
  LET hits == {i \in DOMAIN Candidates : Candidates[i] \in env.onPath} IN
  CASE env.override \in {"onPath", "file"} ->
         Detected(FromEnv, env.namesLldbDap)
    [] env.override \in {"unset", "missing"} /\ hits # {} ->
         LET found == Candidates[Min(hits)] IN
           Detected(found, IsCapable(found))
    [] env.override \in {"unset", "missing"} /\ hits = {} /\ env.xcrun = "path" ->
         Detected(FromXcrun, TRUE)
    [] OTHER ->
         NotFound((IF env.override = "missing" THEN <<FromEnv>> ELSE <<>>)
                    \o Candidates
                    \o (IF env.xcrun # "notRun" THEN <<FromXcrun>> ELSE <<>>))
=============================================================================
