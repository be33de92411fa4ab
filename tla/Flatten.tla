------------------------------ MODULE Flatten ------------------------------
(***************************************************************************)
(* flatten_variables and flatten_recursive of mcp-tools/src/flatten.rs:    *)
(* the depth- and count-bounded walk of a debuggee's variables, one        *)
(* request to the adapter per expanded level.                              *)
(*                                                                         *)
(* A level is a sequence of variables, each given by its reference: 0 for  *)
(* a leaf.  A variable's name is its position in its level and a dotted    *)
(* name is the sequence of the positions on the way to it.  References may *)
(* form cycles (a list whose node points back to it).  Whether the filter  *)
(* matches a top-level name is an input.                                   *)
(***************************************************************************)
EXTENDS Integers, Sequences, SequencesExt

CONSTANTS
  Refs,      \* variable references, positive numbers
  Trees,     \* the levels an adapter may hold: functions from Refs
  Depths,    \* the depth arguments
  Caps,      \* the max_count arguments (the variables tool passes 100)
  Filters    \* the sets of top-level names a filter may match

ASSUME FlattenAssumption ==
  /\ Refs \subseteq Nat \ {0}
  /\ Trees \subseteq [Refs -> Seq(Refs \cup {0})]
  /\ Depths \subseteq Nat
  /\ Caps \subseteq Nat \ {0}

VARIABLES
  tree,      \* what the adapter holds
  root,      \* variables_reference
  depth,     \* depth
  maxCount,  \* max_count
  filter,    \* the top-level names that filter matches
  stack,     \* the activations, innermost last: what is left of each level
  want,      \* the level being fetched
  result,    \* result: the entries emitted so far
  fetched,   \* history: the dotted names whose children were requested
  stage      \* "fetch" (suspended in fetch), "walk", or how it returned

inputs == <<tree, root, depth, maxCount, filter>>
walkVars == <<inputs, stack, want, result, fetched, stage>>

\* A fetch: a reference, the prefix of its variables and the depth left.
Level(ref, prefix, left) == [ref |-> ref, prefix |-> prefix, left |-> left]

WalkInit ==
  /\ tree \in Trees
  /\ root \in Refs
  /\ depth \in Depths
  /\ maxCount \in Caps
  /\ filter \in Filters
  /\ stack = <<>>
  /\ want = Level(root, <<>>, depth)
  /\ result = <<>>
  /\ fetched = {}
  /\ stage = "fetch"

\* One VariablesRequest.  Its variables are walked in the order given.
Fetch ==
  /\ stage = "fetch"
  /\ stage' = "walk"
  /\ stack' = Append(stack, [prefix |-> want.prefix, left |-> want.left, next |-> 1,
                             vars |-> tree[want.ref]])
  /\ fetched' = fetched \cup {want.prefix}
  /\ UNCHANGED <<inputs, want, result>>

\* The request fails: the error passes through every activation, and what
\* was emitted is dropped.
FetchFails ==
  /\ stage = "fetch"
  /\ stage' = "failed"
  /\ fetched' = fetched \cup {want.prefix}
  /\ UNCHANGED <<inputs, stack, want, result>>

top == Last(stack)
more == top.next <= Len(top.vars)
name == Append(top.prefix, top.next)
Advanced == Append(Front(stack), [top EXCEPT !.next = @ + 1])

\* Mutant of FilteredOut: the filter is applied to every level.
FilteredEverywhere == top.next \notin filter

\* The filter applies to the top level only.
FilteredOut == Len(stack) = 1 /\ top.next \notin filter

Skip ==
  /\ stage = "walk" /\ stack # <<>>
  /\ more
  /\ FilteredOut
  /\ stack' = Advanced
  /\ UNCHANGED <<inputs, want, result, fetched, stage>>

\* Mutant of Expands: the depth is ignored.
ExpandsTooDeep(ref, left) == ref > 0

\* A container is expanded while there is depth left; else it is marked.
Expands(ref, left) == ref > 0 /\ left > 0

\* The cap is checked after every emitted node.
Full(entries) == Len(entries) >= maxCount

Emit ==
  LET ref   == top.vars[top.next]
      entry == [name |-> name, hasChildren |-> ref > 0 /\ ~Expands(ref, top.left)] IN
  /\ stage = "walk" /\ stack # <<>>
  /\ more
  /\ ~FilteredOut
  /\ result' = Append(result, entry)
  /\ stack' = Advanced
  /\ \/ Full(result') /\ stage' = "truncated" /\ UNCHANGED want
     \/ /\ ~Full(result') /\ Expands(ref, top.left)
        /\ stage' = "fetch" /\ want' = Level(ref, name, top.left - 1)
     \/ /\ ~Full(result') /\ ~Expands(ref, top.left)
        /\ UNCHANGED <<stage, want>>
  /\ UNCHANGED <<inputs, fetched>>

\* A level is done: its activation returns Ok(false).
LevelDone ==
  /\ stage = "walk" /\ stack # <<>>
  /\ ~more
  /\ stack' = Front(stack)
  /\ stage' = IF Len(stack) = 1 THEN "complete" ELSE "walk"
  /\ UNCHANGED <<inputs, want, result, fetched>>

WalkNext == Fetch \/ FetchFails \/ Skip \/ Emit \/ LevelDone

WalkSpec == WalkInit /\ [][WalkNext]_walkVars

----------------------------------------------------------------------------
(* Properties *)

\* Every variable stays within its type.
WalkTypeOK ==
  /\ tree \in Trees /\ root \in Refs /\ depth \in Depths /\ maxCount \in Caps
  /\ stack \in Seq([prefix : Seq(Nat), left : Int, next : Nat \ {0},
                    vars : Seq(Refs \cup {0})])
  /\ want \in [ref : Refs, prefix : Seq(Nat), left : Int]
  /\ result \in Seq([name : Seq(Nat), hasChildren : BOOLEAN])
  /\ fetched \subseteq Seq(Nat)
  /\ stage \in {"fetch", "walk", "complete", "truncated", "failed"}

\* Reference: the way to a dotted name of length n is the references of the
\* levels its positions are in.
Positions == UNION {DOMAIN tree[r] : r \in Refs}
Paths == UNION {[1..n -> Positions] : n \in 1..(depth + 1)}

Leads(way, p) ==
  /\ way[1] = root
  /\ \A i \in DOMAIN p : p[i] \in DOMAIN tree[way[i]]
  /\ \A i \in 1..(Len(p) - 1) : way[i + 1] = tree[way[i]][p[i]]

\* The entries to show: what the filter lets in, down to the depth, a
\* container at the depth marked as having children.
IsEntry(e) ==
  LET p == e.name
      n == Len(p) IN
  /\ p[1] \in filter
  /\ \E way \in [1..n -> Refs] :
       /\ Leads(way, p)
       /\ e.hasChildren = (tree[way[n]][p[n]] > 0 /\ n = depth + 1)

Reference == {e \in [name : Paths, hasChildren : BOOLEAN] : IsEntry(e)}

\* The order of the listing: a parent before its children, siblings as they
\* come in their level.
Agree(p, q, n) == \A i \in 1..n : p[i] = q[i]
Before(p, q) ==
  \/ Len(p) < Len(q) /\ Agree(p, q, Len(p))
  \/ \E k \in (DOMAIN p) \cap (DOMAIN q) : p[k] < q[k] /\ Agree(p, q, k - 1)

Ordered(entries) ==
  \A i, j \in DOMAIN entries : i < j => Before(entries[i].name, entries[j].name)

Shown == {result[i] : i \in DOMAIN result}

\* The walk computes its reference: all of it, or its first max_count entries
\* when it is that long, and says truncated exactly then.
MatchesReference ==
  stage \in {"complete", "truncated"} =>
    /\ Ordered(result)
    /\ Shown \subseteq Reference
    /\ stage = "complete" => Shown = Reference /\ Len(result) < maxCount
    /\ stage = "truncated" =>
         /\ Len(result) = maxCount
         /\ \A e \in Reference \ Shown : Before(Last(result).name, e.name)

\* Requests are bounded by what is shown: wherever the walk stops or fails,
\* it has asked only for children of entries it has emitted as expanded, none
\* of them deeper than depth, and never for the same entry's again.
FetchesOnlyWhatIsShown ==
  /\ stage = "fetch" => want.prefix \notin fetched
  /\ \A p \in fetched \ {<<>>} :
       /\ Len(p) <= depth
       /\ \E i \in DOMAIN result : result[i].name = p /\ ~result[i].hasChildren
=============================================================================
