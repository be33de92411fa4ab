---------------------------- MODULE MCToolServer ----------------------------
(* TLC instances of ToolServer: the tasks are numbers, and since a task may  *)
(* start at any time, a choice of calls matters only as a multiset.          *)
EXTENDS ToolServer, TLC

CONSTANT Tools  \* the tools a behaviour may call

Rank(name) ==
  CHOOSE i \in 1..6 : name = <<"launch", "launch_running", "attach", "resume",
                               "pause", "disconnect">>[i]

\* Any multiset of calls, written in the order of Rank.
AnyCalls ==
  {f \in [Tasks -> Tools] :
     \A t, u \in Tasks : t < u => Rank(f[t]) <= Rank(f[u])}

\* One or two launches, since there are two connections to have, and no other
\* tool more than twice.
Times(f, S) == Cardinality({t \in Tasks : f[t] \in S})
SessionCalls ==
  {f \in AnyCalls :
     /\ Times(f, {"launch", "launch_running"}) \in 1..2
     /\ \A name \in Tools : Times(f, {name}) <= 2}

\* No tool called twice.
EachToolOnce ==
  {f \in AnyCalls : \A t, u \in Tasks : t # u => f[t] # f[u]}

\* Which calls overlap: only a pause with the resume it interrupts; a
\* disconnect too; or any.
PauseOverlaps == {<<"pause", "resume">>}
DisconnectOverlaps == PauseOverlaps \cup {<<"disconnect", "resume">>}
AllOverlap == Tools \X Tools

\* No definition tells the connections apart.
Symmetry == Permutations(Conns)
=============================================================================
