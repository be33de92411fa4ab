----------------------------- MODULE Inspection -----------------------------
(***************************************************************************)
(* The inspection tools of crates/mcp-tools (backtrace, threads, variables *)
(* and evaluate) and the frame-map cache of SessionManager they share.     *)
(*                                                                         *)
(* Each step is one lock section or one await of a handler.  The cache is  *)
(* kept across stops and cleared by a reset only; the adapter's frame ids  *)
(* are a function of the thread and the index, as the code relies on.      *)
(* Launching, resuming, stopping and disconnecting are here only what they *)
(* do to the state, the stop cache, the frame map and the backend slot, in *)
(* one or two steps: their own steps are ToolServer's.  What variables     *)
(* does with its frame is Flatten's subject.                               *)
(***************************************************************************)
EXTENDS Naturals, FiniteSets

CONSTANTS
  Tasks,          \* the concurrent tool calls
  Threads,        \* the debuggee's threads
  ThreadArgs,     \* thread_id arguments; 0 if omitted
  LevelArgs,      \* levels arguments of backtrace
  ImplicitLevels, \* levels of the implicit stackTrace (20)
  Stacks,         \* the depths the threads' stacks may have at a stop
  Indices,        \* frame_index arguments
  Overlaps,       \* the modes of a client: FALSE makes one call at a time
  MaxCalls,       \* bound on the calls of a behaviour
  MaxStops        \* bound on the stops of a behaviour

ASSUME InspectionAssumption ==
  /\ 1 \in Threads /\ Threads \subseteq Nat \ {0}
  /\ ThreadArgs \subseteq Threads \cup {0}
  /\ LevelArgs \subseteq Nat \ {0}
  /\ ImplicitLevels \in Nat \ {0}
  /\ Stacks \subseteq [Threads -> Nat \ {0}]
  /\ Indices \subseteq Nat
  /\ Overlaps \subseteq BOOLEAN
  /\ {MaxCalls, MaxStops} \subseteq Nat

VARIABLES
  overlap,    \* may this behaviour's calls overlap?
  state,      \* Inner.state
  last,       \* Inner.last_stopped: its thread, 0 for None
  caching,    \* the stop a handler holds between its state write and
              \* set_last_stopped: its thread, 0 for none
  frameMap,   \* Inner.frame_mapping: the set of [index, thread, frame, conn]
  backend,    \* ToolServer.backend: the connection, 0 for None
  pc,         \* pc[t]: where task t's handler is
  call,       \* call[t]: its arguments
  conn,       \* conn[t]: the connection of the backend it took
  frames,     \* frames[t]: the mapping it built, or the one entry it uses
  halted,     \* adapter: is the debuggee stopped?
  stoppedAt,  \* adapter: the thread that stopped
  stacks,     \* adapter: the depth of each thread's stack while it is stopped
  conns,      \* how many connections there have been
  calls,      \* how many calls have begun
  stops,      \* how many stops there have been
  traced,     \* history: the thread of the last stack trace answered
  answer      \* history: the last answer given, and whether it was true

sessionVars == <<state, last, caching, frameMap, backend>>
taskVars    == <<pc, call, conn, frames>>
adapterVars == <<halted, stoppedAt, stacks>>
countVars   == <<conns, calls, stops>>
historyVars == <<traced, answer>>
vars == <<overlap, sessionVars, taskVars, adapterVars, countVars, historyVars>>

\* An answer: is it about the frame index asked for, and does it agree with
\* what the adapter and the last trace say?
Answer(kind, exact, true) == [kind |-> kind, exact |-> exact, true |-> true]
Unknown == [th \in Threads |-> 0]
NoCall == [op |-> "none", thread |-> 0, levels |-> 0, index |-> 0]

Init ==
  /\ overlap \in Overlaps
  /\ state = "idle"
  /\ last = 0
  /\ caching = 0
  /\ frameMap = {}
  /\ backend = 0
  /\ pc = [t \in Tasks |-> "free"]
  /\ call = [t \in Tasks |-> NoCall]
  /\ conn = [t \in Tasks |-> 0]
  /\ frames = [t \in Tasks |-> {}]
  /\ halted = FALSE
  /\ stoppedAt = 1
  /\ stacks = Unknown
  /\ conns = 0
  /\ calls = 0
  /\ stops = 0
  /\ traced = 0
  /\ answer = Answer("none", TRUE, TRUE)

\* A call begins: at any time, or only when the previous one has returned.
Admitted == overlap \/ (caching = 0 /\ \A u \in Tasks : pc[u] = "free")

Goto(t, from, to) == pc[t] = from /\ pc' = [pc EXCEPT ![t] = to]

\* The handler returns; a call that is over keeps nothing.
Return(t, from) ==
  /\ Goto(t, from, "free")
  /\ call' = [call EXCEPT ![t] = NoCall]
  /\ conn' = [conn EXCEPT ![t] = 0]
  /\ frames' = [frames EXCEPT ![t] = {}]

----------------------------------------------------------------------------
(* The handlers *)

\* Every tool begins with its guard.  backtrace resolves its thread before it
\* takes the backend.
Begin(t, c, next) ==
  /\ calls < MaxCalls
  /\ Admitted
  /\ state = "stopped"
  /\ Goto(t, "free", next)
  /\ call' = [call EXCEPT ![t] = c]
  /\ calls' = calls + 1
  /\ UNCHANGED <<overlap, sessionVars, conn, frames, adapterVars, conns, stops,
                 historyVars>>

Backtrace(t) ==
  \E th \in ThreadArgs, l \in LevelArgs :
    Begin(t, [op |-> "backtrace", thread |-> th, levels |-> l, index |-> 0], "thread")

ListThreads(t) ==
  Begin(t, [op |-> "threads", thread |-> 0, levels |-> 0, index |-> 0], "backend")

\* variables and evaluate
Inspect(t) ==
  \E i \in Indices :
    Begin(t, [op |-> "inspect", thread |-> 0, levels |-> ImplicitLevels, index |-> i],
          "backend")

\* The thread: the explicit one, else the last stopped, else 1.
ReadThread(t) ==
  /\ Goto(t, "thread", IF call[t].op = "backtrace" THEN "backend" ELSE "trace")
  /\ call' = [call EXCEPT ![t].thread =
                IF @ # 0 THEN @ ELSE IF last # 0 THEN last ELSE 1]
  /\ UNCHANGED <<overlap, sessionVars, conn, frames, adapterVars, countVars,
                 historyVars>>

\* current_backend; without one the call ends in an error.
TakeBackend(t) ==
  /\ \/ backend = 0 /\ Return(t, "backend")
     \/ /\ backend # 0
        /\ Goto(t, "backend", CASE call[t].op = "backtrace" -> "trace"
                                [] call[t].op = "threads" -> "list"
                                [] OTHER -> "lookup")
        /\ conn' = [conn EXCEPT ![t] = backend]
        /\ UNCHANGED <<call, frames>>
  /\ UNCHANGED <<overlap, sessionVars, adapterVars, countVars, historyVars>>

\* resolve_frame_id looks the index up in a clone of the map.
Lookup(t) ==
  LET hits == {f \in frameMap : f.index = call[t].index} IN
  /\ Goto(t, "lookup", IF hits = {} THEN "thread" ELSE "inspect")
  /\ frames' = [frames EXCEPT ![t] = hits]
  /\ UNCHANGED <<overlap, sessionVars, call, conn, adapterVars, countVars,
                 historyVars>>

\* Mutant of FrameMapping: the indices start at one.
FrameMappingFromOne(th, n, k) ==
  {[index |-> i + 1, thread |-> th, frame |-> i, conn |-> k] : i \in 0..(n - 1)}

\* The mapping built from a trace: index to frame id, for all its frames.
FrameMapping(th, n, k) ==
  {[index |-> i, thread |-> th, frame |-> i, conn |-> k] : i \in 0..(n - 1)}

\* Once the map is stored a backtrace returns its frames; the others go on.
Stored(t) ==
  \/ call[t].op = "backtrace" /\ Return(t, "store")
  \/ /\ call[t].op # "backtrace" /\ Goto(t, "store", "relookup")
     /\ UNCHANGED <<call, conn, frames>>

\* Mutant of StoreMapping: a map that is already there is kept.
StoreMappingOnce(t) ==
  /\ Stored(t)
  /\ frameMap' = IF frameMap = {} THEN frames[t] ELSE frameMap
  /\ UNCHANGED <<overlap, state, last, caching, backend, adapterVars, countVars,
                 historyVars>>

\* set_frame_mapping replaces the map, whatever happened during the await.
StoreMapping(t) ==
  /\ Stored(t)
  /\ frameMap' = frames[t]
  /\ UNCHANGED <<overlap, state, last, caching, backend, adapterVars, countVars,
                 historyVars>>

\* What the adapter can say about an index that is reported out of range.
BeyondTrace(t) ==
  call[t].index >= stacks[call[t].thread] \/ call[t].index >= ImplicitLevels

\* After an implicit stackTrace the index is looked up in the new mapping.
Relookup(t) ==
  LET hits == {f \in frames[t] : f.index = call[t].index} IN
  /\ \/ /\ hits # {} /\ Goto(t, "relookup", "inspect")
        /\ frames' = [frames EXCEPT ![t] = hits]
        /\ UNCHANGED <<call, conn, answer>>
     \/ /\ hits = {} /\ Return(t, "relookup")
        /\ answer' = Answer("outOfRange", TRUE, BeyondTrace(t))
  /\ UNCHANGED <<overlap, sessionVars, adapterVars, countVars, traced>>

\* threads marks the last stopped thread, as it is after the await.
MarkThread(t) ==
  /\ Return(t, "mark")
  /\ answer' = Answer("threads", TRUE, last = stoppedAt)
  /\ UNCHANGED <<overlap, sessionVars, adapterVars, countVars, traced>>

Handler(t) ==
  \/ Backtrace(t) \/ ListThreads(t) \/ Inspect(t) \/ ReadThread(t)
  \/ TakeBackend(t) \/ Lookup(t) \/ StoreMapping(t) \/ Relookup(t)
  \/ MarkThread(t)

----------------------------------------------------------------------------
(* The adapter (external) *)

Reachable(t) == conn[t] = backend /\ halted

\* stackTrace: the innermost frames of the thread, at most as many as asked.
TraceAnswered(t) ==
  LET th == call[t].thread
      n  == IF stacks[th] < call[t].levels THEN stacks[th] ELSE call[t].levels IN
  /\ Reachable(t)
  /\ Goto(t, "trace", "store")
  /\ frames' = [frames EXCEPT ![t] = FrameMapping(th, n, conn[t])]
  /\ traced' = th
  /\ UNCHANGED <<overlap, sessionVars, call, conn, adapterVars, countVars, answer>>

ThreadsAnswered(t) ==
  /\ Reachable(t)
  /\ Goto(t, "list", "mark")
  /\ UNCHANGED <<overlap, sessionVars, call, conn, frames, adapterVars, countVars,
                 historyVars>>

\* scopes and variables, or evaluate, of a frame that exists.
InspectAnswered(t) ==
  \E f \in frames[t] :
    /\ Reachable(t)
    /\ f.frame < stacks[f.thread]
    /\ Return(t, "inspect")
    /\ answer' = Answer("shown", f.frame = call[t].index,
                        f.thread = traced /\ f.conn = backend)
    /\ UNCHANGED <<overlap, sessionVars, adapterVars, countVars, traced>>

\* Any request may fail: the call returns the error and stores nothing.
RequestFails(t) ==
  /\ \E from \in {"trace", "list", "inspect"} : Return(t, from)
  /\ UNCHANGED <<overlap, sessionVars, adapterVars, countVars, historyVars>>

----------------------------------------------------------------------------
(* The session around them *)

Halts ==
  /\ halted' = TRUE
  /\ stoppedAt' \in Threads
  /\ stacks' \in Stacks
  /\ stops' = stops + 1

Launch ==
  /\ state = "idle"
  /\ Admitted
  /\ stops < MaxStops
  /\ state' = "configuring"
  /\ conns' = conns + 1
  /\ backend' = conns + 1
  /\ Halts
  /\ UNCHANGED <<overlap, last, caching, frameMap, taskVars, calls, historyVars>>

Resume ==
  /\ state = "stopped"
  /\ Admitted
  /\ stops < MaxStops
  /\ state' = "running"
  /\ halted' = FALSE
  /\ stacks' = Unknown
  /\ UNCHANGED <<overlap, last, caching, frameMap, backend, taskVars,
                 stoppedAt, countVars, historyVars>>

DebuggeeStops ==
  /\ backend # 0
  /\ ~halted
  /\ Halts
  /\ UNCHANGED <<overlap, sessionVars, taskVars, conns, calls, historyVars>>

\* launch and handle_stop_result, one at a time: the state first ...
SeeStop ==
  /\ state \in {"configuring", "running"}
  /\ halted
  /\ caching = 0
  /\ state' = "stopped"
  /\ caching' = stoppedAt
  /\ UNCHANGED <<overlap, last, frameMap, backend, taskVars, adapterVars,
                 countVars, historyVars>>

\* ... and the stop in a lock section of its own.
CacheStop ==
  /\ caching # 0
  /\ caching' = 0
  /\ last' = caching
  /\ UNCHANGED <<overlap, state, frameMap, backend, taskVars, adapterVars,
                 countVars, historyVars>>

\* Mutant of Disconnect: the reset leaves the frame map alone.
DisconnectKeepsFrames ==
  /\ backend # 0
  /\ Admitted
  /\ state' = "idle"
  /\ last' = 0
  /\ backend' = 0
  /\ halted' = FALSE
  /\ stacks' = Unknown
  /\ UNCHANGED <<overlap, caching, frameMap, taskVars, stoppedAt, countVars, historyVars>>

\* disconnect: the backend goes and the session is reset.
Disconnect ==
  /\ backend # 0
  /\ Admitted
  /\ state' = "idle"
  /\ last' = 0
  /\ frameMap' = {}
  /\ backend' = 0
  /\ halted' = FALSE
  /\ stacks' = Unknown
  /\ UNCHANGED <<overlap, caching, taskVars, stoppedAt, countVars, historyVars>>

Next ==
  \/ \E t \in Tasks :
       \/ Handler(t) \/ TraceAnswered(t) \/ ThreadsAnswered(t)
       \/ InspectAnswered(t) \/ RequestFails(t)
  \/ Launch \/ Resume \/ DebuggeeStops \/ SeeStop \/ CacheStop \/ Disconnect

Spec == Init /\ [][Next]_vars

----------------------------------------------------------------------------
(* Properties *)

Frames == [index : Nat, thread : Threads, frame : Nat, conn : Nat]

\* Every variable stays within its type.
TypeOK ==
  /\ overlap \in Overlaps
  /\ state \in {"idle", "configuring", "stopped", "running"}
  /\ last \in Threads \cup {0}
  /\ caching \in Threads \cup {0}
  /\ halted \in BOOLEAN
  /\ frameMap \subseteq Frames
  /\ {backend, conns, calls, stops} \subseteq Nat
  /\ pc \in [Tasks -> {"free", "thread", "backend", "lookup", "trace", "store",
                       "relookup", "inspect", "list", "mark"}]
  /\ call \in [Tasks -> [op : {"none", "backtrace", "threads", "inspect"},
                         thread : Threads \cup {0}, levels : Nat, index : Nat]]
  /\ \A t \in Tasks : pc[t] = "trace" => call[t].thread \in Threads
  /\ conn \in [Tasks -> Nat]
  /\ frames \in [Tasks -> SUBSET Frames]
  /\ answer \in [kind : {"none", "outOfRange", "threads", "shown"},
                 exact : BOOLEAN, true : BOOLEAN]
  /\ stoppedAt \in Threads
  /\ stacks \in [Threads -> Nat]
  /\ traced \in Threads \cup {0}

\* Index stability: however stale the frame map is, and whatever overlaps, a
\* call shows the frame with the index it was asked for, and the map is one
\* trace: traces, stops and disconnects never leave a mixture of two.
ShowsTheIndexAsked ==
  /\ answer.kind = "shown" => answer.exact
  /\ \A f, g \in frameMap : f.thread = g.thread /\ f.conn = g.conn

\* For a client that waits for its replies every answer is true: variables and
\* evaluate show a frame of the stack that was traced last, in the current
\* session (the backtrace the agent has in front of it); "out of range" is
\* only said of an index the stack does not have or that is beyond the implicit
\* trace; threads marks the thread that stopped.
AnswersAreTrue ==
  ~overlap => answer.true

\* The frame map of such a client never outlives its session.
NoFrameOutlivesItsSession ==
  ~overlap => \A f \in frameMap : f.conn = backend

\* Claimed of frame_index by the inspection skill ("default 0, the innermost"
\* frame of the stopped thread), for a client that names no thread.
ShowsTheStoppedThread ==
  \A t \in Tasks : ~overlap /\ pc[t] = "inspect" =>
    \A f \in frames[t] : f.thread = stoppedAt
=============================================================================
