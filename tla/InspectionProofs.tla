-------------------------- MODULE InspectionProofs --------------------------
(***************************************************************************)
(* Inspection for any threads, stacks, arguments and number of calls: the  *)
(* index a call is asked for is the one it shows, whatever overlaps; and   *)
(* for a client that waits for its replies every answer is true.           *)
(*                                                                         *)
(* Flatten, the walk of the variables tool, for any structures, depths,    *)
(* caps and filters: it shows the listing it should, and fetches only what *)
(* it shows as expanded.                                                   *)
(***************************************************************************)
EXTENDS Inspection, Flatten, SequenceTheorems, WellFoundedInduction, TLAPS

USE InspectionAssumption

\* The tools keep to their places, and the thread is resolved before a trace
\* is asked for it.
CallInv ==
  \A t \in Tasks :
    /\ pc[t] = "backend" => call[t].op \in {"backtrace", "threads", "inspect"}
    /\ pc[t] = "backend" /\ call[t].op = "backtrace" =>
         call[t].thread \in Threads
    /\ pc[t] \in {"store", "relookup"} => call[t].thread \in Threads
    /\ pc[t] \in {"thread", "trace", "store"} =>
         call[t].op \in {"backtrace", "inspect"}
    /\ pc[t] \in {"lookup", "relookup", "inspect"} => call[t].op = "inspect"

\* A mapping is one trace of one thread of one connection.
OneTrace(S) ==
  \A f, g \in S : f.thread = g.thread /\ f.conn = g.conn /\ f.index = f.frame

MapInv ==
  /\ OneTrace(frameMap)
  /\ \A t \in Tasks :
       /\ OneTrace(frames[t])
       /\ pc[t] = "inspect" => \A f \in frames[t] : f.index = call[t].index
  /\ answer.kind = "shown" => answer.exact

\* A client that waits has one call in flight, and meanwhile the session stays
\* as the call found it: stopped, with the stop cached.
SessionInv ==
  /\ state = "idle" <=> backend = 0
  /\ backend = 0 => frameMap = {} /\ ~halted
  /\ state = "stopped" =>
       halted /\ stoppedAt = IF caching = 0 THEN last ELSE caching
  /\ caching # 0 => state = "stopped"
  /\ \A t \in Tasks :
       pc[t] # "free" =>
         /\ state = "stopped" /\ caching = 0
         /\ \A u \in Tasks : pc[u] # "free" => u = t

\* What such a call holds is the last trace, in this session; and so is the
\* map, but for a trace that is about to be stored.
TraceInv ==
  /\ \A f \in frameMap :
       /\ f.conn = backend
       /\ f.thread = traced \/ \E t \in Tasks : pc[t] = "store"
  /\ \A t \in Tasks :
       /\ pc[t] = "free" => frames[t] = {}
       /\ pc[t] \in {"store", "relookup", "inspect"} =>
            \A f \in frames[t] : f.conn = backend /\ f.thread = traced
       /\ call[t].op = "inspect" => call[t].levels = ImplicitLevels
       /\ pc[t] \in {"store", "relookup"} /\ call[t].op = "inspect" =>
            frames[t] = FrameMapping(call[t].thread,
              IF stacks[call[t].thread] < ImplicitLevels
                THEN stacks[call[t].thread] ELSE ImplicitLevels,
              conn[t])
  /\ answer.true

ClientInv == ~overlap => SessionInv /\ TraceInv

IInv == TypeOK /\ CallInv /\ MapInv /\ ClientInv

----------------------------------------------------------------------------

\* The disjuncts of Next, by what they belong to.
LEMMA NextCases ==
  ASSUME [Next]_vars
  PROVE  \/ \E t \in Tasks :
              \/ Backtrace(t) \/ ListThreads(t) \/ Inspect(t)
              \/ ReadThread(t) \/ TakeBackend(t) \/ Lookup(t)
              \/ StoreMapping(t) \/ Relookup(t) \/ MarkThread(t)
              \/ TraceAnswered(t) \/ ThreadsAnswered(t)
              \/ InspectAnswered(t) \/ RequestFails(t)
         \/ Launch \/ Resume \/ DebuggeeStops
         \/ SeeStop \/ CacheStop \/ Disconnect
         \/ UNCHANGED vars
BY DEF Next, Handler

\* A mapping built from a trace is of its type and one trace.
LEMMA MappingIsOneTrace ==
  ASSUME NEW th \in Threads, NEW n \in Nat, NEW k \in Nat
  PROVE  /\ FrameMapping(th, n, k) \subseteq Frames
         /\ OneTrace(FrameMapping(th, n, k))
BY DEF FrameMapping, Frames, OneTrace

\* The arguments of a call that begins.
Args == [op : {"backtrace", "threads", "inspect"},
         thread : Threads \cup {0}, levels : Nat, index : Nat]

\* A call begins with arguments of its tool, at the place the tool begins at.
LEMMA CallBegins ==
  ASSUME NEW t, Backtrace(t) \/ ListThreads(t) \/ Inspect(t)
  PROVE  \E c \in Args, next \in {"thread", "backend"} :
           /\ Begin(t, c, next)
           /\ next = "thread" <=> c.op = "backtrace"
           /\ c.op = "inspect" => c.levels = ImplicitLevels
<1>1. CASE Backtrace(t)
  <2>1. PICK th \in ThreadArgs, l \in LevelArgs :
          Begin(t, [op |-> "backtrace", thread |-> th, levels |-> l,
                    index |-> 0], "thread")
    BY <1>1 DEF Backtrace
  <2>2. [op |-> "backtrace", thread |-> th, levels |-> l, index |-> 0] \in Args
    BY <2>1 DEF Args
  <2>. QED
    BY <2>1, <2>2
<1>2. CASE ListThreads(t)
  <2>1. [op |-> "threads", thread |-> 0, levels |-> 0, index |-> 0] \in Args
    BY DEF Args
  <2>. QED
    BY <1>2, <2>1 DEF ListThreads
<1>3. CASE Inspect(t)
  <2>1. PICK i \in Indices :
          Begin(t, [op |-> "inspect", thread |-> 0, levels |-> ImplicitLevels,
                    index |-> i], "backend")
    BY <1>3 DEF Inspect
  <2>2. [op |-> "inspect", thread |-> 0, levels |-> ImplicitLevels, index |-> i]
          \in Args
    BY <2>1 DEF Args
  <2>. QED
    BY <2>1, <2>2
<1>. QED
  BY <1>1, <1>2, <1>3

\* The types of the calls' state and of the rest.
CallType == [op : {"none", "backtrace", "threads", "inspect"},
             thread : Threads \cup {0}, levels : Nat, index : Nat]

TaskOK ==
  /\ pc \in [Tasks -> {"free", "thread", "backend", "lookup", "trace", "store",
                       "relookup", "inspect", "list", "mark"}]
  /\ call \in [Tasks -> CallType]
  /\ \A t \in Tasks : pc[t] = "trace" => call[t].thread \in Threads
  /\ conn \in [Tasks -> Nat]
  /\ frames \in [Tasks -> SUBSET Frames]
  /\ CallInv

SessionOK ==
  /\ overlap \in Overlaps
  /\ state \in {"idle", "configuring", "stopped", "running"}
  /\ last \in Threads \cup {0}
  /\ caching \in Threads \cup {0}
  /\ frameMap \subseteq Frames
  /\ {backend, conns, calls, stops} \subseteq Nat
  /\ stoppedAt \in Threads
  /\ stacks \in [Threads -> Nat]
  /\ traced \in Threads \cup {0}

AnswerSet == [kind : {"none", "outOfRange", "threads", "shown"},
              exact : BOOLEAN, true : BOOLEAN]

AnswerOK ==
  /\ halted \in BOOLEAN
  /\ answer \in AnswerSet

\* The parts make up the type.
LEMMA TypeParts == TypeOK /\ CallInv <=> TaskOK /\ SessionOK /\ AnswerOK
BY DEF TypeOK, TaskOK, SessionOK, AnswerOK, AnswerSet, CallType

\* A handler that returns keeps the types.
LEMMA ReturnType ==
  ASSUME TaskOK, NEW t \in Tasks, NEW from, Return(t, from)
  PROVE  TaskOK'
<1>1. NoCall \in CallType
  BY DEF NoCall, CallType
<1>. QED
  BY <1>1 DEF TaskOK, CallInv, Return, Goto

\* What is given as an answer is one.
LEMMA AnswerType ==
  ASSUME NEW kind \in {"outOfRange", "threads", "shown"},
         NEW e \in BOOLEAN, NEW b \in BOOLEAN
  PROVE  Answer(kind, e, b) \in AnswerSet
BY DEF Answer, AnswerSet

\* Every step keeps the types.
LEMMA TypeStep ==
  ASSUME TypeOK, CallInv, [Next]_vars
  PROVE  TypeOK' /\ CallInv'
<1>0. TaskOK /\ SessionOK /\ AnswerOK
  BY TypeParts
<1> SUFFICES TaskOK' /\ SessionOK' /\ AnswerOK'
  BY TypeParts DEF TypeOK, CallInv, TaskOK, SessionOK, AnswerOK,
     AnswerSet, CallType
<1> USE DEF sessionVars, taskVars, adapterVars, countVars, historyVars
<1>1. ASSUME NEW t \in Tasks, Backtrace(t) \/ ListThreads(t) \/ Inspect(t)
      PROVE  TaskOK' /\ SessionOK' /\ AnswerOK'
  <2>1. PICK c \in Args, next \in {"thread", "backend"} :
          /\ Begin(t, c, next)
          /\ next = "thread" <=> c.op = "backtrace"
    BY <1>1, CallBegins
  <2>2. c \in CallType
    BY DEF Args, CallType
  <2>3. TaskOK'
    BY <1>0, <2>1, <2>2 DEF TaskOK, CallInv, Begin, Goto, Args
  <2>4. SessionOK' /\ AnswerOK'
    BY <1>0, <2>1 DEF SessionOK, AnswerOK, Begin
  <2>. QED
    BY <2>3, <2>4
<1>2. ASSUME NEW t \in Tasks, ReadThread(t)
      PROVE  TaskOK' /\ SessionOK' /\ AnswerOK'
  <2>1. PICK th \in Threads : call' = [call EXCEPT ![t].thread = th]
    BY <1>0, <1>2 DEF ReadThread, TaskOK, SessionOK, CallType
  <2>2. TaskOK'
    BY <1>0, <1>2, <2>1 DEF ReadThread, TaskOK, CallInv, Goto, CallType
  <2>3. SessionOK' /\ AnswerOK'
    BY <1>0, <1>2 DEF SessionOK, AnswerOK, ReadThread
  <2>. QED
    BY <2>2, <2>3
<1>3. ASSUME NEW t \in Tasks, TakeBackend(t)
      PROVE  TaskOK' /\ SessionOK' /\ AnswerOK'
  <2>1. TaskOK'
    <3>1. CASE Return(t, "backend")
      BY <1>0, <3>1, ReturnType
    <3>2. CASE ~Return(t, "backend")
      <4>1. /\ pc[t] = "backend"
            /\ pc' = [pc EXCEPT ![t] = CASE call[t].op = "backtrace" -> "trace"
                                         [] call[t].op = "threads" -> "list"
                                         [] OTHER -> "lookup"]
            /\ conn' = [conn EXCEPT ![t] = backend]
            /\ UNCHANGED <<call, frames>>
        BY <1>3, <3>2 DEF TakeBackend, Goto
      <4>. QED
        BY <1>0, <4>1 DEF TaskOK, SessionOK, CallInv
    <3>. QED
      BY <3>1, <3>2
  <2>2. SessionOK' /\ AnswerOK'
    BY <1>0, <1>3 DEF SessionOK, AnswerOK, TakeBackend
  <2>. QED
    BY <2>1, <2>2
<1>4. ASSUME NEW t \in Tasks, Lookup(t)
      PROVE  TaskOK' /\ SessionOK' /\ AnswerOK'
  <2>1. PICK hits \in SUBSET Frames : frames' = [frames EXCEPT ![t] = hits]
    <3>1. {f \in frameMap : f.index = call[t].index} \in SUBSET Frames
      BY <1>0 DEF SessionOK
    <3>. QED
      BY <1>4, <3>1 DEF Lookup
  <2>2. /\ UNCHANGED <<call, conn>>
        /\ pc[t] = "lookup"
        /\ \E to \in {"thread", "inspect"} : pc' = [pc EXCEPT ![t] = to]
    BY <1>4 DEF Lookup, Goto
  <2>3. TaskOK'
    BY <1>0, <2>1, <2>2 DEF TaskOK, CallInv
  <2>4. SessionOK' /\ AnswerOK'
    BY <1>0, <1>4 DEF Lookup, SessionOK, AnswerOK
  <2>. QED
    BY <2>3, <2>4
<1>5. ASSUME NEW t \in Tasks, StoreMapping(t)
      PROVE  TaskOK' /\ SessionOK' /\ AnswerOK'
  <2>1. TaskOK'
    BY <1>0, <1>5, ReturnType DEF StoreMapping, Stored, TaskOK, CallInv, Goto
  <2>2. SessionOK' /\ AnswerOK'
    BY <1>0, <1>5 DEF SessionOK, AnswerOK, StoreMapping, TaskOK
  <2>. QED
    BY <2>1, <2>2
<1>6. ASSUME NEW t \in Tasks, Relookup(t) \/ MarkThread(t)
      PROVE  TaskOK' /\ SessionOK' /\ AnswerOK'
  <2>1. TaskOK'
    <3>1. CASE MarkThread(t) \/ Return(t, "relookup")
      BY <1>0, <1>6, <3>1, ReturnType DEF MarkThread
    <3>2. CASE Relookup(t) /\ ~Return(t, "relookup")
      <4>1. PICK hits \in SUBSET Frames : frames' = [frames EXCEPT ![t] = hits]
        <5>1. {f \in frames[t] : f.index = call[t].index} \in SUBSET Frames
          BY <1>0 DEF TaskOK
        <5>. QED
          BY <3>2, <5>1 DEF Relookup
      <4>. QED
        BY <1>0, <3>2, <4>1 DEF Relookup, TaskOK, CallInv, Goto
    <3>. QED
      BY <1>6, <3>1, <3>2
  <2>2. SessionOK' /\ UNCHANGED halted
    <3>1. UNCHANGED <<overlap, sessionVars, adapterVars, countVars, traced>>
      BY <1>6 DEF Relookup, MarkThread
    <3>. QED
      BY <1>0, <3>1 DEF SessionOK
  <2>3. AnswerOK'
    <3>1. BeyondTrace(t) \in BOOLEAN
      BY DEF BeyondTrace
    <3>2. Answer("outOfRange", TRUE, BeyondTrace(t)) \in AnswerSet
      BY <3>1, AnswerType
    <3>3. Answer("threads", TRUE, last = stoppedAt) \in AnswerSet
      BY AnswerType, Zenon
    <3>4. answer' = answer \/ answer' \in AnswerSet
      BY <1>6, <3>2, <3>3 DEF Relookup, MarkThread
    <3>. QED
      BY <1>0, <2>2, <3>4 DEF AnswerOK
  <2>. QED
    BY <2>1, <2>2, <2>3
<1>7. ASSUME NEW t \in Tasks, TraceAnswered(t)
      PROVE  TaskOK' /\ SessionOK' /\ AnswerOK'
  <2>1. call[t].thread \in Threads /\ conn[t] \in Nat
    BY <1>0, <1>7 DEF TraceAnswered, TaskOK, Goto
  <2>2. PICK n \in Nat :
          frames' = [frames EXCEPT ![t] =
                       FrameMapping(call[t].thread, n, conn[t])]
    BY <1>0, <1>7, <2>1 DEF TraceAnswered, TaskOK, SessionOK, CallType
  <2>3. FrameMapping(call[t].thread, n, conn[t]) \subseteq Frames
    BY <2>1, MappingIsOneTrace
  <2>4. TaskOK'
    BY <1>0, <1>7, <2>2, <2>3 DEF TraceAnswered, TaskOK, CallInv, Goto
  <2>5. SessionOK' /\ AnswerOK'
    BY <1>0, <1>7, <2>1 DEF SessionOK, AnswerOK, TraceAnswered
  <2>. QED
    BY <2>4, <2>5
<1>8. ASSUME NEW t \in Tasks,
             ThreadsAnswered(t) \/ InspectAnswered(t) \/ RequestFails(t)
      PROVE  TaskOK' /\ SessionOK' /\ AnswerOK'
  <2>1. TaskOK'
    BY <1>0, <1>8, ReturnType
       DEF ThreadsAnswered, InspectAnswered, RequestFails, TaskOK, CallInv, Goto
  <2>2. SessionOK' /\ UNCHANGED halted
    BY <1>0, <1>8 DEF SessionOK, ThreadsAnswered, InspectAnswered, RequestFails
  <2>3. AnswerOK'
    <3>1. ASSUME NEW f
          PROVE  Answer("shown", f.frame = call[t].index,
                        f.thread = traced /\ f.conn = backend) \in AnswerSet
      BY AnswerType, Zenon
    <3>2. answer' = answer \/ answer' \in AnswerSet
      BY <1>8, <3>1 DEF ThreadsAnswered, InspectAnswered, RequestFails
    <3>. QED
      BY <1>0, <2>2, <3>2 DEF AnswerOK
  <2>. QED
    BY <2>1, <2>2, <2>3
<1>9. CASE \/ Launch \/ Resume \/ DebuggeeStops
           \/ SeeStop \/ CacheStop \/ Disconnect
  <2>1. Unknown \in [Threads -> Nat]
    BY DEF Unknown
  <2>2. UNCHANGED <<pc, call, conn, frames, answer>>
    BY <1>9 DEF Launch, Resume, DebuggeeStops, SeeStop, CacheStop, Disconnect
  <2>3. AnswerOK'
    BY <1>0, <1>9, <2>2 DEF Launch, Resume, DebuggeeStops, Halts, SeeStop,
       CacheStop, Disconnect, AnswerOK
  <2>4. CASE Launch \/ Resume \/ DebuggeeStops
    BY <1>0, <2>1, <2>2, <2>3, <2>4 DEF Launch, Resume, DebuggeeStops, Halts,
       SessionOK, TaskOK, CallInv
  <2>5. CASE SeeStop \/ CacheStop \/ Disconnect
    BY <1>0, <2>1, <2>2, <2>3, <2>5 DEF SeeStop, CacheStop, Disconnect,
       SessionOK, TaskOK, CallInv
  <2>. QED
    BY <1>9, <2>4, <2>5
<1>10. CASE UNCHANGED vars
  BY <1>0, <1>10 DEF vars, TaskOK, SessionOK, AnswerOK, CallInv
<1>. QED
  BY <1>1, <1>2, <1>3, <1>4, <1>5, <1>6, <1>7, <1>8, <1>9, <1>10,
     NextCases

\* Every step leaves the map one trace and the answers about the index asked.
LEMMA MapStep ==
  ASSUME TypeOK, CallInv, MapInv, [Next]_vars
  PROVE  MapInv'
<1>0. TaskOK /\ SessionOK
  BY TypeParts
<1> USE DEF sessionVars, taskVars, adapterVars, countVars, historyVars
<1>1. ASSUME NEW t \in Tasks, Backtrace(t) \/ ListThreads(t) \/ Inspect(t)
      PROVE  MapInv'
  <2>1. PICK c \in Args, next \in {"thread", "backend"} : Begin(t, c, next)
    BY <1>1, CallBegins
  <2>. QED
    BY <1>0, <2>1 DEF MapInv, OneTrace, Begin, Goto, TaskOK
<1>2. ASSUME NEW t \in Tasks, ReadThread(t)
      PROVE  MapInv'
  <2>1. /\ UNCHANGED <<frameMap, frames, answer>>
        /\ \A u \in Tasks : pc'[u] = "inspect" => u # t /\ pc[u] = "inspect"
        /\ \A u \in Tasks \ {t} : call'[u] = call[u]
    BY <1>0, <1>2 DEF ReadThread, Goto, TaskOK
  <2>. QED
    BY <2>1 DEF MapInv, OneTrace
<1>3. ASSUME NEW t \in Tasks,
             \/ TakeBackend(t) \/ MarkThread(t)
             \/ ThreadsAnswered(t) \/ RequestFails(t)
      PROVE  MapInv'
  <2>1. /\ UNCHANGED frameMap
        /\ \A u \in Tasks : frames'[u] = frames[u] \/ frames'[u] = {}
        /\ \A u \in Tasks : pc'[u] = "inspect" => u # t /\ pc[u] = "inspect"
        /\ \A u \in Tasks \ {t} : call'[u] = call[u] /\ frames'[u] = frames[u]
    BY <1>0, <1>3 DEF TakeBackend, MarkThread, ThreadsAnswered, RequestFails,
       Return, Goto, TaskOK
  <2>2. answer'.kind = "shown" => answer' = answer
    BY <1>3 DEF TakeBackend, MarkThread, ThreadsAnswered, RequestFails, Answer
  <2>. QED
    BY <2>1, <2>2 DEF MapInv, OneTrace
<1>4. ASSUME NEW t \in Tasks, Lookup(t)
      PROVE  MapInv'
  <2>1. OneTrace({f \in frameMap : f.index = call[t].index})
    BY DEF MapInv, OneTrace
  <2>. QED
    BY <1>0, <1>4, <2>1 DEF Lookup, MapInv, Goto, TaskOK
<1>5. ASSUME NEW t \in Tasks, StoreMapping(t)
      PROVE  MapInv'
  <2>1. /\ frameMap' = frames[t] /\ UNCHANGED answer
        /\ \A u \in Tasks : frames'[u] = frames[u] \/ frames'[u] = {}
        /\ \A u \in Tasks : pc'[u] = "inspect" => u # t /\ pc[u] = "inspect"
        /\ \A u \in Tasks \ {t} : call'[u] = call[u] /\ frames'[u] = frames[u]
    BY <1>0, <1>5 DEF StoreMapping, Stored, Return, Goto, TaskOK
  <2>. QED
    BY <2>1 DEF MapInv, OneTrace
<1>6. ASSUME NEW t \in Tasks, Relookup(t)
      PROVE  MapInv'
  <2>1. OneTrace({f \in frames[t] : f.index = call[t].index})
    BY DEF MapInv, OneTrace
  <2>2. UNCHANGED frameMap /\ (answer'.kind = "shown" => answer' = answer)
    BY <1>6 DEF Relookup, Answer
  <2>3. CASE Return(t, "relookup")
    <3>1. /\ \A u \in Tasks : frames'[u] = frames[u] \/ frames'[u] = {}
          /\ \A u \in Tasks : pc'[u] = "inspect" => u # t /\ pc[u] = "inspect"
          /\ \A u \in Tasks \ {t} : call'[u] = call[u] /\ frames'[u] = frames[u]
      BY <1>0, <2>3 DEF Return, Goto, TaskOK
    <3>. QED
      BY <2>2, <3>1 DEF MapInv, OneTrace
  <2>4. CASE ~Return(t, "relookup")
    <3>1. /\ pc' = [pc EXCEPT ![t] = "inspect"]
          /\ frames' = [frames EXCEPT ![t] =
                          {f \in frames[t] : f.index = call[t].index}]
          /\ UNCHANGED call
      BY <1>6, <2>4 DEF Relookup, Goto
    <3>. QED
      BY <1>0, <2>1, <2>2, <3>1 DEF MapInv, TaskOK
  <2>. QED
    BY <2>3, <2>4
<1>7. ASSUME NEW t \in Tasks, TraceAnswered(t)
      PROVE  MapInv'
  <2>1. call[t].thread \in Threads /\ conn[t] \in Nat
    BY <1>0, <1>7 DEF TraceAnswered, TaskOK, Goto
  <2>2. PICK n \in Nat :
          frames' = [frames EXCEPT ![t] =
                       FrameMapping(call[t].thread, n, conn[t])]
    BY <1>0, <1>7, <2>1 DEF TraceAnswered, TaskOK, SessionOK, CallType
  <2>3. OneTrace(FrameMapping(call[t].thread, n, conn[t]))
    BY <2>1, MappingIsOneTrace
  <2>. QED
    BY <1>0, <1>7, <2>2, <2>3 DEF TraceAnswered, MapInv, Goto, TaskOK
<1>8. ASSUME NEW t \in Tasks, InspectAnswered(t)
      PROVE  MapInv'
  <2>1. PICK f \in frames[t] :
          /\ Return(t, "inspect")
          /\ answer' = Answer("shown", f.frame = call[t].index,
                              f.thread = traced /\ f.conn = backend)
          /\ UNCHANGED frameMap
    BY <1>8 DEF InspectAnswered
  <2>2. f.frame = call[t].index
    BY <2>1 DEF MapInv, OneTrace, Return, Goto
  <2>3. answer'.exact
    BY <2>1, <2>2 DEF Answer
  <2>4. /\ \A u \in Tasks : frames'[u] = frames[u] \/ frames'[u] = {}
        /\ \A u \in Tasks : pc'[u] = "inspect" => u # t /\ pc[u] = "inspect"
        /\ \A u \in Tasks \ {t} : call'[u] = call[u] /\ frames'[u] = frames[u]
    BY <1>0, <2>1 DEF Return, Goto, TaskOK
  <2>. QED
    BY <2>1, <2>3, <2>4 DEF MapInv, OneTrace
<1>9. CASE \/ Launch \/ Resume \/ DebuggeeStops
           \/ SeeStop \/ CacheStop \/ Disconnect \/ UNCHANGED vars
  <2>1. /\ UNCHANGED <<pc, call, frames, answer>>
        /\ frameMap' = frameMap \/ frameMap' = {}
    BY <1>9 DEF Launch, Resume, DebuggeeStops, SeeStop, CacheStop, Disconnect, vars
  <2>. QED
    BY <2>1 DEF MapInv, OneTrace
<1>. QED
  BY <1>1, <1>2, <1>3, <1>4, <1>5, <1>6, <1>7, <1>8, <1>9, NextCases

\* For a client that waits: the session stays as a call found it ...
LEMMA SessionStep ==
  ASSUME TypeOK, CallInv, ~overlap, SessionInv, [Next]_vars
  PROVE  SessionInv'
<1>0. TaskOK /\ SessionOK
  BY TypeParts
<1> USE DEF sessionVars, taskVars, adapterVars, countVars, historyVars
<1>1. ASSUME NEW t \in Tasks, Backtrace(t) \/ ListThreads(t) \/ Inspect(t)
      PROVE  SessionInv'
  <2>1. PICK c \in Args, next \in {"thread", "backend"} : Begin(t, c, next)
    BY <1>1, CallBegins
  <2>. QED
    BY <1>0, <2>1 DEF SessionInv, Begin, Admitted, Goto, TaskOK
<1>2. ASSUME NEW t \in Tasks,
             \/ ReadThread(t) \/ TakeBackend(t) \/ Lookup(t)
             \/ StoreMapping(t) \/ Relookup(t) \/ MarkThread(t)
             \/ TraceAnswered(t) \/ ThreadsAnswered(t)
             \/ InspectAnswered(t) \/ RequestFails(t)
      PROVE  SessionInv'
  <2>1. pc[t] # "free" /\ \E to : pc' = [pc EXCEPT ![t] = to]
    BY <1>2 DEF ReadThread, TakeBackend, Lookup, StoreMapping, Stored, Relookup,
       MarkThread, TraceAnswered, ThreadsAnswered, InspectAnswered, RequestFails,
       Return, Goto
  <2>2. UNCHANGED <<state, last, caching, backend, halted, stoppedAt>>
    BY <1>2 DEF ReadThread, TakeBackend, Lookup, StoreMapping, Relookup,
       MarkThread, TraceAnswered, ThreadsAnswered, InspectAnswered, RequestFails
  <2>3. UNCHANGED frameMap \/ state = "stopped"
    BY <2>1 DEF SessionInv
  <2>. QED
    BY <1>0, <2>1, <2>2, <2>3 DEF SessionInv, TaskOK
<1>3. CASE Launch \/ Resume \/ DebuggeeStops
  BY <1>0, <1>3 DEF Launch, Resume, DebuggeeStops, Halts, Admitted, SessionInv,
     SessionOK
<1>4. CASE SeeStop \/ CacheStop \/ Disconnect
  BY <1>0, <1>4 DEF SeeStop, CacheStop, Disconnect, Admitted, SessionInv, SessionOK
<1>5. CASE UNCHANGED vars
  BY <1>5 DEF vars, SessionInv
<1>. QED
  BY <1>1, <1>2, <1>3, <1>4, <1>5, NextCases

\* ... and what its calls hold, and say, is the last trace.
LEMMA TraceStep ==
  ASSUME TypeOK, CallInv, MapInv, ~overlap, SessionInv, TraceInv, [Next]_vars
  PROVE  TraceInv'
<1>0. TaskOK /\ SessionOK
  BY TypeParts
<1> USE DEF sessionVars, taskVars, adapterVars, countVars, historyVars
<1>1. ASSUME NEW t \in Tasks, Backtrace(t) \/ ListThreads(t) \/ Inspect(t)
      PROVE  TraceInv'
  <2>1. PICK c \in Args, next \in {"thread", "backend"} :
          /\ Begin(t, c, next)
          /\ c.op = "inspect" => c.levels = ImplicitLevels
    BY <1>1, CallBegins
  <2>. QED
    BY <1>0, <2>1 DEF TraceInv, Begin, Admitted, Goto, TaskOK
<1>2. ASSUME NEW t \in Tasks, pc[t] # "free"
      PROVE  \A u \in Tasks \ {t} : pc[u] = "free"
  BY <1>2 DEF SessionInv
<1>3. ASSUME NEW t \in Tasks,
             \/ ReadThread(t) \/ TakeBackend(t) \/ ThreadsAnswered(t)
             \/ RequestFails(t)
      PROVE  TraceInv'
  <2>1. /\ pc[t] \notin {"free", "store"}
        /\ pc'[t] \notin {"store", "relookup", "inspect"}
    BY <1>0, <1>3 DEF ReadThread, TakeBackend, ThreadsAnswered, RequestFails,
       Return, Goto, TaskOK
  <2>2. \A u \in Tasks \ {t} : pc[u] = "free" /\ pc'[u] = "free"
                               /\ frames'[u] = frames[u] /\ call'[u] = call[u]
    BY <1>0, <1>2, <1>3, <2>1 DEF ReadThread, TakeBackend, ThreadsAnswered,
       RequestFails, Return, Goto, TaskOK
  <2>3. UNCHANGED <<frameMap, backend, traced, answer>>
    BY <1>3 DEF ReadThread, TakeBackend, ThreadsAnswered, RequestFails
  <2>4. /\ pc'[t] = "free" => frames'[t] = {}
        /\ call'[t].op = "inspect" => call'[t].levels = ImplicitLevels
    BY <1>0, <1>3 DEF ReadThread, TakeBackend, ThreadsAnswered, RequestFails,
       Return, Goto, TaskOK, TraceInv, CallType, NoCall
  <2>. QED
    BY <1>0, <2>1, <2>2, <2>3, <2>4 DEF TraceInv
<1>4. ASSUME NEW t \in Tasks, Lookup(t)
      PROVE  TraceInv'
  <2>1. \A u \in Tasks : pc[u] # "store"
    BY <1>2, <1>4 DEF Lookup, Goto
  <2>. QED
    BY <1>0, <1>4, <2>1 DEF Lookup, TraceInv, Goto, TaskOK
<1>5. ASSUME NEW t \in Tasks, StoreMapping(t)
      PROVE  TraceInv'
  <2>1. pc[t] = "store" /\ pc'[t] \in {"free", "relookup"}
    BY <1>0, <1>5 DEF StoreMapping, Stored, Return, Goto, TaskOK
  <2>2. \A u \in Tasks \ {t} : pc[u] = "free" /\ pc'[u] = "free"
                               /\ frames'[u] = frames[u] /\ call'[u] = call[u]
    BY <1>0, <1>2, <1>5, <2>1 DEF StoreMapping, Stored, Return, Goto, TaskOK
  <2>3. /\ UNCHANGED <<backend, traced, answer, stacks>>
        /\ frameMap' = frames[t]
        /\ \/ pc'[t] = "free" /\ frames'[t] = {} /\ call'[t].op = "none"
           \/ pc'[t] = "relookup" /\ UNCHANGED <<frames, call, conn>>
    BY <1>0, <1>5 DEF StoreMapping, Stored, Return, Goto, TaskOK, NoCall
  <2>. QED
    BY <2>1, <2>2, <2>3 DEF TraceInv
<1>6. ASSUME NEW t \in Tasks, Relookup(t)
      PROVE  TraceInv'
  <2>1. /\ UNCHANGED <<frameMap, backend, traced>>
        /\ pc[t] = "relookup"
        /\ \/ /\ pc' = [pc EXCEPT ![t] = "inspect"]
              /\ frames' = [frames EXCEPT ![t] =
                              {f \in frames[t] : f.index = call[t].index}]
              /\ UNCHANGED call
           \/ /\ pc' = [pc EXCEPT ![t] = "free"]
              /\ frames' = [frames EXCEPT ![t] = {}]
              /\ call' = [call EXCEPT ![t] = NoCall]
    BY <1>6 DEF Relookup, Return, Goto
  <2>2. \A u \in Tasks \ {t} : pc[u] = "free" /\ pc'[u] = "free"
                               /\ frames'[u] = frames[u] /\ call'[u] = call[u]
    BY <1>0, <1>2, <2>1 DEF TaskOK
  <2>3. \/ pc'[t] = "free" /\ frames'[t] = {} /\ call'[t].op = "none"
        \/ pc'[t] = "inspect" /\ frames'[t] \subseteq frames[t] /\ UNCHANGED call
    BY <1>0, <2>1 DEF TaskOK, NoCall
  <2>4. answer'.true
    <3> DEFINE n == IF stacks[call[t].thread] < ImplicitLevels
                      THEN stacks[call[t].thread] ELSE ImplicitLevels
    <3>1. CASE UNCHANGED answer
      BY <3>1 DEF TraceInv
    <3>2. CASE answer' # answer
      <4>1. /\ {f \in frames[t] : f.index = call[t].index} = {}
            /\ answer' = Answer("outOfRange", TRUE, BeyondTrace(t))
        BY <1>6, <3>2 DEF Relookup
      <4>2. frames[t] = FrameMapping(call[t].thread, n, conn[t])
        BY <2>1 DEF TraceInv, CallInv
      <4>3. ASSUME NEW i \in 0..(n - 1)
            PROVE  i # call[t].index
        <5> DEFINE f == [index |-> i, thread |-> call[t].thread, frame |-> i,
                         conn |-> conn[t]]
        <5>1. f \in frames[t] /\ f.index = i
          BY <4>2 DEF FrameMapping
        <5>. HIDE DEF f
        <5>. QED
          BY <4>1, <5>1
      <4>4. call[t].index \in Nat /\ n \in Nat
        BY <1>0, <2>1 DEF TaskOK, SessionOK, CallInv, CallType
      <4>5. call[t].index >= n
        BY <4>3, <4>4
      <4>6. BeyondTrace(t)
        BY <4>5 DEF BeyondTrace
      <4>. QED
        BY <4>1, <4>6 DEF Answer
    <3>. QED
      BY <3>1, <3>2
  <2>. QED
    BY <2>1, <2>2, <2>3, <2>4 DEF TraceInv, CallInv
<1>7. ASSUME NEW t \in Tasks, MarkThread(t)
      PROVE  TraceInv'
  <2>1. last = stoppedAt
    BY <1>7 DEF MarkThread, Return, Goto, SessionInv
  <2>2. answer'.true
    BY <1>7, <2>1 DEF MarkThread, Answer
  <2>3. /\ pc' = [pc EXCEPT ![t] = "free"] /\ pc[t] = "mark"
        /\ frames' = [frames EXCEPT ![t] = {}]
        /\ call' = [call EXCEPT ![t] = NoCall]
        /\ UNCHANGED <<frameMap, backend, traced>>
    BY <1>7 DEF MarkThread, Return, Goto
  <2>. QED
    BY <1>0, <1>2, <2>2, <2>3 DEF TraceInv, TaskOK, NoCall
<1>8. ASSUME NEW t \in Tasks, TraceAnswered(t)
      PROVE  TraceInv'
  <2> DEFINE th == call[t].thread
             n  == IF stacks[th] < call[t].levels THEN stacks[th]
                                                  ELSE call[t].levels
  <2>1. /\ pc[t] = "trace" /\ pc' = [pc EXCEPT ![t] = "store"]
        /\ conn[t] = backend
        /\ frames' = [frames EXCEPT ![t] = FrameMapping(th, n, conn[t])]
        /\ traced' = th
        /\ UNCHANGED <<frameMap, backend, call, conn, stacks, answer>>
    BY <1>8 DEF TraceAnswered, Reachable, Goto
  <2>2. \A f \in FrameMapping(th, n, conn[t]) :
          f.conn = backend /\ f.thread = traced'
    BY <2>1 DEF FrameMapping
  <2>. QED
    BY <1>0, <1>2, <2>1, <2>2 DEF TraceInv, TaskOK
<1>9. ASSUME NEW t \in Tasks, InspectAnswered(t)
      PROVE  TraceInv'
  <2>1. PICK f \in frames[t] :
          /\ Return(t, "inspect")
          /\ answer' = Answer("shown", f.frame = call[t].index,
                              f.thread = traced /\ f.conn = backend)
          /\ UNCHANGED <<frameMap, backend, traced>>
    BY <1>9 DEF InspectAnswered
  <2>2. f.thread = traced /\ f.conn = backend
    BY <2>1 DEF Return, Goto, TraceInv
  <2>3. answer'.true
    BY <2>1, <2>2 DEF Answer
  <2>. QED
    BY <1>0, <1>2, <2>1, <2>3 DEF TraceInv, TaskOK, Return, Goto, NoCall
<1>10. CASE \/ Launch \/ Resume \/ DebuggeeStops
            \/ SeeStop \/ CacheStop \/ Disconnect \/ UNCHANGED vars
  <2>1. UNCHANGED <<pc, call, conn, frames, traced, answer>>
    BY <1>10 DEF Launch, Resume, DebuggeeStops, SeeStop, CacheStop, Disconnect,
       vars
  <2>2. \/ UNCHANGED <<frameMap, backend, stacks>>
        \/ \A t \in Tasks : pc[t] = "free"
    BY <1>10 DEF Launch, Resume, DebuggeeStops, SeeStop, CacheStop, Disconnect,
       vars, Admitted, SessionInv
  <2>3. frameMap' = {} \/ UNCHANGED <<frameMap, backend>>
    BY <1>10 DEF Launch, Resume, DebuggeeStops, SeeStop, CacheStop, Disconnect,
       vars, SessionInv
  <2>. QED
    BY <2>1, <2>2, <2>3 DEF TraceInv
<1>. QED
  BY <1>1, <1>3, <1>4, <1>5, <1>6, <1>7, <1>8, <1>9, <1>10, NextCases

\* The invariant holds of every behaviour.
LEMMA InvInductive == Spec => []IInv
<1>1. Init => IInv
  <2> SUFFICES ASSUME Init PROVE IInv
    OBVIOUS
  <2>1. TaskOK /\ SessionOK /\ AnswerOK
    <3>1. NoCall \in CallType /\ Unknown \in [Threads -> Nat]
      BY DEF NoCall, CallType, Unknown
    <3>2. TaskOK
      BY <3>1 DEF Init, TaskOK, CallInv
    <3>3. SessionOK
      BY <3>1 DEF Init, SessionOK
    <3>4. AnswerOK
      BY DEF Init, AnswerOK, AnswerSet, Answer
    <3>. QED
      BY <3>2, <3>3, <3>4
  <2>2. TypeOK /\ CallInv
    BY <2>1, TypeParts
  <2>3. MapInv
    BY DEF Init, MapInv, OneTrace, Answer
  <2>4. SessionInv /\ TraceInv
    BY DEF Init, SessionInv, TraceInv, Answer, NoCall
  <2>. QED
    BY <2>2, <2>3, <2>4 DEF IInv, ClientInv
<1>2. IInv /\ [Next]_vars => IInv'
  <2> SUFFICES ASSUME IInv, [Next]_vars
               PROVE  IInv'
    OBVIOUS
  <2>1. TypeOK' /\ CallInv' /\ MapInv'
    BY TypeStep, MapStep DEF IInv
  <2>2. UNCHANGED overlap
    BY DEF Next, Handler, Backtrace, ListThreads, Inspect, Begin, ReadThread,
       TakeBackend, Lookup, StoreMapping, Relookup, MarkThread, TraceAnswered,
       ThreadsAnswered, InspectAnswered, RequestFails, Launch, Resume,
       DebuggeeStops, SeeStop, CacheStop, Disconnect, vars
  <2>3. ClientInv'
    BY <2>2, SessionStep, TraceStep DEF IInv, ClientInv
  <2>. QED
    BY <2>1, <2>3 DEF IInv
<1>. QED
  BY <1>1, <1>2, PTL DEF Spec

\* Every variable stays within its type, for any threads, stacks, arguments
\* and number of calls.
THEOREM TypeCorrect == Spec => []TypeOK
<1>1. IInv => TypeOK
  BY DEF IInv
<1>. QED
  BY <1>1, InvInductive, PTL

\* Index stability (resolve_frame_id, set_frame_mapping): whatever overlaps and
\* however stale the map, a call shows the frame of the index it was asked for
\* and the map is one trace.
THEOREM IndexIsStable == Spec => []ShowsTheIndexAsked
<1>1. IInv => ShowsTheIndexAsked
  BY DEF IInv, MapInv, OneTrace, ShowsTheIndexAsked
<1>. QED
  BY <1>1, InvInductive, PTL

\* A client that waits for its replies is told the truth, however many calls,
\* stops and sessions came before: variables and evaluate answer from the last
\* trace, "out of range" is out of range, threads marks the thread that stopped.
THEOREM AnswersStayTrue == Spec => []AnswersAreTrue
<1>1. IInv => AnswersAreTrue
  BY DEF IInv, ClientInv, TraceInv, AnswersAreTrue
<1>. QED
  BY <1>1, InvInductive, PTL

\* The frame map of such a client is never that of an earlier session (reset).
THEOREM FramesEndWithSession == Spec => []NoFrameOutlivesItsSession
<1>1. IInv => NoFrameOutlivesItsSession
  BY DEF IInv, ClientInv, TraceInv, NoFrameOutlivesItsSession
<1>. QED
  BY <1>1, InvInductive, PTL
----------------------------------------------------------------------------
(* Flatten                                                                 *)

HIDE InspectionAssumption

Activation == [prefix : Seq(Nat), left : Int, next : Nat \ {0},
               vars : Seq(Refs \cup {0})]

\* The path into level k + 1, and the reference of level k.
Path(s, k) == [i \in 1..k |-> s[i].next - 1]
RefOf(s, k) == IF k = 1 THEN root ELSE s[k - 1].vars[s[k - 1].next - 1]

\* An activation is of the level that the ones below it lead to.
FrameOK(s, k) ==
  /\ RefOf(s, k) \in Refs
  /\ s[k].prefix = Path(s, k - 1)
  /\ s[k].left = depth - (k - 1)
  /\ s[k].vars = tree[RefOf(s, k)]
  /\ s[k].next <= Len(s[k].vars) + 1

\* One that waits for a deeper level has let the variable before next in.
Inside(s, k) == s[k].next > 1 /\ (k = 1 => s[k].next - 1 \in filter)

StackInv ==
  /\ Len(stack) <= depth + 1
  /\ \A k \in DOMAIN stack :
       /\ FrameOK(stack, k)
       /\ k < Len(stack) \/ stage = "fetch" => Inside(stack, k)
  /\ stage = "walk" => stack # <<>>
  /\ stage = "fetch" =>
       /\ Len(stack) <= depth
       /\ RefOf(stack, Len(stack) + 1) \in Refs
       /\ want = Level(RefOf(stack, Len(stack) + 1), Path(stack, Len(stack)),
                       depth - Len(stack))

\* The first dotted name that the walk has not come to.
Cursor(s, fetching) ==
  IF fetching THEN Append(Path(s, Len(s)), 1)
              ELSE Append(Path(s, Len(s) - 1), s[Len(s)].next)

\* What is shown is what comes before the cursor.
ShownInv ==
  /\ Ordered(result)
  /\ Shown \subseteq Reference
  /\ stage \in {"fetch", "walk"} =>
       /\ Len(result) < maxCount
       /\ \A e \in Reference : e \in Shown <=> Before(e.name, Cursor(stack, stage = "fetch"))

\* What was fetched, and is about to be, is shown as expanded.
Expanded(p) == \E e \in Shown : e.name = p /\ ~e.hasChildren
FetchInv ==
  /\ \A p \in fetched \ {<<>>} : Len(p) <= depth /\ Expanded(p)
  /\ stage = "fetch" =>
       /\ want.prefix \notin fetched
       /\ want.prefix # <<>> => Expanded(want.prefix)

WalkInv == WalkTypeOK /\ StackInv /\ ShownInv /\ FetchInv /\ MatchesReference

\* A set of natural numbers that is not empty has a least element: what is
\* shown of every position, without induction, is shown of the first at which
\* it would go wrong.
LEMMA LeastExists ==
  ASSUME NEW S \in SUBSET Nat, S # {}
  PROVE  \E n \in S : \A m \in S : n <= m
<1> DEFINE Less == {p \in Nat \X Nat : p[1] < p[2]}
<1>1. IsWellFoundedOn(Less, Nat)
  BY NatLessThanWellFounded DEF OpToRel
<1>2. PICK n \in S : \A m \in S : <<m, n>> \notin Less
  <2> HIDE DEF Less
  <2> QED
    BY <1>1, WFMin
<1>3. \A m \in S : n <= m
  <2> SUFFICES ASSUME NEW m \in S PROVE n <= m
    OBVIOUS
  <2>1. m \in Nat /\ n \in Nat
    OBVIOUS
  <2>2. m < n => <<m, n>> \in Less
    BY <2>1
  <2> QED
    BY <1>2, <2>1, <2>2
<1> QED
  BY <1>3

\* The listing's order is strict.
LEMMA BeforeIrreflexive ==
  ASSUME NEW p \in Seq(Nat)
  PROVE  ~Before(p, p)
BY DEF Before

\* And total.
LEMMA BeforeTotal ==
  ASSUME NEW p \in Seq(Nat), NEW q \in Seq(Nat), p # q
  PROVE  Before(p, q) \/ Before(q, p)
<1> DEFINE D == {i \in Nat : i \in DOMAIN p /\ i \in DOMAIN q /\ p[i] # q[i]}
<1>1. CASE D = {}
  <2>1. \A i \in DOMAIN p : i \in DOMAIN q => p[i] = q[i]
    BY <1>1
  <2>2. Len(p) # Len(q)
    <3> SUFFICES ASSUME Len(p) = Len(q) PROVE FALSE
      OBVIOUS
    <3>1. DOMAIN p = 1..Len(p) /\ DOMAIN q = 1..Len(p)
      OBVIOUS
    <3>2. \A i \in 1..Len(p) : p[i] = q[i]
      BY <2>1, <3>1
    <3> QED
      BY <3>2, SeqEqual
  <2>3. CASE Len(p) < Len(q)
    BY <2>1, <2>3 DEF Before, Agree
  <2>4. CASE Len(q) < Len(p)
    BY <2>1, <2>4 DEF Before, Agree
  <2> QED
    BY <2>2, <2>3, <2>4
<1>2. CASE D # {}
  <2>1. D \in SUBSET Nat
    OBVIOUS
  <2>2. PICK k \in D : \A m \in D : k <= m
    BY <1>2, <2>1, LeastExists
  <2>3. Agree(p, q, k - 1) /\ Agree(q, p, k - 1)
    BY <2>2 DEF Agree
  <2>4. p[k] \in Nat /\ q[k] \in Nat /\ p[k] # q[k]
    BY <2>2
  <2>5. CASE p[k] < q[k]
    BY <2>2, <2>3, <2>5 DEF Before
  <2>6. CASE q[k] < p[k]
    BY <2>2, <2>3, <2>6 DEF Before
  <2> QED
    BY <2>4, <2>5, <2>6
<1> QED
  BY <1>1, <1>2

\* What comes before a path made longer by one position.
LEMMA BeforeAppend ==
  ASSUME NEW P \in Seq(Nat), NEW x \in Nat, NEW p \in Seq(Nat)
  PROVE  Before(p, Append(P, x)) <=>
           \/ Before(p, P)
           \/ /\ Len(p) >= Len(P) /\ Agree(p, P, Len(P))
              /\ Len(p) = Len(P) \/ p[Len(P) + 1] < x
<1> DEFINE A == Append(P, x)
<1>1. /\ A \in Seq(Nat) /\ Len(A) = Len(P) + 1 /\ Len(P) \in Nat /\ Len(p) \in Nat
      /\ \A i \in 1..Len(P) : A[i] = P[i]
      /\ A[Len(P) + 1] = x
  OBVIOUS
<1> HIDE DEF A
<1>2. \A n \in 0..Len(P) : Agree(p, A, n) <=> Agree(p, P, n)
  BY <1>1 DEF Agree
<1>3. Before(p, P) => Before(p, A)
  <2>1. CASE Len(p) < Len(P) /\ Agree(p, P, Len(p))
    BY <1>1, <1>2, <2>1 DEF Before
  <2>2. CASE \E k \in (DOMAIN p) \cap (DOMAIN P) : p[k] < P[k] /\ Agree(p, P, k - 1)
    <3>1. PICK k \in 1..Len(P) : k \in DOMAIN p /\ p[k] < P[k] /\ Agree(p, P, k - 1)
      BY <2>2
    <3>2. k \in DOMAIN A /\ p[k] < A[k] /\ Agree(p, A, k - 1)
      BY <1>1, <1>2, <3>1
    <3> QED
      BY <3>1, <3>2 DEF Before
  <2> QED
    BY <2>1, <2>2 DEF Before
<1>4. ASSUME Len(p) >= Len(P), Agree(p, P, Len(P)), Len(p) = Len(P) \/ p[Len(P) + 1] < x
      PROVE  Before(p, A)
  <2>1. Agree(p, A, Len(P))
    BY <1>1, <1>2, <1>4
  <2>2. CASE Len(p) = Len(P)
    BY <1>1, <2>1, <2>2 DEF Before
  <2>3. CASE Len(p) > Len(P)
    <3>1. Len(P) + 1 \in DOMAIN p /\ Len(P) + 1 \in DOMAIN A
      BY <1>1, <2>3
    <3>2. p[Len(P) + 1] < A[Len(P) + 1] /\ Agree(p, A, (Len(P) + 1) - 1)
      BY <1>1, <1>4, <2>1, <2>3
    <3> QED
      BY <3>1, <3>2 DEF Before
  <2> QED
    BY <1>1, <1>4, <2>2, <2>3
<1>5. ASSUME Before(p, A), ~Before(p, P)
      PROVE  /\ Len(p) >= Len(P) /\ Agree(p, P, Len(P))
             /\ Len(p) = Len(P) \/ p[Len(P) + 1] < x
  <2>1. CASE Len(p) < Len(A) /\ Agree(p, A, Len(p))
    <3>1. Agree(p, P, Len(p))
      BY <1>1, <1>2, <2>1
    <3>2. Len(p) = Len(P)
      BY <1>1, <1>5, <2>1, <3>1 DEF Before
    <3> QED
      BY <3>1, <3>2, <1>1
  <2>2. CASE \E k \in (DOMAIN p) \cap (DOMAIN A) : p[k] < A[k] /\ Agree(p, A, k - 1)
    <3>1. PICK k \in 1..(Len(P) + 1) : k \in DOMAIN p /\ p[k] < A[k] /\ Agree(p, A, k - 1)
      BY <1>1, <2>2
    <3>2. Agree(p, P, k - 1)
      BY <1>1, <1>2, <3>1
    <3>3. k = Len(P) + 1
      <4> SUFFICES ASSUME k <= Len(P) PROVE FALSE
        BY <1>1
      <4>1. k \in DOMAIN P /\ p[k] < P[k]
        BY <1>1, <3>1
      <4> QED
        BY <1>5, <3>1, <3>2, <4>1 DEF Before
    <3> QED
      BY <1>1, <3>1, <3>2, <3>3
  <2> QED
    BY <1>5, <2>1, <2>2 DEF Before
<1> QED
  BY <1>3, <1>4, <1>5 DEF A

\* The cursor goes down: only the node it was at comes before it in addition.
LEMMA CursorDown ==
  ASSUME NEW N \in Seq(Nat), NEW p \in Seq(Nat), \A i \in DOMAIN p : p[i] > 0
  PROVE  Before(p, Append(N, 1)) <=> Before(p, N) \/ p = N
<1>1. Len(p) >= Len(N) /\ Len(p) # Len(N) => p[Len(N) + 1] \in Nat /\ p[Len(N) + 1] > 0
  <2> SUFFICES ASSUME Len(p) >= Len(N), Len(p) # Len(N)
               PROVE  p[Len(N) + 1] \in Nat /\ p[Len(N) + 1] > 0
    OBVIOUS
  <2>1. Len(N) + 1 \in DOMAIN p
    OBVIOUS
  <2> QED
    BY <2>1
<1>2. Len(p) = Len(N) /\ Agree(p, N, Len(N)) <=> p = N
  BY SeqEqual DEF Agree
<1>3. ~(Len(p) >= Len(N) /\ Len(p) # Len(N) /\ p[Len(N) + 1] < 1)
  BY <1>1
<1>4. Len(p) = Len(N) => Len(p) >= Len(N)
  OBVIOUS
<1> QED
  BY <1>2, <1>3, <1>4, BeforeAppend, 1 \in Nat

\* The cursor goes on: past the node it was at and what is below.
LEMMA CursorOn ==
  ASSUME NEW P \in Seq(Nat), NEW x \in Nat, NEW p \in Seq(Nat)
  PROVE  Before(p, Append(P, x + 1)) <=>
           \/ Before(p, Append(P, x))
           \/ Len(p) > Len(P) /\ Agree(p, P, Len(P)) /\ p[Len(P) + 1] = x
<1>1. x + 1 \in Nat /\ Len(p) \in Nat /\ Len(P) \in Nat
  OBVIOUS
<1>2. Len(p) > Len(P) => p[Len(P) + 1] \in Nat
  <2>1. Len(p) > Len(P) => Len(P) + 1 \in DOMAIN p
    OBVIOUS
  <2> QED
    BY <2>1
<1> DEFINE y == p[Len(P) + 1]
           m == Len(p)
           n == Len(P)
           B == Before(p, P)
           G == Agree(p, P, Len(P))
<1>3. Before(p, Append(P, x + 1)) <=> B \/ (m >= n /\ G /\ (m = n \/ y < x + 1))
  BY <1>1, BeforeAppend
<1>4. Before(p, Append(P, x)) <=> B \/ (m >= n /\ G /\ (m = n \/ y < x))
  BY BeforeAppend
<1>5. m > n => y \in Nat
  BY <1>2
<1>6. m \in Nat /\ n \in Nat
  BY <1>1
<1> HIDE DEF y, m, n, B, G
<1>7. m >= n /\ G /\ (m = n \/ y < x + 1) <=>
        \/ m >= n /\ G /\ (m = n \/ y < x)
        \/ m > n /\ G /\ y = x
  BY <1>5, <1>6
<1> QED
  BY <1>3, <1>4, <1>7 DEF y, m, n, G

\* The cursor goes up: past what would follow in the level it leaves.
LEMMA CursorUp ==
  ASSUME NEW Q \in Seq(Nat), NEW x \in Nat, NEW y \in Nat, NEW p \in Seq(Nat),
         Before(p, Append(Q, x + 1)), ~Before(p, Append(Append(Q, x), y))
  PROVE  /\ Len(p) > Len(Q) + 1 /\ Agree(p, Append(Q, x), Len(Q) + 1)
         /\ p[Len(Q) + 2] >= y
<1> DEFINE P == Append(Q, x)
<1>1. P \in Seq(Nat) /\ Len(P) = Len(Q) + 1 /\ Len(Q) \in Nat /\ Len(p) \in Nat
      /\ (\A i \in 1..Len(Q) : P[i] = Q[i]) /\ P[Len(Q) + 1] = x
  OBVIOUS
<1> HIDE DEF P
<1>2. ~Before(p, P) /\ ~(Len(p) >= Len(P) /\ Agree(p, P, Len(P))
                          /\ (Len(p) = Len(P) \/ p[Len(P) + 1] < y))
  BY <1>1, BeforeAppend DEF P
<1>3. Len(p) > Len(Q) /\ Agree(p, Q, Len(Q)) /\ p[Len(Q) + 1] = x
  <2>1. ~Before(p, Append(Q, x))
    BY <1>2 DEF P
  <2> QED
    BY <2>1, CursorOn
<1>4. Agree(p, P, Len(P))
  <2>1. \A i \in 1..Len(P) : i \in 1..Len(Q) \/ i = Len(Q) + 1
    BY <1>1
  <2>2. \A i \in 1..Len(Q) : p[i] = Q[i]
    BY <1>3 DEF Agree
  <2> QED
    BY <1>1, <1>3, <2>1, <2>2 DEF Agree
<1>5. Len(p) > Len(P) /\ ~(p[Len(P) + 1] < y)
  BY <1>1, <1>2, <1>3, <1>4
<1>6. Len(P) + 1 \in DOMAIN p
  BY <1>1, <1>5
<1>7. p[Len(P) + 1] \in Nat
  BY <1>6
<1> QED
  BY <1>1, <1>4, <1>5, <1>7 DEF P

\* And nothing that came before stops doing so.
LEMMA CursorUpKeeps ==
  ASSUME NEW Q \in Seq(Nat), NEW x \in Nat, NEW y \in Nat, NEW p \in Seq(Nat),
         Before(p, Append(Append(Q, x), y))
  PROVE  Before(p, Append(Q, x + 1))
<1> DEFINE P == Append(Q, x)
<1>1. P \in Seq(Nat) /\ Len(P) = Len(Q) + 1 /\ Len(Q) \in Nat /\ Len(p) \in Nat
      /\ (\A i \in 1..Len(Q) : P[i] = Q[i]) /\ P[Len(Q) + 1] = x
  OBVIOUS
<1> HIDE DEF P
<1>2. Before(p, P) \/ (Len(p) >= Len(P) /\ Agree(p, P, Len(P)))
  BY <1>1, BeforeAppend DEF P
<1>3. Len(p) >= Len(P) /\ Agree(p, P, Len(P)) =>
        Len(p) > Len(Q) /\ Agree(p, Q, Len(Q)) /\ p[Len(Q) + 1] = x
  BY <1>1 DEF Agree
<1> QED
  BY <1>2, <1>3, CursorOn DEF P

LEMMA ActivationType ==
  ASSUME NEW a \in Activation
  PROVE  /\ a.next \in Nat /\ a.next > 0 /\ a.next - 1 \in Nat
         /\ a.vars \in Seq(Refs \cup {0}) /\ a.prefix \in Seq(Nat) /\ a.left \in Int
         /\ a = [prefix |-> a.prefix, left |-> a.left, next |-> a.next, vars |-> a.vars]
<1>1. a.next \in Nat \ {0}
  BY DEF Activation
<1>2. a.next \in Nat /\ a.next > 0 /\ a.next - 1 \in Nat
  BY <1>1
<1> QED
  BY <1>2 DEF Activation

\* A path is a sequence of positions, one longer at each level.
LEMMA PathIsSeq ==
  ASSUME NEW s \in Seq(Activation), NEW k \in 0..Len(s)
  PROVE  /\ Path(s, k) \in Seq(Nat) /\ Len(Path(s, k)) = k
         /\ \A i \in 1..k : Path(s, k)[i] = s[i].next - 1
<1>1. k \in Nat /\ \A i \in 1..k : s[i] \in Activation
  OBVIOUS
<1>2. \A i \in 1..k : s[i].next - 1 \in Nat
  BY <1>1, ActivationType
<1>3. Path(s, k) \in [1..k -> Nat]
  BY <1>2 DEF Path
<1> QED
  BY <1>1, <1>3 DEF Path

LEMMA PathOn ==
  ASSUME NEW s \in Seq(Activation), NEW k \in 1..Len(s)
  PROVE  /\ Path(s, k) = Append(Path(s, k - 1), s[k].next - 1)
         /\ s[k].next - 1 \in Nat
<1>1. k \in 0..Len(s) /\ k - 1 \in 0..Len(s) /\ s[k] \in Activation
  OBVIOUS
<1>2. s[k].next - 1 \in Nat
  BY <1>1, ActivationType
<1> DEFINE P == Path(s, k - 1)
           Q == Path(s, k)
           A == Append(P, s[k].next - 1)
<1>3. /\ P \in Seq(Nat) /\ Len(P) = k - 1
      /\ \A i \in 1..(k - 1) : P[i] = s[i].next - 1
  BY <1>1, PathIsSeq
<1>4. /\ Q \in Seq(Nat) /\ Len(Q) = k
      /\ \A i \in 1..k : Q[i] = s[i].next - 1
  BY <1>1, PathIsSeq
<1> HIDE DEF P, Q
<1>5. /\ A \in Seq(Nat) /\ Len(A) = k /\ (\A i \in 1..(k - 1) : A[i] = P[i])
      /\ A[k] = s[k].next - 1
  BY <1>2, <1>3
<1> HIDE DEF A
<1>6. \A i \in 1..k : i \in 1..(k - 1) \/ i = k
  OBVIOUS
<1>7. \A i \in 1..k : A[i] = Q[i]
  BY <1>3, <1>4, <1>5, <1>6
<1>8. A = Q
  BY <1>4, <1>5, <1>7, SeqEqual
<1> QED
  BY <1>2, <1>8 DEF A, P, Q

\* Paths and references depend on the activations below.
LEMMA SameBelow ==
  ASSUME NEW s, NEW t, NEW n \in Nat,
         \A i \in 1..n : s[i].next = t[i].next /\ s[i].vars = t[i].vars
  PROVE  /\ \A k \in 0..n : Path(s, k) = Path(t, k)
         /\ \A k \in 1..(n + 1) : RefOf(s, k) = RefOf(t, k)
<1>1. ASSUME NEW k \in 0..n
      PROVE  Path(s, k) = Path(t, k)
  <2>1. \A i \in 1..k : s[i].next = t[i].next
    BY <1>1
  <2> QED
    BY <2>1 DEF Path
<1>2. ASSUME NEW k \in 1..(n + 1)
      PROVE  RefOf(s, k) = RefOf(t, k)
  <2>1. k # 1 => k - 1 \in 1..n
    BY <1>2
  <2> QED
    BY <2>1 DEF RefOf
<1> QED
  BY <1>1, <1>2

LEMMA LevelType ==
  ASSUME WalkTypeOK, NEW r \in Refs
  PROVE  /\ tree[r] \in Seq(Refs \cup {0})
         /\ DOMAIN tree[r] = 1..Len(tree[r]) /\ Len(tree[r]) \in Nat
<1>1. tree[r] \in Seq(Refs \cup {0})
  BY FlattenAssumption DEF FlattenAssumption, WalkTypeOK
<1> QED
  BY <1>1

LEMMA EntryType ==
  ASSUME WalkTypeOK, NEW e \in Reference
  PROVE  /\ e.name \in Seq(Nat) /\ Len(e.name) \in 1..(depth + 1)
         /\ DOMAIN e.name = 1..Len(e.name)
         /\ \A i \in DOMAIN e.name : e.name[i] > 0
         /\ e.name[1] \in filter /\ e.hasChildren \in BOOLEAN
         /\ e = [name |-> e.name, hasChildren |-> e.hasChildren]
<1>1. e \in [name : Paths, hasChildren : BOOLEAN] /\ IsEntry(e)
  BY DEF Reference
<1>2. depth \in Nat
  BY FlattenAssumption DEF FlattenAssumption, WalkTypeOK
<1>3. \A i \in Positions : i \in Nat /\ i > 0
  BY LevelType DEF Positions
<1>4. PICK n \in 1..(depth + 1) : e.name \in [1..n -> Positions]
  BY <1>1 DEF Paths
<1>5. n \in Nat /\ DOMAIN e.name = 1..n
  BY <1>2, <1>4
<1>6. e.name \in [1..n -> Nat]
  BY <1>3, <1>4
<1>7. e.name \in Seq(Nat) /\ Len(e.name) = n
  BY <1>5, <1>6
<1>8. \A i \in DOMAIN e.name : e.name[i] > 0
  BY <1>3, <1>4
<1> QED
  BY <1>1, <1>4, <1>5, <1>7, <1>8 DEF IsEntry

\* The way to a name that follows the stack goes through its levels.
LEMMA WayIsStack ==
  ASSUME WalkTypeOK,
         NEW s \in Seq(Activation), \A k \in DOMAIN s : FrameOK(s, k),
         NEW p \in Seq(Nat), NEW way \in [1..Len(p) -> Refs], Leads(way, p),
         NEW m \in 1..Len(p), m <= Len(s) + 1, Agree(p, Path(s, m - 1), m - 1)
  PROVE  way[m] = RefOf(s, m)
<1> DEFINE D == {i \in 1..m : way[i] # RefOf(s, i)}
<1>1. m \in Nat /\ Len(p) \in Nat /\ Len(s) \in Nat /\ m <= Len(p)
  OBVIOUS
<1>2. ASSUME D # {} PROVE FALSE
  <2>1. D \in SUBSET Nat
    BY <1>1
  <2>2. PICK j \in D : \A i \in D : j <= i
    BY <1>2, <2>1, LeastExists
  <2>3. j \in 1..m /\ way[j] # RefOf(s, j)
    BY <2>2
  <2>4. CASE j = 1
    BY <2>3, <2>4 DEF Leads, RefOf
  <2>5. CASE j # 1
    <3> DEFINE i == j - 1
    <3>1. i \in 1..m /\ i \in 1..(Len(p) - 1) /\ i \in 1..(m - 1) /\ j = i + 1 /\ i < j
          /\ i \in 1..Len(s)
      BY <1>1, <2>3, <2>5
    <3> HIDE DEF i
    <3>2. way[i] = RefOf(s, i)
      <4>1. i \notin D
        BY <1>1, <2>2, <2>3, <3>1
      <4> QED
        BY <3>1, <4>1
    <3>3. way[j] = tree[way[i]][p[i]]
      BY <3>1 DEF Leads
    <3>4. p[i] = s[i].next - 1
      <4>1. p[i] = Path(s, m - 1)[i]
        BY <3>1 DEF Agree
      <4>2. m - 1 \in 0..Len(s)
        BY <1>1
      <4> QED
        BY <3>1, <4>1, <4>2, PathIsSeq
    <3>5. s[i].vars = tree[RefOf(s, i)]
      BY <3>1 DEF FrameOK
    <3>6. RefOf(s, j) = s[i].vars[s[i].next - 1]
      <4>1. j - 1 = i
        BY <3>1
      <4> QED
        BY <2>5, <4>1 DEF RefOf
    <3> QED
      BY <2>3, <3>2, <3>3, <3>4, <3>5, <3>6
  <2> QED
    BY <2>4, <2>5
<1> QED
  BY <1>2

\* So an entry that follows the stack is of the level it comes to there.
LEMMA EntryInLevel ==
  ASSUME WalkTypeOK,
         NEW s \in Seq(Activation), \A k \in DOMAIN s : FrameOK(s, k),
         NEW e \in Reference, NEW m \in 1..Len(s),
         Len(e.name) >= m, Agree(e.name, Path(s, m - 1), m - 1)
  PROVE  /\ e.name[m] \in 1..Len(s[m].vars)
         /\ Len(e.name) > m => s[m].vars[e.name[m]] \in Refs
         /\ Len(e.name) = m =>
              e.hasChildren = (s[m].vars[e.name[m]] > 0 /\ m = depth + 1)
<1> DEFINE p == e.name
<1>1. p \in Seq(Nat) /\ DOMAIN p = 1..Len(p) /\ Len(p) \in Nat /\ m \in Nat
      /\ m \in 1..Len(p) /\ m <= Len(s) + 1
  <2>1. p \in Seq(Nat) /\ DOMAIN p = 1..Len(p) /\ Len(p) \in Nat
    BY EntryType
  <2>2. Len(p) >= m
    OBVIOUS
  <2> HIDE DEF p
  <2> QED
    BY <2>1, <2>2
<1>2. PICK way \in [1..Len(p) -> Refs] :
        /\ Leads(way, p)
        /\ e.hasChildren = (tree[way[Len(p)]][p[Len(p)]] > 0 /\ Len(p) = depth + 1)
  BY DEF Reference, IsEntry
<1>3. Agree(p, Path(s, m - 1), m - 1)
  OBVIOUS
<1> HIDE DEF p
<1>4. way[m] = RefOf(s, m)
  BY <1>1, <1>2, <1>3, WayIsStack
<1>5. s[m].vars = tree[way[m]] /\ way[m] \in Refs
  <2>1. m \in DOMAIN s
    OBVIOUS
  <2> QED
    BY <1>4, <2>1 DEF FrameOK
<1>6. p[m] \in 1..Len(s[m].vars)
  <2>1. p[m] \in DOMAIN tree[way[m]]
    BY <1>1, <1>2 DEF Leads
  <2> QED
    BY <1>5, <2>1, LevelType
<1>7. Len(p) > m => s[m].vars[p[m]] \in Refs
  <2> SUFFICES ASSUME Len(p) > m PROVE s[m].vars[p[m]] \in Refs
    OBVIOUS
  <2>1. m \in 1..(Len(p) - 1) /\ m + 1 \in 1..Len(p)
    BY <1>1
  <2>2. way[m + 1] = tree[way[m]][p[m]] /\ way[m + 1] \in Refs
    BY <1>2, <2>1 DEF Leads
  <2> QED
    BY <1>5, <2>2
<1>8. Len(p) = m => e.hasChildren = (s[m].vars[p[m]] > 0 /\ m = depth + 1)
  BY <1>2, <1>5
<1> QED
  BY <1>6, <1>7, <1>8 DEF p

LEMMA FrontFacts ==
  ASSUME NEW s \in Seq(Activation), Len(s) >= 1
  PROVE  /\ Front(s) \in Seq(Activation) /\ Len(Front(s)) = Len(s) - 1
         /\ DOMAIN Front(s) = 1..(Len(s) - 1)
         /\ \A k \in 1..(Len(s) - 1) : Front(s)[k] = s[k]
<1>1. \A i \in 1..(Len(s) - 1) : s[i] \in Activation
  OBVIOUS
<1> DEFINE n == Len(s) - 1
<1>2. n \in Nat /\ n = Len(s) - 1
  OBVIOUS
<1> HIDE DEF n
<1>3. n \in Int /\ (IF 1 <= n THEN (n - 1) + 1 ELSE 0) = n
  BY <1>2
<1>4. \A i \in 1..n : i \in 1..((n - 1) + 1) /\ (1 + i) - 1 = i
  BY <1>2
<1>5. /\ SubSeq(s, 1, n) \in Seq(Activation)
      /\ Len(SubSeq(s, 1, n)) = IF 1 <= n THEN (n - 1) + 1 ELSE 0
      /\ \A i \in 1..((n - 1) + 1) : SubSeq(s, 1, n)[i] = s[(1 + i) - 1]
  <2>1. \A i \in 1..n : s[i] \in Activation
    BY <1>1, <1>2
  <2> QED
    BY <1>3, <2>1, SubSeqProperties
<1>6. Front(s) = SubSeq(s, 1, n)
  BY <1>2 DEF Front
<1>7. /\ Front(s) \in Seq(Activation) /\ Len(Front(s)) = n
      /\ \A k \in 1..n : Front(s)[k] = s[k]
  BY <1>3, <1>4, <1>5, <1>6
<1> QED
  BY <1>2, <1>7

LEMMA TopFacts ==
  ASSUME WalkTypeOK, StackInv, stack # <<>>
  PROVE  /\ stack \in Seq(Activation) /\ Len(stack) \in Nat /\ Len(stack) >= 1
         /\ depth \in Nat /\ Len(stack) <= depth + 1
         /\ top = stack[Len(stack)] /\ top \in Activation
         /\ FrameOK(stack, Len(stack))
         /\ Path(stack, Len(stack) - 1) \in Seq(Nat)
         /\ Len(Path(stack, Len(stack) - 1)) = Len(stack) - 1
         /\ name = Append(Path(stack, Len(stack) - 1), top.next)
         /\ name \in Seq(Nat) /\ Len(name) = Len(stack)
<1>1. stack \in Seq(Activation) /\ depth \in Nat
  BY FlattenAssumption DEF FlattenAssumption, WalkTypeOK, Activation
<1>2. Len(stack) \in Nat /\ Len(stack) >= 1 /\ Len(stack) \in DOMAIN stack
      /\ Len(stack) - 1 \in 0..Len(stack)
  BY <1>1, EmptySeq
<1>3. top = stack[Len(stack)] /\ top \in Activation
  BY <1>1, <1>2 DEF top, Last
<1>4. FrameOK(stack, Len(stack)) /\ Len(stack) <= depth + 1
  BY <1>2 DEF StackInv
<1>5. Path(stack, Len(stack) - 1) \in Seq(Nat)
      /\ Len(Path(stack, Len(stack) - 1)) = Len(stack) - 1
  BY <1>1, <1>2, PathIsSeq
<1>6. name = Append(Path(stack, Len(stack) - 1), top.next)
  BY <1>3, <1>4 DEF name, FrameOK
<1>7. top.next \in Nat
  BY <1>3, ActivationType
<1> QED
  BY <1>1, <1>2, <1>3, <1>4, <1>5, <1>6, <1>7

\* The level after a variable was passed: its path is that variable's name.
LEMMA AdvancedFacts ==
  ASSUME WalkTypeOK, StackInv, stack # <<>>
  PROVE  /\ Advanced \in Seq(Activation) /\ Len(Advanced) = Len(stack)
         /\ \A k \in 1..(Len(stack) - 1) : Advanced[k] = stack[k]
         /\ Advanced[Len(stack)] = [top EXCEPT !.next = @ + 1]
         /\ Advanced[Len(stack)].next = top.next + 1
         /\ \A k \in 0..(Len(stack) - 1) : Path(Advanced, k) = Path(stack, k)
         /\ \A k \in 1..Len(stack) : RefOf(Advanced, k) = RefOf(stack, k)
         /\ Path(Advanced, Len(stack)) = name
         /\ RefOf(Advanced, Len(stack) + 1) = top.vars[top.next]
<1> DEFINE n == Len(stack)
           A == Advanced
           new == [top EXCEPT !.next = @ + 1]
<1>1. stack \in Seq(Activation) /\ n \in Nat /\ n >= 1 /\ top = stack[n]
      /\ top \in Activation /\ name = Append(Path(stack, n - 1), top.next)
  BY TopFacts
<1>2. new \in Activation /\ new.next = top.next + 1 /\ new.vars = top.vars
      /\ top.next \in Nat
  <2>1. top.next \in Nat /\ top.next + 1 \in Nat \ {0}
        /\ top = [prefix |-> top.prefix, left |-> top.left, next |-> top.next,
                  vars |-> top.vars]
    BY <1>1, ActivationType
  <2>2. new = [prefix |-> top.prefix, left |-> top.left, next |-> top.next + 1,
               vars |-> top.vars]
    BY <2>1
  <2>3. top.prefix \in Seq(Nat) /\ top.left \in Int /\ top.vars \in Seq(Refs \cup {0})
    BY <1>1, ActivationType
  <2> HIDE DEF new
  <2> QED
    BY <2>1, <2>2, <2>3 DEF Activation
<1> HIDE DEF new
<1>3. A \in Seq(Activation) /\ Len(A) = n /\ (\A k \in 1..(n - 1) : A[k] = stack[k])
      /\ A[n] = new
  <2>1. Front(stack) \in Seq(Activation) /\ Len(Front(stack)) = n - 1
        /\ \A k \in 1..(n - 1) : Front(stack)[k] = stack[k]
    BY <1>1, FrontFacts
  <2>2. A = Append(Front(stack), new)
    BY DEF Advanced, new
  <2> QED
    BY <1>1, <1>2, <2>1, <2>2
<1> HIDE DEF A, n
<1>4. \A i \in 1..(n - 1) : A[i].next = stack[i].next /\ A[i].vars = stack[i].vars
  BY <1>3
<1>5. n - 1 \in Nat
  BY <1>1
<1>6. /\ \A k \in 0..(n - 1) : Path(A, k) = Path(stack, k)
      /\ \A k \in 1..((n - 1) + 1) : RefOf(A, k) = RefOf(stack, k)
  BY <1>4, <1>5, SameBelow
<1>7. Path(A, n) = name
  <2>1. n \in 1..Len(A) /\ n - 1 \in 0..(n - 1)
    BY <1>1, <1>3
  <2>2. Path(A, n) = Append(Path(A, n - 1), A[n].next - 1)
    BY <1>3, <2>1, PathOn
  <2>3. A[n].next - 1 = top.next
    BY <1>2, <1>3
  <2>4. Path(A, n - 1) = Path(stack, n - 1)
    BY <1>6, <2>1
  <2> QED
    BY <1>1, <2>2, <2>3, <2>4
<1>8. RefOf(A, n + 1) = top.vars[top.next]
  <2>1. n + 1 # 1 /\ (n + 1) - 1 = n
    BY <1>1
  <2>2. RefOf(A, n + 1) = A[n].vars[A[n].next - 1]
    BY <2>1 DEF RefOf
  <2>3. A[n].next - 1 = top.next /\ A[n].vars = top.vars
    BY <1>2, <1>3
  <2> QED
    BY <2>2, <2>3
<1>9. \A k \in 1..n : RefOf(A, k) = RefOf(stack, k)
  BY <1>1, <1>6
<1> QED
  BY <1>2, <1>3, <1>6, <1>7, <1>8, <1>9 DEF A, n, new

\* What Emit shows is an entry of the reference.
Emitted ==
  [name |-> name,
   hasChildren |-> top.vars[top.next] > 0 /\ ~Expands(top.vars[top.next], top.left)]

LEMMA EmittedIsEntry ==
  ASSUME WalkTypeOK, StackInv, stack # <<>>, more, ~FilteredOut
  PROVE  Emitted \in Reference
<1> DEFINE n == Len(stack)
           P == Path(stack, n - 1)
           N == name
           way == [i \in 1..n |-> RefOf(stack, i)]
<1>1. /\ stack \in Seq(Activation) /\ n \in Nat /\ n >= 1 /\ depth \in Nat
      /\ n <= depth + 1 /\ top = stack[n] /\ top \in Activation /\ FrameOK(stack, n)
      /\ P \in Seq(Nat) /\ Len(P) = n - 1 /\ N = Append(P, top.next)
      /\ N \in Seq(Nat) /\ Len(N) = n
  BY TopFacts
<1>2. top.next \in Nat /\ top.next > 0 /\ top.next <= Len(top.vars)
      /\ Len(top.vars) \in Nat
  BY <1>1, ActivationType DEF more
<1>3. \A i \in 1..(n - 1) : N[i] = stack[i].next - 1
  <2>1. n - 1 \in 0..Len(stack)
    BY <1>1
  <2>2. \A i \in 1..(n - 1) : P[i] = stack[i].next - 1
    BY <1>1, <2>1, PathIsSeq
  <2> HIDE DEF P, N
  <2> QED
    BY <1>1, <2>2
<1>4. N[n] = top.next
  <2> HIDE DEF P, N
  <2> QED
    BY <1>1, <1>2
<1> HIDE DEF N
<1>5. \A i \in 1..n : FrameOK(stack, i)
  <2>1. \A i \in 1..n : i \in DOMAIN stack
    BY <1>1
  <2> QED
    BY <2>1 DEF StackInv
<1>6. \A i \in 1..(n - 1) : Inside(stack, i)
  <2>1. \A i \in 1..(n - 1) : i \in DOMAIN stack /\ i < Len(stack)
    BY <1>1
  <2> QED
    BY <2>1 DEF StackInv
<1>7. way \in [1..n -> Refs]
  BY <1>5 DEF FrameOK
<1>8. \A i \in 1..n : tree[way[i]] = stack[i].vars /\ N[i] \in DOMAIN tree[way[i]]
  <2> TAKE i \in 1..n
  <2>1. way[i] \in Refs /\ way[i] = RefOf(stack, i) /\ tree[way[i]] = stack[i].vars
        /\ stack[i].next <= Len(stack[i].vars) + 1
    BY <1>5, <1>7 DEF FrameOK
  <2>2. DOMAIN tree[way[i]] = 1..Len(stack[i].vars) /\ Len(stack[i].vars) \in Nat
    BY <2>1, LevelType
  <2>3. CASE i = n
    BY <1>1, <1>2, <1>4, <2>1, <2>2, <2>3
  <2>4. CASE i # n
    <3>1. i \in 1..(n - 1) /\ stack[i] \in Activation
      BY <1>1, <2>4
    <3>2. stack[i].next \in Nat /\ stack[i].next > 1
      BY <1>6, <3>1, ActivationType DEF Inside
    <3> QED
      BY <1>3, <2>1, <2>2, <3>1, <3>2
  <2> QED
    BY <2>3, <2>4
<1>9. \A i \in 1..(Len(N) - 1) : way[i + 1] = tree[way[i]][N[i]]
  <2> TAKE i \in 1..(Len(N) - 1)
  <2>1. i \in 1..n /\ i + 1 \in 1..n /\ i \in 1..(n - 1) /\ i + 1 # 1 /\ (i + 1) - 1 = i
    BY <1>1
  <2>2. way[i + 1] = stack[i].vars[stack[i].next - 1]
    BY <2>1 DEF RefOf
  <2> QED
    BY <1>3, <1>8, <2>1, <2>2
<1>10. Leads(way, N)
  <2>1. way[1] = root
    BY <1>1 DEF RefOf
  <2>2. DOMAIN N = 1..n
    BY <1>1
  <2> HIDE DEF way
  <2> QED
    BY <1>8, <1>9, <2>1, <2>2 DEF Leads
<1>11. N[1] \in filter
  <2>1. CASE n = 1
    BY <1>4, <2>1 DEF FilteredOut
  <2>2. CASE n # 1
    <3>1. 1 \in 1..(n - 1)
      BY <1>1, <2>2
    <3> QED
      BY <1>3, <1>6, <3>1 DEF Inside
  <2> QED
    BY <2>1, <2>2
<1>12. N \in Paths
  <2>1. \A i \in 1..n : N[i] \in Positions
    <3> TAKE i \in 1..n
    <3>1. way[i] \in Refs
      BY <1>7
    <3>2. N[i] \in DOMAIN tree[way[i]]
      BY <1>8
    <3> HIDE DEF way
    <3> QED
      BY <3>1, <3>2 DEF Positions
  <2>2. N \in [1..n -> Positions]
    <3>1. N = [i \in 1..n |-> N[i]]
      BY <1>1
    <3> HIDE DEF n, way, P
    <3> QED
      BY <2>1, <3>1
  <2>3. n \in 1..(depth + 1)
    BY <1>1
  <2> QED
    BY <2>2, <2>3 DEF Paths
<1>13. Emitted.hasChildren = (tree[way[n]][N[n]] > 0 /\ n = depth + 1)
  <2>1. tree[way[n]][N[n]] = top.vars[top.next]
    <3>1. n \in 1..n
      BY <1>1
    <3> HIDE DEF way
    <3> QED
      BY <1>1, <1>4, <1>8, <3>1
  <2>2. top.left = depth - (n - 1)
    BY <1>1 DEF FrameOK
  <2>3. ~(top.left > 0) <=> n = depth + 1
    BY <1>1, <2>2
  <2> QED
    BY <2>1, <2>3 DEF Emitted, Expands
<1> HIDE DEF way
<1>14. Emitted.name = N
  BY DEF Emitted, N
<1>15. IsEntry(Emitted)
  <2>1. Len(Emitted.name) = n
    BY <1>1, <1>14
  <2> QED
    BY <1>7, <1>10, <1>11, <1>13, <1>14, <2>1 DEF IsEntry
<1>16. Emitted \in [name : Paths, hasChildren : BOOLEAN]
  BY <1>12 DEF Emitted, N
<1> QED
  BY <1>15, <1>16 DEF Reference

LEMMA AdvancedFrames ==
  ASSUME WalkTypeOK, StackInv, stack # <<>>, more
  PROVE  /\ \A k \in DOMAIN Advanced : FrameOK(Advanced, k)
         /\ \A k \in DOMAIN Advanced : k < Len(Advanced) => Inside(Advanced, k)
<1> DEFINE n == Len(stack)
           A == Advanced
<1>1. /\ stack \in Seq(Activation) /\ n \in Nat /\ n >= 1
      /\ top = stack[n] /\ top \in Activation /\ top.next \in Nat
      /\ DOMAIN stack = 1..n
  BY TopFacts, ActivationType
<1>2. /\ A \in Seq(Activation) /\ Len(A) = n /\ DOMAIN A = 1..n
      /\ \A k \in 1..(n - 1) : A[k] = stack[k]
      /\ A[n] = [top EXCEPT !.next = @ + 1] /\ A[n].next = top.next + 1
      /\ \A k \in 0..(n - 1) : Path(A, k) = Path(stack, k)
      /\ \A k \in 1..n : RefOf(A, k) = RefOf(stack, k)
  BY AdvancedFacts
<1>3. A[n].prefix = top.prefix /\ A[n].left = top.left /\ A[n].vars = top.vars
  BY <1>1, <1>2 DEF Activation
<1>4. \A k \in 1..n : FrameOK(stack, k)
  BY <1>1 DEF StackInv
<1>5. \A k \in 1..(n - 1) : Inside(stack, k)
  BY <1>1 DEF StackInv
<1>6. top.next <= Len(top.vars)
  BY DEF more
<1>7. Len(top.vars) \in Nat
  BY <1>1, ActivationType
<1> HIDE DEF n, A
<1>8. ASSUME NEW k \in 1..n
      PROVE  FrameOK(A, k)
  <2>1. k - 1 \in 0..(n - 1) /\ Path(A, k - 1) = Path(stack, k - 1)
        /\ RefOf(A, k) = RefOf(stack, k)
    BY <1>1, <1>2
  <2>2. CASE k = n
    <3>1. A[n].next <= Len(A[n].vars) + 1
      BY <1>1, <1>2, <1>3, <1>6, <1>7
    <3> QED
      BY <1>1, <1>3, <1>4, <2>1, <2>2, <3>1 DEF FrameOK
  <2>3. CASE k # n
    <3>1. k \in 1..(n - 1) /\ A[k] = stack[k]
      BY <1>1, <1>2, <2>3
    <3> QED
      BY <1>4, <2>1, <3>1 DEF FrameOK
  <2> QED
    BY <2>2, <2>3
<1>9. ASSUME NEW k \in 1..n, k < n
      PROVE  Inside(A, k)
  <2>1. k \in 1..(n - 1)
    BY <1>1, <1>9
  <2> QED
    BY <1>2, <1>5, <2>1 DEF Inside
<1> QED
  BY <1>2, <1>8, <1>9 DEF A

\* What an action leaves alone.
LEMMA ReferenceSame ==
  ASSUME UNCHANGED inputs
  PROVE  Reference' = Reference
BY DEF inputs, Reference, Paths, Positions, IsEntry, Leads

LEMMA WalkTypeInit ==
  ASSUME WalkInit
  PROVE  WalkTypeOK
BY FlattenAssumption DEF FlattenAssumption, WalkInit, WalkTypeOK, Level

LEMMA WalkTypeStep ==
  ASSUME WalkTypeOK, StackInv, [WalkNext]_walkVars
  PROVE  WalkTypeOK'
<1>1. CASE Fetch
  <2>1. want.ref \in Refs /\ want.prefix \in Seq(Nat) /\ want.left \in Int
    BY DEF WalkTypeOK
  <2>2. tree[want.ref] \in Seq(Refs \cup {0})
    BY <2>1, LevelType
  <2>3. [prefix |-> want.prefix, left |-> want.left, next |-> 1,
         vars |-> tree[want.ref]] \in Activation
    BY <2>1, <2>2 DEF Activation
  <2>4. stack' \in Seq(Activation)
    BY <1>1, <2>3 DEF Fetch, WalkTypeOK, Activation
  <2> QED
    BY <1>1, <2>1, <2>4 DEF Fetch, WalkTypeOK, Activation, inputs
<1>2. CASE FetchFails
  <2>1. want.prefix \in Seq(Nat)
    BY DEF WalkTypeOK
  <2> QED
    BY <1>2, <2>1 DEF FetchFails, WalkTypeOK, inputs
<1>3. CASE Skip
  <2>1. Advanced \in Seq(Activation)
    BY <1>3, AdvancedFacts DEF Skip
  <2> QED
    BY <1>3, <2>1 DEF Skip, WalkTypeOK, Activation, inputs
<1>4. CASE Emit
  <2>1. Advanced \in Seq(Activation) /\ name \in Seq(Nat) /\ top \in Activation
    BY <1>4, AdvancedFacts, TopFacts DEF Emit
  <2>2. Emitted \in [name : Seq(Nat), hasChildren : BOOLEAN]
    BY <2>1 DEF Emitted
  <2>3. result' = Append(result, Emitted)
    BY <1>4 DEF Emit, Emitted
  <2>4. result' \in Seq([name : Seq(Nat), hasChildren : BOOLEAN])
    BY <2>2, <2>3 DEF WalkTypeOK
  <2>5. top.vars[top.next] \in Refs \cup {0} /\ top.left \in Int /\ 0 \notin Refs
    <3>1. top.vars \in Seq(Refs \cup {0}) /\ top.next \in Nat /\ top.next > 0
          /\ top.left \in Int
      BY <2>1, ActivationType
    <3>2. top.next <= Len(top.vars)
      BY <1>4 DEF Emit, more
    <3> QED
      BY <3>1, <3>2, FlattenAssumption DEF FlattenAssumption
  <2>6. want' \in [ref : Refs, prefix : Seq(Nat), left : Int]
    <3>1. CASE UNCHANGED want
      BY <3>1 DEF WalkTypeOK
    <3>2. CASE Expands(top.vars[top.next], top.left)
               /\ want' = Level(top.vars[top.next], name, top.left - 1)
      <4>1. top.vars[top.next] \in Refs
        BY <2>5, <3>2 DEF Expands
      <4> QED
        BY <2>1, <2>5, <3>2, <4>1 DEF Level
    <3> QED
      BY <1>4, <3>1, <3>2 DEF Emit
  <2>7. stage' \in {"fetch", "walk", "complete", "truncated", "failed"}
    BY <1>4 DEF Emit, WalkTypeOK
  <2>8. stack' \in Seq(Activation)
    BY <1>4, <2>1 DEF Emit
  <2>9. UNCHANGED <<inputs, fetched>>
    BY <1>4 DEF Emit
  <2> QED
    BY <2>4, <2>6, <2>7, <2>8, <2>9 DEF WalkTypeOK, Activation, inputs
<1>5. CASE LevelDone
  <2>1. stack \in Seq(Activation) /\ Len(stack) \in Nat /\ Len(stack) >= 1
    BY <1>5, TopFacts DEF LevelDone
  <2>2. Front(stack) \in Seq(Activation)
    BY <2>1, FrontFacts
  <2> QED
    BY <1>5, <2>2 DEF LevelDone, WalkTypeOK, Activation, inputs
<1>6. CASE UNCHANGED walkVars
  BY <1>6 DEF walkVars, inputs, WalkTypeOK
<1> QED
  BY <1>1, <1>2, <1>3, <1>4, <1>5, <1>6 DEF WalkNext

LEMMA StackInit ==
  ASSUME WalkInit
  PROVE  StackInv
<1>1. depth \in Nat /\ root \in Refs /\ stack = <<>> /\ stage = "fetch"
      /\ want = Level(root, <<>>, depth)
  BY FlattenAssumption DEF FlattenAssumption, WalkInit
<1>2. Len(stack) = 0 /\ DOMAIN stack = {}
  BY <1>1
<1>3. RefOf(stack, Len(stack) + 1) = root
  BY <1>2 DEF RefOf
<1>4. Path(stack, Len(stack)) = <<>>
  BY <1>2 DEF Path
<1>5. depth - Len(stack) = depth /\ Len(stack) <= depth + 1 /\ Len(stack) <= depth
  BY <1>1, <1>2
<1> QED
  BY <1>1, <1>2, <1>3, <1>4, <1>5 DEF StackInv

\* The level that was asked for is the one the stack leads to.
LEMMA StackFetch ==
  ASSUME WalkTypeOK, StackInv, Fetch
  PROVE  StackInv'
<1> DEFINE n == Len(stack)
           new == [prefix |-> want.prefix, left |-> want.left, next |-> 1,
                   vars |-> tree[want.ref]]
           t == Append(stack, new)
<1>1. stack \in Seq(Activation) /\ n \in Nat /\ depth \in Nat
  BY FlattenAssumption DEF FlattenAssumption, WalkTypeOK, Activation
<1>2. /\ n <= depth /\ RefOf(stack, n + 1) \in Refs
      /\ want = Level(RefOf(stack, n + 1), Path(stack, n), depth - n)
  BY DEF StackInv, Fetch
<1>3. /\ Len(t) = n + 1 /\ DOMAIN t = 1..(n + 1)
      /\ \A k \in 1..n : t[k] = stack[k]
      /\ t[n + 1] = new
  BY <1>1
<1>4. /\ new.prefix = Path(stack, n) /\ new.left = depth - n /\ new.next = 1
      /\ new.vars = tree[RefOf(stack, n + 1)]
  BY <1>2 DEF Level
<1>5. /\ \A k \in 0..n : Path(t, k) = Path(stack, k)
      /\ \A k \in 1..(n + 1) : RefOf(t, k) = RefOf(stack, k)
  <2>1. \A i \in 1..n : t[i].next = stack[i].next /\ t[i].vars = stack[i].vars
    BY <1>3
  <2> HIDE DEF t, n
  <2> QED
    BY <1>1, <2>1, SameBelow
<1>6. \A k \in 1..n : FrameOK(stack, k) /\ Inside(stack, k)
  BY <1>1 DEF StackInv, Fetch
<1>7. stack' = t /\ stage' = "walk" /\ UNCHANGED inputs
  BY DEF Fetch
<1>8. Len(tree[RefOf(stack, n + 1)]) \in Nat
  BY <1>2, LevelType
<1> HIDE DEF t, n, new
<1>9. \A k \in 1..(n + 1) : FrameOK(t, k)
  <2> TAKE k \in 1..(n + 1)
  <2>1. k - 1 \in 0..n /\ Path(t, k - 1) = Path(stack, k - 1)
        /\ RefOf(t, k) = RefOf(stack, k)
    BY <1>1, <1>5
  <2>2. CASE k = n + 1
    <3>1. t[k] = new /\ k - 1 = n
      BY <1>1, <1>3, <2>2
    <3>2. 1 <= Len(tree[RefOf(stack, n + 1)]) + 1
      BY <1>8
    <3> QED
      BY <1>2, <1>4, <2>1, <2>2, <3>1, <3>2 DEF FrameOK
  <2>3. CASE k # n + 1
    <3>1. k \in 1..n /\ t[k] = stack[k]
      BY <1>1, <1>3, <2>3
    <3> QED
      BY <1>6, <2>1, <3>1 DEF FrameOK
  <2> QED
    BY <2>2, <2>3
<1>10. \A k \in 1..n : Inside(t, k)
  BY <1>3, <1>6 DEF Inside
<1>11. t # <<>> /\ Len(t) <= depth + 1
  <2>1. Len(t) # 0 /\ Len(t) <= depth + 1
    BY <1>1, <1>2, <1>3
  <2> QED
    BY <2>1
<1>12. \A k \in 1..(n + 1) : k < n + 1 => k \in 1..n
  BY <1>1
<1>13. depth' = depth /\ tree' = tree /\ root' = root /\ filter' = filter
  BY <1>7 DEF inputs
<1>14. \A k \in DOMAIN t : FrameOK(t, k) /\ (k < Len(t) => Inside(t, k))
  BY <1>3, <1>9, <1>10, <1>12
<1> QED
  BY <1>7, <1>11, <1>13, <1>14 DEF StackInv, FrameOK, Inside, RefOf

LEMMA StackAdvance ==
  ASSUME WalkTypeOK, StackInv, Skip \/ Emit
  PROVE  StackInv'
<1> DEFINE n == Len(stack)
           A == Advanced
<1>1. stack # <<>> /\ more /\ stack' = A /\ UNCHANGED inputs
  BY DEF Skip, Emit
<1>2. /\ stack \in Seq(Activation) /\ n \in Nat /\ n >= 1 /\ depth \in Nat
      /\ n <= depth + 1 /\ top = stack[n] /\ top \in Activation
      /\ top.next \in Nat /\ top.next > 0
      /\ top.vars \in Seq(Refs \cup {0}) /\ FrameOK(stack, n)
  BY <1>1, TopFacts, ActivationType
<1>3. /\ \A k \in DOMAIN A : FrameOK(A, k)
      /\ \A k \in DOMAIN A : k < Len(A) => Inside(A, k)
  BY <1>1, AdvancedFrames
<1>4. /\ A \in Seq(Activation) /\ Len(A) = n /\ DOMAIN A = 1..n
      /\ A[n].next = top.next + 1
      /\ Path(A, n) = name /\ RefOf(A, n + 1) = top.vars[top.next]
  BY <1>1, AdvancedFacts
<1>5. A # <<>>
  <2>1. Len(A) # 0
    BY <1>2, <1>4
  <2> QED
    BY <2>1
<1>6. depth' = depth /\ tree' = tree /\ root' = root /\ filter' = filter
  BY <1>1 DEF inputs
<1>7. CASE stage' # "fetch"
  <2> HIDE DEF n, A
  <2> QED
    BY <1>1, <1>2, <1>3, <1>4, <1>5, <1>6, <1>7 DEF StackInv, FrameOK, Inside, RefOf, n
<1>8. CASE stage' = "fetch"
  <2> DEFINE ref == top.vars[top.next]
  <2>1. Expands(ref, top.left) /\ want' = Level(ref, name, top.left - 1) /\ ~FilteredOut
    BY <1>8 DEF Skip, Emit
  <2>2. ref \in Refs
    <3>1. top.next \in 1..Len(top.vars)
      BY <1>1, <1>2 DEF more
    <3>2. ref \in Refs \cup {0}
      BY <1>2, <3>1
    <3> QED
      BY <2>1, <3>2 DEF Expands
  <2>3. top.left = depth - (n - 1) /\ top.left > 0
    BY <1>2, <2>1 DEF FrameOK, Expands
  <2>4. n <= depth /\ top.left - 1 = depth - n
    BY <1>2, <2>3
  <2>5. Inside(A, n)
    <3>1. A[n].next > 1 /\ A[n].next - 1 = top.next
      <4>1. top.next \in Nat /\ top.next > 0
        BY <1>2
      <4>2. A[n].next = top.next + 1
        BY <1>4
      <4> QED
        BY <4>1, <4>2
    <3>2. n = 1 => top.next \in filter
      BY <2>1 DEF FilteredOut
    <3> QED
      BY <3>1, <3>2 DEF Inside
  <2>6. \A k \in DOMAIN A : Inside(A, k)
    <3>1. \A k \in DOMAIN A : k < Len(A) \/ k = n
      BY <1>2, <1>4
    <3> QED
      BY <1>3, <2>5, <3>1
  <2>7. RefOf(A, Len(A) + 1) = ref /\ Path(A, Len(A)) = name
    BY <1>4
  <2>8. want' = Level(RefOf(A, Len(A) + 1), Path(A, Len(A)), depth - Len(A))
    BY <1>4, <2>1, <2>4, <2>7
  <2>9. Len(A) <= depth /\ Len(A) <= depth + 1 /\ RefOf(A, Len(A) + 1) \in Refs
    BY <1>2, <1>4, <2>2, <2>4, <2>7
  <2> HIDE DEF n, A, ref
  <2> QED
    BY <1>1, <1>3, <1>6, <1>8, <2>6, <2>8, <2>9
       DEF StackInv, FrameOK, Inside, RefOf
<1> QED
  BY <1>7, <1>8

LEMMA StackDone ==
  ASSUME WalkTypeOK, StackInv, LevelDone
  PROVE  StackInv'
<1> DEFINE n == Len(stack)
           t == Front(stack)
<1>1. stack # <<>> /\ stack' = t /\ UNCHANGED inputs
      /\ stage' = IF n = 1 THEN "complete" ELSE "walk"
  BY DEF LevelDone
<1>2. stack \in Seq(Activation) /\ n \in Nat /\ n >= 1 /\ depth \in Nat /\ n <= depth + 1
  BY <1>1, TopFacts
<1>3. /\ Len(t) = n - 1 /\ DOMAIN t = 1..(n - 1)
      /\ \A k \in 1..(n - 1) : t[k] = stack[k]
  BY <1>2, FrontFacts
<1>4. n - 1 \in Nat
  BY <1>2
<1> HIDE DEF t
<1>5. /\ \A k \in 0..(n - 1) : Path(t, k) = Path(stack, k)
      /\ \A k \in 1..((n - 1) + 1) : RefOf(t, k) = RefOf(stack, k)
  <2>1. \A i \in 1..(n - 1) : t[i].next = stack[i].next /\ t[i].vars = stack[i].vars
    BY <1>3
  <2> HIDE DEF n
  <2> QED
    BY <1>4, <2>1, SameBelow
<1>6. \A k \in 1..(n - 1) : FrameOK(stack, k) /\ Inside(stack, k)
  <2>1. \A k \in 1..(n - 1) : k \in DOMAIN stack /\ k < Len(stack)
    BY <1>2
  <2> QED
    BY <2>1 DEF StackInv
<1> HIDE DEF n
<1>7. \A k \in 1..(n - 1) : FrameOK(t, k) /\ Inside(t, k)
  <2> TAKE k \in 1..(n - 1)
  <2>1. k - 1 \in 0..(n - 1) /\ k \in 1..((n - 1) + 1)
    BY <1>4
  <2> QED
    BY <1>3, <1>5, <1>6, <2>1 DEF FrameOK, Inside
<1>8. depth' = depth /\ tree' = tree /\ root' = root /\ filter' = filter
  BY <1>1 DEF inputs
<1>9. n # 1 => t # <<>>
  <2>1. n # 1 => Len(t) # 0
    BY <1>2, <1>3
  <2> QED
    BY <2>1
<1>10. Len(t) <= depth + 1
  BY <1>2, <1>3
<1> QED
  BY <1>1, <1>3, <1>7, <1>8, <1>9, <1>10 DEF StackInv, FrameOK, Inside, RefOf

LEMMA StackStep ==
  ASSUME WalkTypeOK, StackInv, [WalkNext]_walkVars
  PROVE  StackInv'
<1>1. CASE FetchFails
  BY <1>1 DEF FetchFails, inputs, StackInv, FrameOK, Inside, RefOf
<1>2. CASE UNCHANGED walkVars
  BY <1>2 DEF walkVars, inputs, StackInv, FrameOK, Inside, RefOf
<1> QED
  BY <1>1, <1>2, StackFetch, StackAdvance, StackDone DEF WalkNext

\* Where the cursor is while a level is walked, and what is to come then.
LEMMA CursorIsName ==
  ASSUME WalkTypeOK, StackInv, stack # <<>>
  PROVE  Cursor(stack, FALSE) = name
BY TopFacts DEF Cursor

LEMMA CursorAdvanced ==
  ASSUME WalkTypeOK, StackInv, stack # <<>>
  PROVE  /\ Cursor(Advanced, FALSE) = Append(Path(stack, Len(stack) - 1), top.next + 1)
         /\ Cursor(Advanced, TRUE) = Append(name, 1)
<1>1. Len(stack) - 1 \in 0..(Len(stack) - 1)
  BY TopFacts
<1> QED
  BY <1>1, AdvancedFacts DEF Cursor

\* An entry that follows the stack to its top level and has the position
\* reached there.
Reached(e) ==
  /\ Len(e.name) >= Len(stack)
  /\ Agree(e.name, Path(stack, Len(stack) - 1), Len(stack) - 1)
  /\ e.name[Len(stack)] = top.next

\* What CursorOn says of an entry.
LEMMA EntryPassed ==
  ASSUME WalkTypeOK, StackInv, stack # <<>>, NEW e \in Reference
  PROVE  Before(e.name, Cursor(Advanced, FALSE)) <=>
           Before(e.name, name) \/ Reached(e)
<1> DEFINE n == Len(stack)
           P == Path(stack, n - 1)
<1>1. /\ n \in Nat /\ n >= 1 /\ P \in Seq(Nat) /\ Len(P) = n - 1
      /\ name = Append(P, top.next) /\ top.next \in Nat
  BY TopFacts, ActivationType
<1>2. e.name \in Seq(Nat) /\ Len(e.name) \in Nat
  BY EntryType
<1>3. Cursor(Advanced, FALSE) = Append(P, top.next + 1)
  BY CursorAdvanced
<1> HIDE DEF P, n
<1>4. Before(e.name, Append(P, top.next + 1)) <=>
        \/ Before(e.name, Append(P, top.next))
        \/ Len(e.name) > Len(P) /\ Agree(e.name, P, Len(P)) /\ e.name[Len(P) + 1] = top.next
  BY <1>1, <1>2, CursorOn
<1>5. Len(P) + 1 = n /\ (Len(e.name) > Len(P) <=> Len(e.name) >= n)
  BY <1>1, <1>2
<1>6. Reached(e) <=> Len(e.name) >= n /\ Agree(e.name, P, n - 1) /\ e.name[n] = top.next
  BY DEF Reached, P, n
<1> QED
  BY <1>1, <1>3, <1>4, <1>5, <1>6

\* Two entries of one name are one entry, and the one emitted has this name.
LEMMA EmittedIsTheOne ==
  ASSUME WalkTypeOK, StackInv, stack # <<>>, more, ~FilteredOut, NEW e \in Reference
  PROVE  /\ e.name = name <=> e = Emitted
         /\ e = Emitted => Reached(e)
<1> DEFINE n == Len(stack)
           P == Path(stack, n - 1)
<1>1. /\ stack \in Seq(Activation) /\ n \in Nat /\ n >= 1 /\ n \in 1..Len(stack)
      /\ P \in Seq(Nat) /\ Len(P) = n - 1 /\ name = Append(P, top.next)
      /\ name \in Seq(Nat) /\ Len(name) = n
  BY TopFacts
<1>2. Agree(name, P, n - 1) /\ name[n] = top.next
  <2> HIDE DEF P, n
  <2> QED
    BY <1>1 DEF Agree
<1>3. \A k \in DOMAIN stack : FrameOK(stack, k)
  BY DEF StackInv
<1>4. Emitted \in Reference /\ Emitted.name = name
  BY EmittedIsEntry DEF Emitted
<1>5. ASSUME NEW f \in Reference, f.name = name
      PROVE  f.hasChildren = (stack[n].vars[name[n]] > 0 /\ n = depth + 1)
  <2>1. Len(f.name) = n /\ Agree(f.name, P, n - 1) /\ f.name[n] = name[n]
    BY <1>1, <1>2, <1>5
  <2>2. Len(f.name) >= n
    BY <1>1, <2>1
  <2> QED
    BY <1>1, <1>3, <2>1, <2>2, EntryInLevel
<1>6. ASSUME e.name = name PROVE e = Emitted
  <2>1. e.hasChildren = Emitted.hasChildren
    BY <1>4, <1>5, <1>6
  <2>2. e = [name |-> e.name, hasChildren |-> e.hasChildren]
    BY EntryType
  <2>3. Emitted = [name |-> Emitted.name, hasChildren |-> Emitted.hasChildren]
    BY <1>4, EntryType
  <2> QED
    BY <1>4, <1>6, <2>1, <2>2, <2>3
<1>7. ASSUME e = Emitted PROVE Reached(e)
  <2>1. e.name = name
    BY <1>4, <1>7
  <2>2. Len(e.name) >= n /\ Agree(e.name, P, n - 1) /\ e.name[n] = top.next
    <3> HIDE DEF P, n
    <3> QED
      BY <1>1, <1>2, <2>1
  <2> QED
    BY <2>2 DEF Reached
<1> QED
  BY <1>4, <1>6, <1>7

\* Where Emit does not go down there is nothing below what it emitted.
LEMMA NothingBelow ==
  ASSUME WalkTypeOK, StackInv, stack # <<>>, more, ~FilteredOut,
         ~Expands(top.vars[top.next], top.left), NEW e \in Reference, Reached(e)
  PROVE  e = Emitted
<1> DEFINE n == Len(stack)
           P == Path(stack, n - 1)
<1>1. /\ stack \in Seq(Activation) /\ n \in Nat /\ n >= 1 /\ n \in 1..Len(stack)
      /\ n \in DOMAIN stack /\ depth \in Nat /\ top = stack[n]
      /\ P \in Seq(Nat) /\ Len(P) = n - 1 /\ name = Append(P, top.next)
      /\ name \in Seq(Nat) /\ Len(name) = n /\ FrameOK(stack, n)
  BY TopFacts
<1>2. \A k \in DOMAIN stack : FrameOK(stack, k)
  BY DEF StackInv
<1>3. /\ Len(e.name) >= n /\ Agree(e.name, P, n - 1) /\ e.name[n] = top.next
      /\ Len(e.name) > n => stack[n].vars[e.name[n]] \in Refs
  BY <1>1, <1>2, EntryInLevel DEF Reached
<1>4. e.name \in Seq(Nat) /\ Len(e.name) \in Nat /\ Len(e.name) <= depth + 1
  <2>1. e.name \in Seq(Nat) /\ Len(e.name) \in 1..(depth + 1)
    BY EntryType
  <2> QED
    BY <1>1, <2>1
<1>5. Len(e.name) = n
  <2> SUFFICES ASSUME Len(e.name) > n PROVE FALSE
    BY <1>1, <1>3, <1>4
  <2>1. top.vars[top.next] \in Refs
    BY <1>1, <1>3
  <2>2. top.vars[top.next] > 0
    <3>1. \A r \in Refs : r \in Nat /\ r # 0
      BY FlattenAssumption DEF FlattenAssumption
    <3>2. \A r \in Refs : r > 0
      BY <3>1
    <3> QED
      BY <2>1, <3>2
  <2>3. top.left = depth - (n - 1)
    BY <1>1 DEF FrameOK
  <2>4. top.left > 0
    BY <1>1, <1>4, <2>3
  <2> QED
    BY <2>2, <2>4 DEF Expands
<1>6. e.name = name
  <2> HIDE DEF P, n
  <2>1. \A i \in 1..n : i \in 1..(n - 1) \/ i = n
    BY <1>1
  <2>2. \A i \in 1..n : e.name[i] = name[i]
    BY <1>1, <1>3, <2>1 DEF Agree
  <2> QED
    BY <1>1, <1>4, <1>5, <2>2, SeqEqual
<1> QED
  BY <1>6, EmittedIsTheOne

\* What the walk has come to after each action.
LEMMA ShownInit ==
  ASSUME WalkInit
  PROVE  ShownInv
<1>1. result = <<>> /\ stack = <<>> /\ stage = "fetch" /\ maxCount \in Nat \ {0}
      /\ WalkTypeOK
  BY FlattenAssumption, WalkTypeInit DEF FlattenAssumption, WalkInit
<1>2. Len(result) = 0 /\ DOMAIN result = {} /\ Len(stack) = 0 /\ stack \in Seq(Activation)
  BY <1>1
<1>3. Cursor(stack, TRUE) = Append(Path(stack, 0), 1)
  BY <1>2 DEF Cursor
<1>4. Path(stack, 0) \in Seq(Nat) /\ Len(Path(stack, 0)) = 0
  <2>1. 0 \in 0..Len(stack)
    BY <1>2
  <2> QED
    BY <1>2, <2>1, PathIsSeq
<1>5. ASSUME NEW e \in Reference
      PROVE  ~Before(e.name, Cursor(stack, TRUE))
  <2>1. e.name \in Seq(Nat) /\ Len(e.name) \in 1..(depth + 1)
        /\ \A i \in DOMAIN e.name : e.name[i] > 0
    BY <1>1, EntryType
  <2>2. depth \in Nat
    BY <1>1, FlattenAssumption DEF FlattenAssumption, WalkTypeOK
  <2>3. Len(e.name) > 0 /\ Len(e.name) \in Nat
    BY <2>1, <2>2
  <2>4. DOMAIN Path(stack, 0) = {}
    BY <1>4
  <2>5. ~Before(e.name, Path(stack, 0)) /\ e.name # Path(stack, 0)
    BY <1>4, <2>3, <2>4 DEF Before
  <2> QED
    BY <1>3, <1>4, <2>1, <2>5, CursorDown
<1>6. Shown = {} /\ Ordered(result)
  BY <1>2 DEF Shown, Ordered
<1>7. (stage = "fetch") = TRUE /\ Len(result) < maxCount
  BY <1>1, <1>2
<1> QED
  BY <1>5, <1>6, <1>7 DEF ShownInv

LEMMA ShownFetch ==
  ASSUME WalkTypeOK, StackInv, ShownInv, Fetch
  PROVE  ShownInv'
<1> DEFINE n == Len(stack)
           new == [prefix |-> want.prefix, left |-> want.left, next |-> 1,
                   vars |-> tree[want.ref]]
           t == Append(stack, new)
<1>1. stack \in Seq(Activation) /\ n \in Nat
  BY DEF WalkTypeOK, Activation
<1>2. Len(t) = n + 1 /\ (\A k \in 1..n : t[k] = stack[k]) /\ t[n + 1] = new
  BY <1>1
<1>3. Path(t, n) = Path(stack, n)
  <2>1. \A i \in 1..n : t[i].next = stack[i].next
    BY <1>2
  <2> HIDE DEF t
  <2> QED
    BY <2>1 DEF Path
<1>4. Cursor(t, FALSE) = Cursor(stack, TRUE)
  <2>1. Len(t) - 1 = n /\ t[Len(t)].next = 1
    BY <1>1, <1>2
  <2> HIDE DEF t
  <2> QED
    BY <1>3, <2>1 DEF Cursor
<1>5. /\ stack' = t /\ stage = "fetch" /\ stage' = "walk"
      /\ UNCHANGED <<result, maxCount>> /\ UNCHANGED inputs
  BY DEF Fetch, inputs
<1>6. Reference' = Reference
  BY <1>5, ReferenceSame
<1>7. Cursor(stack, stage = "fetch")' = Cursor(stack, stage = "fetch")
  <2>1. Cursor(stack, stage = "fetch")' = Cursor(t, FALSE)
    BY <1>5 DEF Cursor, Path
  <2> QED
    BY <1>4, <1>5, <2>1
<1> HIDE DEF t
<1> QED
  BY <1>5, <1>6, <1>7 DEF ShownInv, Ordered, Shown

LEMMA ShownSkip ==
  ASSUME WalkTypeOK, StackInv, ShownInv, Skip
  PROVE  ShownInv'
<1>1. /\ stack # <<>> /\ stack' = Advanced /\ stage = "walk" /\ stage' = "walk"
      /\ UNCHANGED <<result, maxCount>> /\ UNCHANGED inputs
  BY DEF Skip, inputs
<1>2. Reference' = Reference
  BY <1>1, ReferenceSame
<1>3. ASSUME NEW e \in Reference PROVE ~Reached(e)
  <2>1. Len(stack) = 1 /\ top.next \notin filter
    BY DEF Skip, FilteredOut
  <2>2. e.name[1] \in filter
    BY EntryType
  <2> QED
    BY <2>1, <2>2 DEF Reached
<1>4. Cursor(stack, FALSE) = name
  BY <1>1, CursorIsName
<1>5. \A e \in Reference : e \in Shown <=> Before(e.name, Cursor(Advanced, FALSE))
  BY <1>1, <1>3, <1>4, EntryPassed DEF ShownInv
<1>6. Cursor(stack, stage = "fetch")' = Cursor(Advanced, FALSE)
  BY <1>1 DEF Cursor, Path
<1> QED
  BY <1>1, <1>2, <1>5, <1>6 DEF ShownInv, Ordered, Shown

\* Emit adds one entry, the one at the cursor, at the end.
LEMMA EmitShows ==
  ASSUME WalkTypeOK, StackInv, ShownInv, Emit
  PROVE  /\ Ordered(result') /\ Shown' = Shown \cup {Emitted} /\ Shown' \subseteq Reference
         /\ Len(result') = Len(result) + 1 /\ Len(result) \in Nat
         /\ Last(result').name = name
         /\ \A e \in Reference : e \in Shown' <=> Before(e.name, name) \/ e = Emitted
<1> DEFINE m == Len(result)
<1>1. /\ stack # <<>> /\ more /\ ~FilteredOut /\ stage = "walk"
      /\ result' = Append(result, Emitted)
  BY DEF Emit, Emitted
<1>2. result \in Seq([name : Seq(Nat), hasChildren : BOOLEAN]) /\ m \in Nat
  BY DEF WalkTypeOK
<1>3. Emitted \in Reference /\ Emitted.name = name
  BY <1>1, EmittedIsEntry DEF Emitted
<1>4. Emitted \in [name : Seq(Nat), hasChildren : BOOLEAN]
  BY <1>3, EntryType
<1>5. /\ Len(result') = m + 1 /\ DOMAIN result' = 1..(m + 1)
      /\ DOMAIN result = 1..m
      /\ (\A i \in 1..m : result'[i] = result[i]) /\ result'[m + 1] = Emitted
  BY <1>1, <1>2, <1>4
<1>6. Cursor(stack, FALSE) = name
  BY <1>1, CursorIsName
<1>7. \A e \in Reference : e \in Shown <=> Before(e.name, name)
  BY <1>1, <1>6 DEF ShownInv
<1>8. Shown' = Shown \cup {Emitted}
  <2>1. Shown' = {result'[i] : i \in DOMAIN result'}
    BY DEF Shown
  <2>2. 1..(m + 1) = (1..m) \cup {m + 1}
    BY <1>2
  <2> HIDE DEF m
  <2> QED
    BY <1>5, <2>1, <2>2 DEF Shown
<1>9. Ordered(result')
  <2> SUFFICES ASSUME NEW i \in 1..(m + 1), NEW j \in 1..(m + 1), i < j
               PROVE  Before(result'[i].name, result'[j].name)
    BY <1>5 DEF Ordered
  <2>1. i \in 1..m
    BY <1>2
  <2>2. CASE j \in 1..m
    BY <1>5, <2>1, <2>2 DEF ShownInv, Ordered
  <2>3. CASE j = m + 1
    <3>1. result[i] \in Shown /\ result[i] \in Reference
      BY <1>5, <2>1 DEF Shown, ShownInv
    <3> QED
      BY <1>3, <1>5, <1>7, <2>1, <2>3, <3>1
  <2> QED
    BY <1>2, <2>2, <2>3
<1>10. Last(result').name = name
  BY <1>3, <1>5 DEF Last
<1> QED
  BY <1>2, <1>3, <1>5, <1>7, <1>8, <1>9, <1>10 DEF ShownInv

LEMMA ShownEmit ==
  ASSUME WalkTypeOK, StackInv, ShownInv, Emit
  PROVE  ShownInv'
<1>1. /\ stack # <<>> /\ more /\ ~FilteredOut /\ stage = "walk" /\ stack' = Advanced
      /\ UNCHANGED maxCount /\ UNCHANGED inputs
  BY DEF Emit, inputs
<1>2. Reference' = Reference
  BY <1>1, ReferenceSame
<1>3. name \in Seq(Nat)
  BY <1>1, TopFacts
<1>4. /\ Ordered(result') /\ Shown' \subseteq Reference
      /\ \A e \in Reference : e \in Shown' <=> Before(e.name, name) \/ e = Emitted
  BY EmitShows
<1>5. maxCount \in Nat /\ Len(result') \in Nat
  BY FlattenAssumption, EmitShows DEF FlattenAssumption, WalkTypeOK
<1>6. CASE stage' = "truncated"
  BY <1>2, <1>4, <1>6 DEF ShownInv, Ordered, Shown
<1>7. CASE stage' = "fetch" /\ ~Full(result')
  <2>1. Cursor(stack, stage = "fetch")' = Cursor(Advanced, TRUE)
    BY <1>1, <1>7 DEF Cursor, Path
  <2>2. ASSUME NEW e \in Reference
        PROVE  e \in Shown' <=> Before(e.name, Cursor(Advanced, TRUE))
    <3>1. e.name \in Seq(Nat) /\ \A i \in DOMAIN e.name : e.name[i] > 0
      BY EntryType
    <3>2. Before(e.name, Append(name, 1)) <=> Before(e.name, name) \/ e.name = name
      BY <1>3, <3>1, CursorDown
    <3> QED
      BY <1>1, <1>4, <3>2, CursorAdvanced, EmittedIsTheOne
  <2>3. Len(result') < maxCount
    BY <1>5, <1>7 DEF Full
  <2> QED
    BY <1>1, <1>2, <1>4, <1>7, <2>1, <2>2, <2>3 DEF ShownInv, Ordered, Shown
<1>8. CASE stage' = "walk" /\ ~Full(result') /\ ~Expands(top.vars[top.next], top.left)
  <2>1. Cursor(stack, stage = "fetch")' = Cursor(Advanced, FALSE)
    BY <1>1, <1>8 DEF Cursor, Path
  <2>2. ASSUME NEW e \in Reference
        PROVE  e \in Shown' <=> Before(e.name, Cursor(Advanced, FALSE))
    <3>1. Reached(e) <=> e = Emitted
      BY <1>1, <1>8, NothingBelow, EmittedIsTheOne
    <3> QED
      BY <1>1, <1>4, <3>1, EntryPassed
  <2>3. Len(result') < maxCount
    BY <1>5, <1>8 DEF Full
  <2> QED
    BY <1>1, <1>2, <1>4, <1>8, <2>1, <2>2, <2>3 DEF ShownInv, Ordered, Shown
<1> QED
  BY <1>6, <1>7, <1>8 DEF Emit

\* The top level is done: everything was come to.  Else the cursor goes up,
\* past entries that the level left does not have.
LEMMA DoneEntries ==
  ASSUME WalkTypeOK, StackInv, stack # <<>>, ~more, NEW e \in Reference,
         Len(e.name) >= Len(stack),
         Agree(e.name, Path(stack, Len(stack) - 1), Len(stack) - 1)
  PROVE  e.name[Len(stack)] \in Nat /\ e.name[Len(stack)] < top.next
<1> DEFINE n == Len(stack)
<1>1. /\ stack \in Seq(Activation) /\ n \in 1..Len(stack) /\ top = stack[n]
      /\ top \in Activation
  BY TopFacts
<1>2. \A k \in DOMAIN stack : FrameOK(stack, k)
  BY DEF StackInv
<1>3. e.name[n] \in 1..Len(stack[n].vars)
  BY <1>1, <1>2, EntryInLevel
<1>4. top.next \in Nat /\ Len(top.vars) \in Nat
  BY <1>1, ActivationType
<1>5. top.next > Len(top.vars)
  BY <1>4 DEF more
<1> HIDE DEF n
<1>6. e.name[n] \in Nat /\ e.name[n] < top.next
  BY <1>1, <1>3, <1>4, <1>5
<1> QED
  BY <1>6 DEF n

LEMMA LastLevelDone ==
  ASSUME WalkTypeOK, StackInv, ShownInv, LevelDone, Len(stack) = 1
  PROVE  Shown = Reference
<1>1. stack # <<>> /\ ~more /\ stage = "walk"
  BY DEF LevelDone
<1>2. name = Append(Path(stack, 0), top.next) /\ Path(stack, 0) \in Seq(Nat)
      /\ Len(Path(stack, 0)) = 0 /\ top.next \in Nat
  BY <1>1, TopFacts, ActivationType, 1 - 1 = 0
<1>3. ASSUME NEW e \in Reference
      PROVE  Before(e.name, name)
  <2>1. e.name \in Seq(Nat) /\ Len(e.name) \in 1..(depth + 1) /\ depth \in Nat
    BY <1>1, EntryType, TopFacts
  <2>2. Len(e.name) >= 1 /\ Len(e.name) \in Nat
    BY <2>1
  <2>3. Agree(e.name, Path(stack, 0), 0)
    BY DEF Agree
  <2>4. e.name[1] < top.next
    BY <1>1, <2>2, <2>3, DoneEntries, 1 - 1 = 0
  <2>5. Len(e.name) >= Len(Path(stack, 0))
        /\ Agree(e.name, Path(stack, 0), Len(Path(stack, 0)))
        /\ e.name[Len(Path(stack, 0)) + 1] < top.next
    BY <1>2, <2>2, <2>3, <2>4, 0 + 1 = 1
  <2> QED
    BY <1>2, <2>1, <2>5, BeforeAppend
<1>4. Cursor(stack, stage = "fetch") = name
  BY <1>1, CursorIsName
<1> QED
  BY <1>1, <1>3, <1>4 DEF ShownInv

LEMMA ShownUp ==
  ASSUME WalkTypeOK, StackInv, ShownInv, LevelDone, Len(stack) # 1
  PROVE  \A e \in Reference : e \in Shown <=> Before(e.name, Cursor(Front(stack), FALSE))
<1> DEFINE n == Len(stack)
           Q == Path(stack, n - 2)
           z == stack[n - 1].next - 1
           x == top.next
<1>1. stack # <<>> /\ ~more /\ stage = "walk"
  BY DEF LevelDone
<1>2. /\ stack \in Seq(Activation) /\ n \in Nat /\ n >= 1 /\ top \in Activation
      /\ Path(stack, n - 1) \in Seq(Nat) /\ Len(Path(stack, n - 1)) = n - 1
      /\ name = Append(Path(stack, n - 1), x) /\ x \in Nat
  BY <1>1, TopFacts, ActivationType
<1>3. /\ n >= 2 /\ n - 1 \in 1..Len(stack) /\ n - 2 \in 0..Len(stack)
      /\ (n - 1) - 1 = n - 2 /\ n - 2 \in Nat
  BY <1>2
<1>4. Path(stack, n - 1) = Append(Q, z) /\ z \in Nat
  BY <1>2, <1>3, PathOn
<1>5. Q \in Seq(Nat) /\ Len(Q) = n - 2
  BY <1>2, <1>3, PathIsSeq
<1>6. Cursor(Front(stack), FALSE) = Append(Q, z + 1)
  <2> DEFINE t == Front(stack)
  <2>1. Len(t) = n - 1 /\ t \in Seq(Activation) /\ \A k \in 1..(n - 1) : t[k] = stack[k]
    BY <1>2, FrontFacts
  <2> HIDE DEF t, n
  <2>2. \A i \in 1..(n - 2) : t[i].next = stack[i].next
    BY <1>3, <2>1
  <2>3. Path(t, n - 2) = Path(stack, n - 2)
    BY <2>2 DEF Path
  <2>4. t[n - 1].next = z + 1
    <3>1. n - 1 \in 1..(n - 1) /\ stack[n - 1] \in Activation
      BY <1>2, <1>3 DEF n
    <3>2. t[n - 1] = stack[n - 1] /\ stack[n - 1].next \in Nat
      BY <2>1, <3>1, ActivationType
    <3> QED
      BY <3>2
  <2>5. Len(t) - 1 = n - 2
    BY <1>3, <2>1
  <2>6. Cursor(t, FALSE) = Append(Path(t, n - 2), t[n - 1].next)
    BY <2>1, <2>5 DEF Cursor
  <2> QED
    BY <2>3, <2>4, <2>6 DEF t, n
<1>7. Cursor(stack, stage = "fetch") = Append(Append(Q, z), x)
  BY <1>1, <1>2, <1>4, CursorIsName
<1>8. \A e \in Reference : e \in Shown <=> Before(e.name, Append(Append(Q, z), x))
  BY <1>1, <1>7 DEF ShownInv
<1>9. ASSUME NEW e \in Reference
      PROVE  Before(e.name, Append(Q, z + 1)) <=> Before(e.name, Append(Append(Q, z), x))
  <2>1. e.name \in Seq(Nat) /\ Len(e.name) \in Nat
    BY EntryType
  <2>2. ASSUME Before(e.name, Append(Q, z + 1)), ~Before(e.name, Append(Append(Q, z), x))
        PROVE  FALSE
    <3>1. /\ Len(e.name) > Len(Q) + 1 /\ Agree(e.name, Append(Q, z), Len(Q) + 1)
          /\ e.name[Len(Q) + 2] >= x
      <4>1. Q \in Seq(Nat) /\ z \in Nat /\ x \in Nat /\ e.name \in Seq(Nat)
        BY <1>2, <1>4, <1>5, <2>1
      <4>2. Before(e.name, Append(Q, z + 1)) /\ ~Before(e.name, Append(Append(Q, z), x))
        BY <2>2
      <4> DEFINE p == e.name
      <4> HIDE DEF Q, z, x, p
      <4>3. /\ Len(p) > Len(Q) + 1 /\ Agree(p, Append(Q, z), Len(Q) + 1)
            /\ p[Len(Q) + 2] >= x
        <5>1. p \in Seq(Nat) /\ Before(p, Append(Q, z + 1))
              /\ ~Before(p, Append(Append(Q, z), x))
          BY <4>1, <4>2 DEF p
        <5> QED
          BY <4>1, <5>1, CursorUp
      <4> QED
        BY <4>3 DEF p
    <3>2. Len(Q) + 1 = n - 1 /\ Len(Q) + 2 = n
      <4> HIDE DEF Q, n
      <4> QED
        BY <1>2, <1>5
    <3>3. Len(e.name) >= n /\ Agree(e.name, Path(stack, n - 1), n - 1) /\ e.name[n] >= x
      <4>1. Agree(e.name, Path(stack, n - 1), n - 1)
        BY <1>4, <3>1, <3>2
      <4> HIDE DEF Q, z, x, n
      <4> QED
        BY <1>2, <2>1, <3>1, <3>2, <4>1
    <3>4. e.name[n] \in Nat /\ e.name[n] < x
      BY <1>1, <3>3, DoneEntries
    <3> HIDE DEF n, x
    <3> QED
      BY <1>2, <3>3, <3>4
  <2>3. Before(e.name, Append(Append(Q, z), x)) => Before(e.name, Append(Q, z + 1))
    <3> HIDE DEF Q, z, x
    <3> QED
      BY <1>2, <1>4, <1>5, <2>1, CursorUpKeeps
  <2> QED
    BY <2>2, <2>3
<1> QED
  BY <1>6, <1>8, <1>9

LEMMA ShownDone ==
  ASSUME WalkTypeOK, StackInv, ShownInv, LevelDone
  PROVE  ShownInv'
<1>1. /\ stage = "walk" /\ stack' = Front(stack) /\ UNCHANGED <<result, maxCount>>
      /\ UNCHANGED inputs /\ stage' = IF Len(stack) = 1 THEN "complete" ELSE "walk"
  BY DEF LevelDone, inputs
<1>2. Reference' = Reference
  BY <1>1, ReferenceSame
<1>3. CASE Len(stack) = 1
  BY <1>1, <1>2, <1>3 DEF ShownInv, Ordered, Shown
<1>4. CASE Len(stack) # 1
  <2>1. Cursor(stack, stage = "fetch")' = Cursor(Front(stack), FALSE)
    BY <1>1, <1>4 DEF Cursor, Path
  <2> QED
    BY <1>1, <1>2, <1>4, <2>1, ShownUp DEF ShownInv, Ordered, Shown
<1> QED
  BY <1>3, <1>4

LEMMA ShownStep ==
  ASSUME WalkTypeOK, StackInv, ShownInv, [WalkNext]_walkVars
  PROVE  ShownInv'
<1>1. CASE FetchFails
  <2>1. UNCHANGED inputs /\ UNCHANGED <<result, maxCount>> /\ stage' = "failed"
    BY <1>1 DEF FetchFails, inputs
  <2>2. Reference' = Reference
    BY <2>1, ReferenceSame
  <2> QED
    BY <2>1, <2>2 DEF ShownInv, Ordered, Shown
<1>2. CASE UNCHANGED walkVars
  <2>1. UNCHANGED inputs /\ UNCHANGED <<result, maxCount, stack, stage>>
    BY <1>2 DEF walkVars, inputs
  <2>2. Reference' = Reference
    BY <2>1, ReferenceSame
  <2> QED
    BY <2>1, <2>2 DEF ShownInv, Ordered, Shown, Cursor, Path
<1> QED
  BY <1>1, <1>2, ShownFetch, ShownSkip, ShownEmit, ShownDone DEF WalkNext

LEMMA FetchInit ==
  ASSUME WalkInit
  PROVE  FetchInv
BY DEF WalkInit, FetchInv, Level

\* A request is for the node just emitted: what was requested before came
\* before it.
LEMMA FetchStep ==
  ASSUME WalkTypeOK, StackInv, ShownInv, FetchInv, [WalkNext]_walkVars
  PROVE  FetchInv'
<1>1. CASE Fetch \/ FetchFails
  <2>1. /\ stage = "fetch" /\ stage' # "fetch" /\ fetched' = fetched \cup {want.prefix}
        /\ UNCHANGED <<result, depth>>
    BY <1>1 DEF Fetch, FetchFails, inputs
  <2>2. want.prefix # <<>> => Len(want.prefix) <= depth /\ Expanded(want.prefix)
    <3>1. Len(stack) <= depth /\ want.prefix = Path(stack, Len(stack))
      BY <2>1 DEF StackInv, Level
    <3>2. stack \in Seq(Activation) /\ Len(stack) \in 0..Len(stack)
      BY DEF WalkTypeOK, Activation
    <3>3. Len(want.prefix) = Len(stack)
      BY <3>1, <3>2, PathIsSeq
    <3> QED
      BY <2>1, <3>1, <3>3 DEF FetchInv
  <2>3. \A p \in fetched' \ {<<>>} : Len(p) <= depth /\ Expanded(p)
    BY <2>1, <2>2 DEF FetchInv
  <2>4. \A p : Expanded(p)' <=> Expanded(p)
    BY <2>1 DEF Expanded, Shown
  <2> QED
    BY <2>1, <2>3 DEF FetchInv, Expanded, Shown
<1>2. CASE Emit
  <2>1. Shown' = Shown \cup {Emitted} /\ Emitted.name = name
    BY <1>2, EmitShows DEF Emitted
  <2>2. UNCHANGED <<fetched, depth>> /\ stage = "walk" /\ stack # <<>>
    BY <1>2 DEF Emit, inputs
  <2>3. \A p \in fetched' \ {<<>>} : Len(p) <= depth' /\ \E e \in Shown' : e.name = p /\ ~e.hasChildren
    BY <2>1, <2>2 DEF FetchInv, Expanded
  <2>4. CASE stage' # "fetch"
    BY <2>3, <2>4 DEF FetchInv, Expanded
  <2>5. CASE stage' = "fetch"
    <3>1. want'.prefix = name /\ Expands(top.vars[top.next], top.left)
      BY <1>2, <2>5 DEF Emit, Level
    <3>2. \E e \in Shown' : e.name = name /\ ~e.hasChildren
      <4>1. Emitted \in Shown' /\ ~Emitted.hasChildren
        BY <2>1, <3>1 DEF Emitted
      <4> QED
        BY <2>1, <4>1
    <3>3. name \in Seq(Nat) /\ name # <<>>
      <4>1. name \in Seq(Nat) /\ Len(name) = Len(stack) /\ Len(stack) >= 1
            /\ Len(stack) \in Nat
        BY <2>2, TopFacts
      <4>2. Len(name) # 0
        BY <4>1
      <4> QED
        BY <4>1, <4>2
    <3>4. name \notin fetched
      <4> SUFFICES ASSUME name \in fetched PROVE FALSE
        OBVIOUS
      <4>1. PICK e \in Shown : e.name = name
        BY <3>3 DEF FetchInv, Expanded
      <4>2. Before(name, name)
        BY <2>2, <4>1, CursorIsName DEF ShownInv
      <4> QED
        BY <3>3, <4>2, BeforeIrreflexive
    <3>5. want'.prefix \notin fetched'
      BY <2>2, <3>1, <3>4
    <3> QED
      BY <2>3, <3>1, <3>2, <3>5 DEF FetchInv, Expanded
  <2> QED
    BY <2>4, <2>5
<1>3. CASE Skip \/ LevelDone
  <2>1. UNCHANGED <<fetched, result, depth>> /\ stage' # "fetch"
    BY <1>3 DEF Skip, LevelDone, inputs
  <2> QED
    BY <2>1 DEF FetchInv, Expanded, Shown
<1>4. CASE UNCHANGED walkVars
  BY <1>4 DEF walkVars, inputs, FetchInv, Expanded, Shown
<1> QED
  BY <1>1, <1>2, <1>3, <1>4 DEF WalkNext

LEMMA MatchStep ==
  ASSUME WalkTypeOK, StackInv, ShownInv, MatchesReference, [WalkNext]_walkVars
  PROVE  MatchesReference'
<1>1. CASE Fetch \/ FetchFails \/ Skip
  BY <1>1 DEF Fetch, FetchFails, Skip, MatchesReference
<1>2. CASE Emit
  <2>1. stage' \in {"truncated", "fetch", "walk"} /\ stack # <<>> /\ more /\ ~FilteredOut
        /\ UNCHANGED maxCount /\ UNCHANGED inputs /\ stage = "walk"
    BY <1>2 DEF Emit, inputs
  <2>2. CASE stage' # "truncated"
    BY <2>1, <2>2 DEF MatchesReference
  <2>3. CASE stage' = "truncated"
    <3>1. Reference' = Reference
      BY <2>1, ReferenceSame
    <3>2. /\ Ordered(result') /\ Shown' \subseteq Reference
          /\ Len(result') = Len(result) + 1 /\ Len(result) \in Nat
          /\ Last(result').name = name
          /\ \A e \in Reference : e \in Shown' <=> Before(e.name, name) \/ e = Emitted
      BY <1>2, EmitShows
    <3>3. Len(result') = maxCount
      <4>1. Len(result) < maxCount /\ maxCount \in Nat
        BY <2>1, FlattenAssumption DEF FlattenAssumption, WalkTypeOK, ShownInv
      <4>2. Len(result') >= maxCount
        BY <1>2, <2>3 DEF Emit, Full
      <4> QED
        BY <3>2, <4>1, <4>2
    <3>4. ASSUME NEW e \in Reference, e \notin Shown'
          PROVE  Before(name, e.name)
      <4>1. ~Before(e.name, name) /\ e.name # name
        BY <2>1, <3>2, <3>4, EmittedIsTheOne
      <4>2. e.name \in Seq(Nat) /\ name \in Seq(Nat)
        BY <2>1, EntryType, TopFacts
      <4> QED
        BY <4>1, <4>2, BeforeTotal
    <3>5. \A e \in Reference' \ Shown' : Before(Last(result').name, e.name)
      BY <3>1, <3>2, <3>4
    <3> QED
      BY <2>1, <2>3, <3>1, <3>2, <3>3, <3>5 DEF MatchesReference, Ordered
  <2> QED
    BY <2>2, <2>3
<1>3. CASE LevelDone
  <2>1. UNCHANGED <<result, maxCount>> /\ UNCHANGED inputs /\ stage = "walk"
        /\ stage' = IF Len(stack) = 1 THEN "complete" ELSE "walk"
    BY <1>3 DEF LevelDone, inputs
  <2>2. CASE Len(stack) # 1
    BY <2>1, <2>2 DEF MatchesReference
  <2>3. CASE Len(stack) = 1
    <3>1. Reference' = Reference
      BY <2>1, ReferenceSame
    <3>2. Shown = Reference
      BY <1>3, <2>3, LastLevelDone
    <3>3. Ordered(result) /\ Len(result) < maxCount
      BY <2>1 DEF ShownInv
    <3> QED
      BY <2>1, <2>3, <3>1, <3>2, <3>3 DEF MatchesReference, Ordered, Shown
  <2> QED
    BY <2>2, <2>3
<1>4. CASE UNCHANGED walkVars
  <2>1. UNCHANGED inputs /\ UNCHANGED <<result, maxCount, stage>>
    BY <1>4 DEF walkVars, inputs
  <2>2. Reference' = Reference
    BY <2>1, ReferenceSame
  <2> QED
    BY <2>1, <2>2 DEF MatchesReference, Ordered, Shown
<1> QED
  BY <1>1, <1>2, <1>3, <1>4 DEF WalkNext

\* The variables of the walk stay within their types: its stack is one
\* activation per level entered.
THEOREM WalkTypeCorrect == WalkSpec => []WalkTypeOK
<1>1. WalkInit => WalkTypeOK /\ StackInv
  BY WalkTypeInit, StackInit
<1>2. WalkTypeOK /\ StackInv /\ [WalkNext]_walkVars => (WalkTypeOK /\ StackInv)'
  BY WalkTypeStep, StackStep
<1> QED
  BY <1>1, <1>2, PTL DEF WalkSpec

LEMMA WalkInvariant == WalkSpec => []WalkInv
<1>1. WalkInit => WalkInv
  <2> SUFFICES ASSUME WalkInit PROVE WalkInv
    OBVIOUS
  <2>1. MatchesReference
    BY DEF WalkInit, MatchesReference
  <2> QED
    BY <2>1, WalkTypeInit, StackInit, ShownInit, FetchInit DEF WalkInv
<1>2. WalkInv /\ [WalkNext]_walkVars => WalkInv'
  BY WalkTypeStep, StackStep, ShownStep, FetchStep, MatchStep DEF WalkInv
<1> QED
  BY <1>1, <1>2, PTL DEF WalkSpec

\* The variables tool shows the depth-first listing of what the adapter holds,
\* all of it or its first max_count entries, and says truncated exactly when
\* it is cut off: flatten_variables computes its reference for any structure,
\* cyclic ones too, any depth, any cap and any filter.
THEOREM TheListingIsShown == WalkSpec => []MatchesReference
BY WalkInvariant, PTL DEF WalkInv

\* However the walk ends, it requested only the children of what it shows as
\* expanded, none below the depth, and none twice.
THEOREM OnlyTheShownIsFetched == WalkSpec => []FetchesOnlyWhatIsShown
<1>1. WalkInv => FetchesOnlyWhatIsShown
  BY DEF WalkInv, FetchInv, Expanded, Shown, FetchesOnlyWhatIsShown
<1> QED
  BY <1>1, WalkInvariant, PTL
=============================================================================
