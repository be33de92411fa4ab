----------------------------- MODULE EventPath -----------------------------
(***************************************************************************)
(* The way of a program's output and of its end from the read loop to the  *)
(* session: the unbounded output channel and the one-shot terminated       *)
(* signal of dap-client's Sinks, the merged event stream of lldb-backend's *)
(* factory, the event pump of mcp-session, and the output buffer that      *)
(* pumps append to and read_output and reset drain.                        *)
(*                                                                         *)
(* Connections follow one another, and the read loop and the pump of an    *)
(* earlier one may still run when the next has begun.  stream::select      *)
(* (external) may yield from either of its streams that has something.     *)
(***************************************************************************)
EXTENDS OutputBuffer

CONSTANTS
  Conns,       \* how many connections there may be
  MaxOutputs   \* bound on the output events of a behaviour

ASSUME EventPathAssumption ==
  /\ Conns \in Nat
  /\ MaxOutputs \in Nat
  /\ MaxOutputs <= MaxAppends

VARIABLES
  conns,      \* how many connections have been made
  loop,       \* loop[k]: the read loop of connection k, "reading" or "ended"
  signal,     \* signal[k]: the terminated channel: "armed", "fired", or
              \* "taken" by the event stream (DapClient and ToolServer follow
              \* the exit code it carries)
  queue,      \* queue[k]: the output channel
  emitted,    \* emitted[k]: how many output events the read loop has taken
  pump,       \* pump[k]: "running" or "done"
  captured,   \* captured[k]: the generation the pump was spawned with
  generation, \* Inner.generation
  state,      \* Inner.state, as far as the pump can tell: "idle", "active"
              \* (configuring, running or stopped) or "terminated"
  clearing,   \* a reset has released the session and is about to drain
  arrived,    \* history: arrived[k]: the last chunk of k that was appended
  origin,     \* history: origin[i]: the connection of the i-th chunk appended
  late        \* history: the connections whose pumps still ran when the last
              \* reset drained the buffer

connVars    == <<conns, captured>>
sessionVars == <<generation, state, clearing>>
sourceVars  == <<loop, emitted>>
traceVars   == <<arrived, origin, late>>
pathVars == <<vars, connVars, sessionVars, sourceVars, signal, queue, pump,
              traceVars>>

Ks == 1..Conns
Open == 1..conns

\* SessionManager::new and a server that has not connected yet.
PathInit ==
  /\ Init
  /\ conns = 0
  /\ loop = [k \in Ks |-> "reading"]
  /\ signal = [k \in Ks |-> "armed"]
  /\ queue = [k \in Ks |-> <<>>]
  /\ emitted = [k \in Ks |-> 0]
  /\ pump = [k \in Ks |-> "running"]
  /\ captured = [k \in Ks |-> 0]
  /\ generation = 0
  /\ state = "idle"
  /\ clearing = FALSE
  /\ arrived = [k \in Ks |-> 0]
  /\ origin = <<>>
  /\ late = {}

----------------------------------------------------------------------------
(* The read loop *)

Emitted[k \in Nat] == IF k = 0 THEN 0 ELSE Emitted[k - 1] + emitted[k]

\* Mutant of Enqueue: a bounded channel and a try_send.
EnqueueBounded(k, chunk) ==
  queue' = IF queue[k] = <<>> THEN [queue EXCEPT ![k] = <<chunk>>] ELSE queue

\* UnboundedSender::send: never blocks and never refuses.
Enqueue(k, chunk) == queue' = [queue EXCEPT ![k] = Append(@, chunk)]

\* dispatch_event, output.
TakeOutput(k, n) ==
  /\ loop[k] = "reading"
  /\ Emitted[conns] < MaxOutputs
  /\ emitted' = [emitted EXCEPT ![k] = @ + 1]
  /\ Enqueue(k, [no |-> emitted[k] + 1, size |-> n])
  /\ UNCHANGED <<vars, connVars, sessionVars, loop,
                 signal, pump, traceVars>>

\* fire_terminated: the sender is taken, so only the first time sends.
Fire(k) == signal' = IF signal[k] = "armed"
                       THEN [signal EXCEPT ![k] = "fired"] ELSE signal

\* dispatch_event, terminated: the loop goes on reading.
TakeTerminated(k) ==
  /\ loop[k] = "reading"
  /\ signal[k] = "armed"
  /\ Fire(k)
  /\ UNCHANGED <<vars, connVars, sessionVars, sourceVars, queue,
                 pump, traceVars>>

\* A read error: recover fires the signal, and the loop drops both senders.
EndLoop(k) ==
  /\ loop[k] = "reading"
  /\ loop' = [loop EXCEPT ![k] = "ended"]
  /\ Fire(k)
  /\ UNCHANGED <<vars, connVars, sessionVars, emitted,
                 queue, pump, traceVars>>

----------------------------------------------------------------------------
(* The event stream and the pump *)

\* The pump appends the next chunk of the output channel; append may have to
\* wait for the buffer's mutex.
PumpOutput(k) ==
  /\ pump[k] = "running"
  /\ queue[k] # <<>>
  /\ Push(Head(queue[k]).size)
  /\ queue' = [queue EXCEPT ![k] = Tail(@)]
  /\ arrived' = [arrived EXCEPT ![k] = Head(queue[k]).no]
  /\ origin' = Append(origin, k)
  /\ UNCHANGED <<connVars, sessionVars, sourceVars, signal, pump, late>>

\* terminate_if_generation, under one write lock.
TerminateIfGeneration(k) ==
  IF generation = captured[k]
    THEN state' = "terminated" /\ UNCHANGED <<generation, clearing>>
    ELSE UNCHANGED sessionVars

\* Mutant of PumpTerminated: the end of the program ends the pump.
PumpTerminatedBreaks(k) ==
  /\ pump[k] = "running"
  /\ signal[k] = "fired"
  /\ TerminateIfGeneration(k)
  /\ signal' = [signal EXCEPT ![k] = "taken"]
  /\ pump' = [pump EXCEPT ![k] = "done"]
  /\ UNCHANGED <<vars, connVars, sourceVars, queue, traceVars>>

\* The terminated signal may overtake output that is still queued.
PumpTerminated(k) ==
  /\ pump[k] = "running"
  /\ signal[k] = "fired"
  /\ TerminateIfGeneration(k)
  /\ signal' = [signal EXCEPT ![k] = "taken"]
  /\ UNCHANGED <<vars, connVars, sourceVars, queue, pump, traceVars>>

\* The merged stream ends when both of its streams have: the output channel
\* is empty and closed, and the one-shot has been yielded.
PumpEnds(k) ==
  /\ pump[k] = "running"
  /\ loop[k] = "ended"
  /\ queue[k] = <<>>
  /\ signal[k] = "taken"
  /\ pump' = [pump EXCEPT ![k] = "done"]
  /\ UNCHANGED <<vars, connVars, sessionVars, sourceVars, signal,
                 queue, traceVars>>

----------------------------------------------------------------------------
(* The handlers *)

\* launch and attach: connect, capture the generation, spawn the pump.  A
\* reset may not have drained the buffer yet.
Connect ==
  /\ state = "idle"
  /\ conns < Conns
  /\ conns' = conns + 1
  /\ captured' = [captured EXCEPT ![conns'] = generation]
  /\ state' = "active"
  /\ UNCHANGED <<vars, generation, clearing, sourceVars, signal, queue, pump,
                 traceVars>>

\* SessionManager::reset (disconnect, or a launch given up): the session
\* under its lock ...  (One reset at a time: the drain follows at once.)
Reset ==
  /\ state # "idle"
  /\ ~clearing
  /\ state' = "idle"
  /\ generation' = generation + 1
  /\ clearing' = TRUE
  /\ UNCHANGED <<vars, connVars, sourceVars, signal, queue, pump, traceVars>>

\* OutputBuffer::drain, which waits for the mutex.
DrainBuffer ==
  /\ ~appending
  /\ IF entries # <<>> \/ truncated THEN Drain ELSE UNCHANGED vars

\* Mutant of ResetOutput: the buffer is left to the next session.
ResetOutputKept ==
  /\ clearing
  /\ clearing' = FALSE
  /\ late' = {k \in Open : pump[k] = "running"}
  /\ UNCHANGED <<vars, connVars, generation, state, sourceVars, signal, queue,
                 pump, arrived, origin>>

\* ... and then the buffer, under its own.  Nobody waits for the pump.
ResetOutput ==
  /\ clearing
  /\ DrainBuffer
  /\ clearing' = FALSE
  /\ late' = {k \in Open : pump[k] = "running"}
  /\ UNCHANGED <<connVars, generation, state, sourceVars, signal, queue, pump,
                 arrived, origin>>

\* read_output drains the buffer some time after it has seen a session that
\* is not idle: that of any connection made so far.
ReadOutput ==
  /\ conns > 0
  /\ DrainBuffer
  /\ UNCHANGED <<connVars, sessionVars, sourceVars, signal, queue, pump, traceVars>>

----------------------------------------------------------------------------

\* The eviction loop of an append that holds the mutex.
Evict ==
  /\ EvictOldest \/ EndAppend
  /\ UNCHANGED <<connVars, sessionVars, sourceVars, signal, queue,
                 pump, traceVars>>

Pump(k) == PumpOutput(k) \/ PumpTerminated(k) \/ PumpEnds(k)

PathNext ==
  \/ \E k \in Open : \/ \E n \in Sizes : TakeOutput(k, n)
                     \/ TakeTerminated(k)
                     \/ EndLoop(k)
                     \/ Pump(k)
  \/ Evict
  \/ Connect
  \/ Reset
  \/ ResetOutput
  \/ ReadOutput

PathSpec == PathInit /\ [][PathNext]_pathVars

\* tokio polls a pump that has an event, and a thread that holds the buffer's
\* mutex or waits for it goes on.  That mutex is std::sync::Mutex, which keeps
\* no queue: SF says of it that the finitely many drains and appends of others
\* do not shut a waiting pump out for ever.
PathFairness ==
  /\ \A k \in Ks : WF_pathVars(k \in Open /\ PumpTerminated(k))
                   /\ WF_pathVars(k \in Open /\ PumpEnds(k))
                   /\ SF_pathVars(k \in Open /\ PumpOutput(k))
  /\ WF_pathVars(Evict)

FairPathSpec == PathSpec /\ PathFairness
----------------------------------------------------------------------------
(* Properties *)

\* Nothing is lost or reordered between the read loop and the buffer (mpsc,
\* unfold, select and the pump): what a connection has emitted is what has
\* arrived, followed by what is queued, in order.
NothingLostOnTheWay ==
  \A k \in Ks :
    /\ emitted[k] = arrived[k] + Len(queue[k])
    /\ \A i \in 1..Len(queue[k]) : queue[k][i].no = arrived[k] + i

\* The pump (spawn_event_pump) outlives the end of the program: although the
\* terminated event may overtake queued output, a connection that has ended
\* gets all of its output into the buffer and the pump task ends.
EndedMeansDelivered ==
  \A k \in Ks : loop[k] = "ended" ~> pump[k] = "done" /\ arrived[k] = emitted[k]

\* What a session finds in the buffer is its own, or came from a pump that
\* outlived the reset of an earlier one (reset neither stops nor awaits the
\* pump, spawn_event_pump appends without looking at the generation): once
\* reset has returned, no output of an earlier session is left of a connection
\* whose pump had ended by then.
OnlyLatePumpsLeak ==
  ~clearing =>
    \A i \in 1..Len(entries) :
      LET k == origin[entries[i].id] IN
        captured[k] = generation \/ k \in late
=============================================================================
