----------------------------- MODULE ToolServer -----------------------------
(***************************************************************************)
(* The session core of crates/mcp-session and the lifecycle and execution  *)
(* handlers of crates/mcp-tools: concurrent tool calls over one            *)
(* SessionManager, one backend slot and one event pump per connection.     *)
(*                                                                         *)
(* A task is one tools/call, run on its own tokio task.  Each step is one  *)
(* lock section or one await of a handler.  The backend below the seam     *)
(* (the DebuggerBackend trait) is kept coarse: what a connection does is   *)
(* to answer, to stop, to exit, to hang or to die; DapClient and Handshake *)
(* hold its inside.  Values that belong to a session (program, exit code,  *)
(* stop metadata, output chunks) are represented by the connection they    *)
(* come from, which is all the properties tell apart.                      *)
(***************************************************************************)
EXTENDS Naturals, FiniteSets

CONSTANTS
  Tasks,      \* the tool calls of a behaviour
  Calls,      \* what they may call: functions from Tasks to tools
  Conns,      \* the connections factory.connect() may create (bounds them)
  Overlaps,   \* the pairs <<a, b>> such that a call of tool a may start while
              \* a call of tool b is in flight
  MayCancel,  \* may the client cancel a call?
  MayDie,     \* may the adapter die by itself?
  MayHang,    \* may the adapter leave a disconnect request unanswered?
  None

ASSUME ToolServerAssumption ==
  /\ Calls \subseteq [Tasks -> {"launch", "launch_running", "attach", "resume",
                                "pause", "disconnect"}]
  /\ None \notin Tasks \cup Conns \cup Nat
  /\ {MayCancel, MayDie, MayHang} \subseteq BOOLEAN

VARIABLES
  state,       \* Inner.state
  generation,  \* Inner.generation
  program,     \* Inner.program and pid: the connection they were set for
  exitCode,    \* Inner.exit_code: the connection whose code it is
  lastStopped, \* Inner.last_stopped: the connection whose stop it is
  output,      \* OutputBuffer: the connections whose chunks it holds
  backend,     \* ToolServer.backend
  tool,        \* tool[t]: the tool task t calls
  pc,          \* pc[t]: where its handler is
  gen,         \* gen[t]: the generation it snapshot
  conn,        \* conn[t]: the backend it holds
  out,         \* out[t]: the outcome its backend call delivered
  alive,       \* alive[k]: "unused", "up" or "dead" (the lldb-dap process)
  debuggee,    \* debuggee[k]: "none", "stopped", "running" or "gone"
  slot,        \* slot[k]: the task registered in the stop waiter
  pumpGen,     \* pumpGen[k]: the generation its pump captured, None before
  term,        \* term[k]: its terminated event: "none", "queued", "coded"
               \* (queued with an exit code) or "applied"
  pausing,     \* pausing[k]: a pause request was accepted
  lone         \* history: the last call to start, if it is a disconnect of a
               \* session while no other call was in flight; else None

sessionVars == <<state, generation, program, exitCode, lastStopped>>
taskVars    == <<tool, pc, gen, conn, out>>
connVars    == <<alive, debuggee, slot, pumpGen, term, pausing>>
vars        == <<sessionVars, output, backend, taskVars, connVars, lone>>

States   == {"idle", "configuring", "stopped", "running", "terminated"}
Launches == {"launch", "launch_running", "attach"}
Outcomes == {"none", "stopped", "running", "exited", "terminated", "err"}
Due      == {"queued", "coded"}
PCs == {"start", "configure", "connect", "failReset", "failDrain", "failClear",
        "store", "pump", "handshake", "record", "setState", "setStopped",
        "clear", "fetch", "snapshot", "setRunning", "register", "send",
        "await", "stopWait", "revert", "apply", "cache", "drainOut",
        "pauseSend", "disconnecting", "take", "reset", "drain", "done"}

Init ==
  /\ state = "idle"
  /\ generation = 0
  /\ program = None
  /\ exitCode = None
  /\ lastStopped = None
  /\ output = {}
  /\ backend = None
  /\ tool \in Calls
  /\ pc = [t \in Tasks |-> "start"]
  /\ gen = [t \in Tasks |-> 0]
  /\ conn = [t \in Tasks |-> None]
  /\ out = [t \in Tasks |-> "none"]
  /\ alive = [k \in Conns |-> "unused"]
  /\ debuggee = [k \in Conns |-> "none"]
  /\ slot = [k \in Conns |-> None]
  /\ pumpGen = [k \in Conns |-> None]
  /\ term = [k \in Conns |-> "none"]
  /\ pausing = [k \in Conns |-> FALSE]
  /\ lone = None

----------------------------------------------------------------------------
(* Helpers *)

Goto(t, from, to) == pc[t] = from /\ pc' = [pc EXCEPT ![t] = to]

InFlight(t) == pc[t] \notin {"start", "done"}

\* check_state(allowed), then on to the next step or back with an error.
Guard(t, allowed, next) ==
  /\ pc[t] = "start"
  /\ \A u \in Tasks \ {t} : InFlight(u) => <<tool[t], tool[u]>> \in Overlaps
  /\ pc' = [pc EXCEPT ![t] = IF state \in allowed THEN next ELSE "done"]
  /\ lone' = IF tool[t] = "disconnect" /\ state \in allowed
                  /\ \A u \in Tasks \ {t} : ~InFlight(u)
               THEN t ELSE None
  /\ UNCHANGED <<sessionVars, output, backend, tool, gen, conn, out, connVars>>

\* StopWaiter: the registered task gets the outcome and the slot is cleared.
Deliver(k, outcome) ==
  /\ slot' = [slot EXCEPT ![k] = None]
  /\ out' = [t \in Tasks |->
               IF t = slot[k] /\ pc[t] \in {"send", "await", "stopWait"}
                 THEN outcome ELSE out[t]]

----------------------------------------------------------------------------
(* launch and attach *)

\* The guard and the write of "configuring" are two lock sections.
StartLaunch(t) == tool[t] \in Launches /\ Guard(t, {"idle"}, "configure")

Configure(t) ==
  /\ Goto(t, "configure", "connect")
  /\ state' = "configuring"
  /\ UNCHANGED <<generation, program, exitCode, lastStopped, output, backend,
                 tool, gen, conn, out, connVars, lone>>

\* factory.connect(): a fresh lldb-dap and its read loop ...
Connect(t) ==
  /\ Goto(t, "connect", "store")
  /\ \E k \in Conns :
       /\ alive[k] = "unused"
       /\ alive' = [alive EXCEPT ![k] = "up"]
       /\ conn' = [conn EXCEPT ![t] = k]
  /\ UNCHANGED <<sessionVars, output, backend, tool, gen, out, debuggee, slot,
                 pumpGen, term, pausing, lone>>

\* ... or a detect or spawn error: reset, then clear the backend.
ConnectFails(t) ==
  /\ Goto(t, "connect", "failReset")
  /\ UNCHANGED <<sessionVars, output, backend, tool, gen, conn, out, connVars, lone>>

StoreBackend(t) ==
  /\ Goto(t, "store", "pump")
  /\ backend' = conn[t]
  /\ UNCHANGED <<sessionVars, output, tool, gen, conn, out, connVars, lone>>

\* spawn_event_pump with the generation read after connect().
SpawnPump(t) ==
  /\ Goto(t, "pump", "handshake")
  /\ pumpGen' = [pumpGen EXCEPT ![conn[t]] = generation]
  /\ UNCHANGED <<sessionVars, output, backend, tool, gen, conn, out, alive,
                 debuggee, slot, term, pausing, lone>>

\* The terminated signal is fired once, with the exit code seen before it.
Fire(k, how) == term' = [term EXCEPT ![k] = IF @ = "none" THEN how ELSE @]

\* backend.launch / backend.attach returns; attach's Exited and Terminated end
\* alike, and either may come with an exit code or without.
HandshakeOutcome(t, outcome, after) ==
  /\ Goto(t, "handshake", "record")
  /\ alive[conn[t]] = "up" \/ outcome = "exited"
  /\ out' = [out EXCEPT ![t] = outcome]
  /\ debuggee' = [debuggee EXCEPT ![conn[t]] = after]
  /\ IF outcome = "exited" THEN \E how \in Due : Fire(conn[t], how)
                            ELSE UNCHANGED term
  /\ UNCHANGED <<sessionVars, output, backend, tool, gen, conn, alive, slot,
                 pumpGen, pausing, lone>>

HandshakeReturns(t) ==
  \/ tool[t] # "launch_running" /\ HandshakeOutcome(t, "stopped", "stopped")
  \/ tool[t] # "launch_running" /\ HandshakeOutcome(t, "exited", "gone")
  \/ tool[t] = "launch_running" /\ HandshakeOutcome(t, "running", "running")

HandshakeFails(t) ==
  /\ Goto(t, "handshake", "clear")
  /\ UNCHANGED <<sessionVars, output, backend, tool, gen, conn, out, connVars, lone>>

RecordProgram(t) ==
  /\ Goto(t, "record", "setState")
  /\ program' = conn[t]
  /\ UNCHANGED <<state, generation, exitCode, lastStopped, output, backend,
                 tool, gen, conn, out, connVars, lone>>

\* The final transition is an unconditional set_state ...
SetLaunchState(t) ==
  /\ Goto(t, "setState", IF out[t] = "stopped" THEN "setStopped" ELSE "done")
  /\ state' = CASE out[t] = "stopped" -> "stopped"
                [] out[t] = "running" -> "running"
                [] out[t] = "exited"  -> "terminated"
  /\ UNCHANGED <<generation, program, exitCode, lastStopped, output, backend,
                 tool, gen, conn, out, connVars, lone>>

\* ... followed by set_last_stopped.
SetLastStopped(t, from, to) ==
  /\ Goto(t, from, to)
  /\ lastStopped' = conn[t]
  /\ UNCHANGED <<state, generation, program, exitCode, output, backend, tool,
                 gen, conn, out, connVars, lone>>

\* cleanup_after_cancel: clear_backend, then reset.
ClearBackend(t, from, to) ==
  /\ Goto(t, from, to)
  /\ backend' = None
  /\ UNCHANGED <<sessionVars, output, tool, gen, conn, out, connVars, lone>>

\* Mutant of Reset: the exit code survives.
ResetKeepsExitCode(t, from, to) ==
  /\ Goto(t, from, to)
  /\ state' = "idle"
  /\ generation' = generation + 1
  /\ program' = None
  /\ lastStopped' = None
  /\ UNCHANGED <<exitCode, output, backend, tool, gen, conn, out, connVars, lone>>

\* Mutant of Reset: the generation is not bumped.
ResetKeepsGeneration(t, from, to) ==
  /\ Goto(t, from, to)
  /\ state' = "idle"
  /\ program' = None
  /\ exitCode' = None
  /\ lastStopped' = None
  /\ UNCHANGED <<generation, output, backend, tool, gen, conn, out, connVars, lone>>

\* reset(): one write-lock section, then the output buffer on its own lock.
Reset(t, from, to) ==
  /\ Goto(t, from, to)
  /\ state' = "idle"
  /\ generation' = generation + 1
  /\ program' = None
  /\ exitCode' = None
  /\ lastStopped' = None
  /\ UNCHANGED <<output, backend, tool, gen, conn, out, connVars, lone>>

DrainOutput(t, from, to) ==
  /\ Goto(t, from, to)
  /\ output' = {}
  /\ UNCHANGED <<sessionVars, backend, tool, gen, conn, out, connVars, lone>>

Launch(t) ==
  \/ StartLaunch(t)
  \/ Configure(t)
  \/ Connect(t)
  \/ ConnectFails(t)
  \/ Reset(t, "failReset", "failDrain")
  \/ DrainOutput(t, "failDrain", "failClear")
  \/ ClearBackend(t, "failClear", "done")
  \/ StoreBackend(t)
  \/ SpawnPump(t)
  \/ HandshakeReturns(t)
  \/ HandshakeFails(t)
  \/ RecordProgram(t)
  \/ SetLaunchState(t)
  \/ SetLastStopped(t, "setStopped", "done")
  \/ ClearBackend(t, "clear", "reset")

----------------------------------------------------------------------------
(* continue and the steps *)

StartResume(t) == tool[t] = "resume" /\ Guard(t, {"stopped"}, "fetch")

\* current_backend(): without one the handler returns.
FetchBackend(t) ==
  /\ Goto(t, "fetch", CASE backend = None /\ tool[t] = "disconnect" -> "take"
                        [] backend = None /\ tool[t] # "disconnect" -> "done"
                        [] backend # None /\ tool[t] = "resume" -> "snapshot"
                        [] backend # None /\ tool[t] = "pause" -> "pauseSend"
                        [] backend # None /\ tool[t] = "disconnect" -> "disconnecting")
  /\ conn' = [conn EXCEPT ![t] = backend]
  /\ UNCHANGED <<sessionVars, output, backend, tool, gen, out, connVars, lone>>

Snapshot(t) ==
  /\ Goto(t, "snapshot", "setRunning")
  /\ gen' = [gen EXCEPT ![t] = generation]
  /\ UNCHANGED <<sessionVars, output, backend, tool, conn, out, connVars, lone>>

SetRunning(t) ==
  /\ Goto(t, "setRunning", "register")
  /\ state' = "running"
  /\ UNCHANGED <<generation, program, exitCode, lastStopped, output, backend,
                 tool, gen, conn, out, connVars, lone>>

\* resume_and_wait registers the stop waiter; a task it replaces finds its
\* channel closed, which it reports as terminated.
RegisterStop(t) ==
  /\ Goto(t, "register", "send")
  /\ slot' = [slot EXCEPT ![conn[t]] = t]
  /\ out' = [u \in Tasks |-> IF u = slot[conn[t]] /\ out[u] = "none"
                               THEN "terminated" ELSE out[u]]
  /\ UNCHANGED <<sessionVars, output, backend, tool, gen, conn, alive,
                 debuggee, pumpGen, term, pausing, lone>>

\* The write fails on a dead connection.
SendResume(t) ==
  /\ Goto(t, "send", IF alive[conn[t]] = "up" THEN "await" ELSE "revert")
  /\ UNCHANGED <<sessionVars, output, backend, tool, gen, conn, out, connVars, lone>>

\* The adapter resumes the debuggee, if it is stopped, and answers; or it
\* refuses, which resume_and_wait does not tell from an acceptance.
ResumeAnswered(t) ==
  /\ Goto(t, "await", "stopWait")
  /\ alive[conn[t]] = "up"
  /\ \/ debuggee' = [debuggee EXCEPT ![conn[t]] = IF @ = "stopped" THEN "running" ELSE @]
     \/ UNCHANGED debuggee
  /\ UNCHANGED <<sessionVars, output, backend, tool, gen, conn, out, alive,
                 slot, pumpGen, term, pausing, lone>>

\* The recovery fails the pending request.
ResumeClosed(t) ==
  /\ Goto(t, "await", "revert")
  /\ alive[conn[t]] = "dead"
  /\ UNCHANGED <<sessionVars, output, backend, tool, gen, conn, out, connVars, lone>>

StopReturned(t) ==
  /\ out[t] # "none"
  /\ Goto(t, "stopWait", "apply")
  /\ UNCHANGED <<sessionVars, output, backend, tool, gen, conn, out, connVars, lone>>

\* On a backend error: an unconditional set_state(Stopped).
Revert(t) ==
  /\ Goto(t, "revert", "done")
  /\ state' = "stopped"
  /\ UNCHANGED <<generation, program, exitCode, lastStopped, output, backend,
                 tool, gen, conn, out, connVars, lone>>

\* set_state_if_generation and the state half of terminate_if_generation.
SetStateIfGeneration(g, s) == state' = IF g = generation THEN s ELSE state

\* Mutant of TerminateIfGeneration: the code is left to the pump.
TerminateWithoutCode(g, code) ==
  /\ SetStateIfGeneration(g, "terminated")
  /\ UNCHANGED exitCode

\* Mutant of TerminateIfGeneration: only the state is guarded.
TerminateWithAnyCode(g, code) ==
  /\ SetStateIfGeneration(g, "terminated")
  /\ exitCode' = IF code # None THEN code ELSE exitCode

\* terminate_if_generation: record the code, if there is one, and terminate.
TerminateIfGeneration(g, code) ==
  /\ SetStateIfGeneration(g, "terminated")
  /\ exitCode' = IF g = generation /\ code # None THEN code ELSE exitCode

\* handle_stop_result, first lock section.
ApplyOutcome(t) ==
  /\ \/ /\ out[t] = "stopped"
        /\ Goto(t, "apply", IF gen[t] = generation THEN "cache" ELSE "drainOut")
        /\ SetStateIfGeneration(gen[t], "stopped")
        /\ UNCHANGED exitCode
     \/ /\ out[t] = "exited"
        /\ Goto(t, "apply", "drainOut")
        /\ TerminateIfGeneration(gen[t], conn[t])
     \/ /\ out[t] = "terminated"
        /\ Goto(t, "apply", "done")
        /\ SetStateIfGeneration(gen[t], "terminated")
        /\ UNCHANGED exitCode
  /\ UNCHANGED <<generation, program, lastStopped, output, backend, tool, gen,
                 conn, out, connVars, lone>>

Resume(t) ==
  \/ StartResume(t)
  \/ Snapshot(t)
  \/ SetRunning(t)
  \/ RegisterStop(t)
  \/ SendResume(t)
  \/ ResumeClosed(t)
  \/ StopReturned(t)
  \/ Revert(t)
  \/ ApplyOutcome(t)
  \/ SetLastStopped(t, "cache", "drainOut")
  \/ DrainOutput(t, "drainOut", "done")

----------------------------------------------------------------------------
(* pause and disconnect *)

StartPause(t) == tool[t] = "pause" /\ Guard(t, {"running"}, "fetch")

\* backend.pause() changes no session state.
SendPause(t) ==
  /\ Goto(t, "pauseSend", "done")
  /\ pausing' = [pausing EXCEPT ![conn[t]] = @ \/ alive[conn[t]] = "up"]
  /\ UNCHANGED <<sessionVars, output, backend, tool, gen, conn, out, alive,
                 debuggee, slot, pumpGen, term, lone>>

StartDisconnect(t) ==
  tool[t] = "disconnect" /\ Guard(t, States \ {"idle"}, "fetch")

\* At EOF the signal has a code only if an exit was seen: of a handshake that
\* has not returned it may have been.
FireAtEof(k) ==
  \/ Fire(k, "queued")
  \/ debuggee[k] = "none" /\ pumpGen[k] # None /\ Fire(k, "coded")

\* Mutant of Die: the recovery leaves the stop waiter alone.
DieSilently(k) ==
  /\ alive' = [alive EXCEPT ![k] = "dead"]
  /\ debuggee' = [debuggee EXCEPT ![k] = "gone"]
  /\ FireAtEof(k)
  /\ UNCHANGED <<slot, out, pumpGen, pausing>>

\* The lldb-dap process ends: the read loop recovers (fails what is pending,
\* cancels the stop waiter, fires the terminated signal).
Die(k) ==
  /\ alive' = [alive EXCEPT ![k] = "dead"]
  /\ debuggee' = [debuggee EXCEPT ![k] = "gone"]
  /\ FireAtEof(k)
  /\ Deliver(k, "terminated")
  /\ UNCHANGED <<pumpGen, pausing>>

\* backend.disconnect() within its 5 s: the request is answered (or cannot
\* be written), and the child is killed and reaped.
DisconnectKills(t) ==
  /\ Goto(t, "disconnecting", "take")
  /\ Die(conn[t])
  /\ UNCHANGED <<sessionVars, output, backend, tool, gen, conn, lone>>

\* Mutant of DisconnectTimesOut: the call is not bounded.
DisconnectWaits(t) ==
  /\ Goto(t, "disconnecting", "take")
  /\ alive[conn[t]] = "dead"
  /\ UNCHANGED <<sessionVars, output, backend, tool, gen, conn, out, connVars, lone>>

\* The request is not answered in time: the future is dropped before the
\* child is taken and killed.
DisconnectTimesOut(t) ==
  /\ MayHang
  /\ Goto(t, "disconnecting", "take")
  /\ UNCHANGED <<sessionVars, output, backend, tool, gen, conn, out, connVars, lone>>

Disconnect(t) ==
  \/ StartDisconnect(t)
  \/ ClearBackend(t, "take", "reset")

\* The tail shared with cleanup_after_cancel.
ResetSession(t) ==
  \/ Reset(t, "reset", "drain")
  \/ DrainOutput(t, "drain", "done")

----------------------------------------------------------------------------
(* Cancellation, the pump and the backend's events *)

\* Mutant of Cancel: a cancelled resume goes back to "stopped".
CancelReverts(t) ==
  /\ MayCancel
  /\ \/ Goto(t, "handshake", "clear") /\ UNCHANGED state
     \/ /\ \E from \in {"send", "await", "stopWait"} : Goto(t, from, "done")
        /\ state' = "stopped"
  /\ out' = [out EXCEPT ![t] = "none"]
  /\ UNCHANGED <<generation, program, exitCode, lastStopped, output, backend,
                 tool, gen, conn, connVars, lone>>

\* ct.cancelled() wins a select!: a launch cleans up, a resume leaves the
\* state as it is.  The backend's future is dropped with what it received.
Cancel(t) ==
  /\ MayCancel
  /\ \/ Goto(t, "handshake", "clear")
     \/ \E from \in {"send", "await", "stopWait"} : Goto(t, from, "done")
  /\ out' = [out EXCEPT ![t] = "none"]
  /\ UNCHANGED <<sessionVars, output, backend, tool, gen, conn, connVars, lone>>

\* Mutant of PumpTerminated: the pump applies the event to any session.
PumpTerminatedUnguarded(k) ==
  /\ pumpGen[k] # None
  /\ term[k] \in Due
  /\ term' = [term EXCEPT ![k] = "applied"]
  /\ state' = "terminated"
  /\ exitCode' = IF term[k] = "coded" THEN k ELSE exitCode
  /\ UNCHANGED <<generation, program, lastStopped, output, backend, taskVars,
                 alive, debuggee, slot, pumpGen, pausing, lone>>

\* The terminated event reaches the session, with the exit code it was fired
\* with.
PumpTerminated(k) ==
  /\ pumpGen[k] # None
  /\ term[k] \in Due
  /\ term' = [term EXCEPT ![k] = "applied"]
  /\ TerminateIfGeneration(pumpGen[k], IF term[k] = "coded" THEN k ELSE None)
  /\ UNCHANGED <<generation, program, lastStopped, output, backend, taskVars,
                 alive, debuggee, slot, pumpGen, pausing, lone>>

\* Output is appended whatever the generation; chunks emitted before the
\* adapter ended may still be queued after it.
PumpOutput(k) ==
  /\ pumpGen[k] # None
  /\ output' = output \cup {k}
  /\ UNCHANGED <<sessionVars, backend, taskVars, connVars, lone>>

Pump(k) == PumpTerminated(k) \/ PumpOutput(k)

\* The debuggee stops (breakpoint, step done, pause): with no stop waiter
\* registered the event is dropped.
DebuggeeStops(k) ==
  /\ alive[k] = "up"
  /\ debuggee[k] = "running"
  /\ debuggee' = [debuggee EXCEPT ![k] = "stopped"]
  /\ pausing' = [pausing EXCEPT ![k] = FALSE]
  /\ Deliver(k, "stopped")
  /\ UNCHANGED <<sessionVars, output, backend, tool, pc, gen, conn, alive,
                 pumpGen, term, lone>>

\* The debuggee is gone: the adapter sends an exited and a terminated event,
\* or a terminated event alone.
DebuggeeExits(k) ==
  /\ alive[k] = "up"
  /\ debuggee[k] = "running"
  /\ debuggee' = [debuggee EXCEPT ![k] = "gone"]
  /\ \/ Fire(k, "coded") /\ Deliver(k, "exited")
     \/ Fire(k, "queued") /\ Deliver(k, "terminated")
  /\ UNCHANGED <<sessionVars, output, backend, tool, pc, gen, conn, alive,
                 pumpGen, pausing, lone>>

AdapterDies(k) ==
  /\ MayDie
  /\ alive[k] = "up"
  /\ Die(k)
  /\ UNCHANGED <<sessionVars, output, backend, tool, pc, gen, conn, lone>>

----------------------------------------------------------------------------

Handler(t) ==
  \/ Launch(t) \/ Resume(t) \/ FetchBackend(t) \/ Disconnect(t)
  \/ ResetSession(t) \/ StartPause(t) \/ SendPause(t)

Next ==
  \/ \E t \in Tasks : \/ Handler(t) \/ ResumeAnswered(t) \/ DisconnectKills(t)
                      \/ DisconnectTimesOut(t) \/ Cancel(t)
  \/ \E k \in Conns : \/ Pump(k) \/ DebuggeeStops(k) \/ DebuggeeExits(k)
                      \/ AdapterDies(k)

Spec == Init /\ [][Next]_vars

\* Started handlers, timers and pumps are scheduled; a live adapter answers a
\* resume and carries out a pause, and a disconnect unless it may hang.
\* Nothing obliges a client to call a tool, an adapter to answer a handshake,
\* or a debuggee to stop.
Fairness ==
  /\ \A t \in Tasks :
       /\ WF_vars(InFlight(t) /\ pc[t] # "handshake" /\ Handler(t))
       /\ WF_vars(ResumeAnswered(t))
       /\ WF_vars(DisconnectTimesOut(t))
       /\ WF_vars(~MayHang /\ DisconnectKills(t))
  /\ \A k \in Conns :
       /\ WF_vars(PumpTerminated(k))
       /\ WF_vars(pausing[k] /\ DebuggeeStops(k))

FairSpec == Spec /\ Fairness

----------------------------------------------------------------------------
(* Properties *)

\* Every variable stays within its type.
TypeOK ==
  /\ state \in States
  /\ generation \in Nat
  /\ {program, exitCode, lastStopped, backend} \subseteq Conns \cup {None}
  /\ output \subseteq Conns
  /\ tool \in Calls
  /\ pc \in [Tasks -> PCs]
  /\ gen \in [Tasks -> Nat]
  /\ conn \in [Tasks -> Conns \cup {None}]
  /\ out \in [Tasks -> Outcomes]
  /\ alive \in [Conns -> {"unused", "up", "dead"}]
  /\ debuggee \in [Conns -> {"none", "stopped", "running", "gone"}]
  /\ slot \in [Conns -> Tasks \cup {None}]
  /\ pumpGen \in [Conns -> Nat \cup {None}]
  /\ term \in [Conns -> {"none", "queued", "coded", "applied"}]
  /\ pausing \in [Conns -> BOOLEAN]
  /\ lone \in Tasks \cup {None}

\* Nobody is working on the session: no call is in flight and no pump has a
\* terminated event left to apply.
Quiescent ==
  /\ \A t \in Tasks : ~InFlight(t)
  /\ \A k \in Conns : term[k] \in Due => pumpGen[k] = None

\* The client waits for each call before the next, except that it may pause
\* a blocked resume.
Serial == Overlaps \subseteq {<<"pause", "resume">>}

\* One call at a time: whatever was launched, cancelled, exited or killed
\* before, an idle session has no backend, program, exit code or cached stop of
\* an earlier one (reset, cleanup_after_cancel).
IdleIsClean ==
  Serial /\ Quiescent /\ state = "idle" =>
    /\ backend = None
    /\ program = None
    /\ exitCode = None
    /\ lastStopped = None

\* One call at a time: a session that says "stopped" holds a backend whose
\* debuggee is stopped (resume, handle_stop_result), unless its adapter died.
StoppedIsReal ==
  Serial /\ Quiescent /\ state = "stopped" =>
    /\ backend # None
    /\ debuggee[backend] = "stopped" \/ alive[backend] = "dead"
    /\ lastStopped = backend

\* One call at a time: a session that says "terminated" is about its own
\* debuggee, which is gone; an earlier session's late end never shows in it.
TerminatedIsReal ==
  Serial /\ state = "terminated" /\ backend # None => debuggee[backend] = "gone"

\* An exit reported by a resume is at once visible to status (terminate_if_
\* generation in handle_stop_result), before the pump's own event, and stays
\* so until the session is reset.
ExitCodeReported ==
  \A t \in Tasks :
    /\ tool[t] = "resume"
    /\ out[t] = "exited"
    /\ pc[t] \in {"drainOut", "done"}
    /\ gen[t] = generation
    => exitCode = conn[t]

\* One call at a time, the session is Session: its connection is the one whose
\* pump is of the current generation, from spawn_event_pump to the reset, and
\* nothing of a past one, however late it ends, reaches the session again.
Owned(k) == pumpGen[k] # None /\ pumpGen[k] = generation

Owner == IF \E k \in Conns : Owned(k) THEN CHOOSE k \in Conns : Owned(k)
                                      ELSE None
Past  == {k \in Conns : pumpGen[k] # None /\ pumpGen[k] # generation}
Fate  == [k \in Conns |-> IF alive[k] = "dead" THEN "gone" ELSE debuggee[k]]

Promised == INSTANCE Session WITH
  status <- state, current <- Owner, past <- Past, code <- exitCode,
  stop <- lastStopped, fate <- Fate

ImplementsSession == Promised!Spec

\* Whatever overlapped, was cancelled, hung or died before, a disconnect that
\* runs alone brings the session back to a clean idle one (reset, its drop of
\* the backend and its new generation), and no late event undoes it.
LoneDisconnectCleans ==
  lone # None /\ pc[lone] = "done" =>
    /\ state = "idle"
    /\ backend = None
    /\ program = None
    /\ exitCode = None
    /\ lastStopped = None

\* disconnect always gets past an adapter that does not answer.
DisconnectReturns ==
  \A t \in Tasks : pc[t] = "disconnecting" ~> pc[t] = "done"

\* A blocked continue or step returns when its adapter is gone, whatever
\* other calls overlap.
DeathReleasesResume ==
  \A t \in Tasks :
    pc[t] \in {"await", "stopWait"} /\ alive[conn[t]] = "dead" ~> pc[t] = "done"

----------------------------------------------------------------------------
(* What the documentation claims and the code does not keep *)

\* Claimed of launch and attach (guard "idle" only): one session is set up at
\* a time.
OneLaunchAtATime ==
  Cardinality({t \in Tasks : tool[t] \in Launches /\ InFlight(t)}) <= 1

\* Claimed by the state diagram: "terminated" is left by disconnect only.
TerminatedIsFinal ==
  [][state = "terminated" => state' \in {"terminated", "idle"}]_vars

\* Claimed of the recovery (Spec FR-17.7): a session whose adapter died while
\* a resume was blocked ends up terminated.
CrashTerminatesSession ==
  \A t \in Tasks :
    /\ Quiescent
    /\ tool[t] = "resume" /\ pc[t] = "done" /\ conn[t] # None
    /\ conn[t] = backend /\ alive[conn[t]] = "dead"
    => state = "terminated"

\* Claimed of the generation guard: a continue that returns after a
\* disconnect does not clobber the idle state ...
DisconnectStaysIdle ==
  (\E t \in Tasks : tool[t] = "disconnect" /\ pc[t] = "done" /\ conn[t] # None)
    /\ Quiescent => state = "idle"

\* ... and leaves no stop metadata in the reset session.
ResetStopCache ==
  \A t \in Tasks :
    tool[t] = "resume" /\ pc[t] = "drainOut" /\ state = "idle" => lastStopped = None

\* Claimed of a cancelled continue: the session recovers with pause.
PauseRecovers ==
  \A k \in Conns :
    /\ pausing[k] /\ debuggee[k] = "running"
    /\ backend = k /\ state = "running"
    /\ \A t \in Tasks : ~InFlight(t)
    ~> state # "running"

\* Claimed of a resume the debugger refuses (BackendError::Dap, CONTINUE.failed):
\* it comes back as an error instead of waiting for a stop.
RefusalIsReported ==
  \A t \in Tasks :
    pc[t] = "stopWait" /\ debuggee[conn[t]] = "stopped" ~> pc[t] # "stopWait"

\* Claimed by the state diagram: a stopped event takes a running session to
\* "stopped".
StopIsReflected ==
  \A k \in Conns :
    backend = k /\ debuggee[k] = "stopped" ~> backend # k \/ state # "running"

\* Claimed of disconnect (Spec FR-6.5): the idle baseline has an empty output
\* buffer.
OutputIsCleared ==
  (\E t \in Tasks : tool[t] = "disconnect" /\ pc[t] = "done" /\ conn[t] # None)
    /\ Quiescent => output = {}

\* Claimed of disconnect (Spec FR-6.3): it releases a blocked resume.
DisconnectReleasesResume ==
  \A t, u \in Tasks :
    tool[t] = "disconnect" /\ pc[t] = "done" /\ pc[u] = "stopWait"
      /\ conn[u] = conn[t] ~> pc[u] = "done"

\* Claimed of cleanup_after_cancel: dropping the backend kills the adapter.
DroppedBackendIsKilled ==
  \A k \in Conns :
    Quiescent /\ alive[k] = "up" => backend = k

\* Claimed of drop_backend_bounded: disconnect has already killed the child.
DisconnectKilledChild ==
  \A t \in Tasks :
    tool[t] = "disconnect" /\ pc[t] \in {"take", "reset", "drain", "done"}
      /\ conn[t] # None => alive[conn[t]] = "dead"
=============================================================================
