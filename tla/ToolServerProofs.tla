-------------------------- MODULE ToolServerProofs --------------------------
(***************************************************************************)
(* ToolServer for any number of calls and connections: types, the          *)
(* generation guard, the clean state after a disconnect that runs alone,   *)
(* and, for a client that makes one call at a time, that "idle" is clean   *)
(* and "stopped" and "terminated" are said of a debuggee that is.          *)
(***************************************************************************)
EXTENDS ToolServer, TLAPS

USE ToolServerAssumption DEF Due, Fire, FireAtEof

\* The places of launch and attach, of their and disconnect's common tail,
\* and of a resume.
LaunchPCs == {"configure", "connect", "failReset", "failDrain", "failClear",
              "store", "pump", "handshake", "record", "setState", "setStopped",
              "clear"}
ResetPCs  == {"reset", "drain"}
ResumePCs == {"snapshot", "setRunning", "register", "send", "await",
              "stopWait", "revert", "apply", "cache", "drainOut"}

\* Every tool keeps to its own places, and a handshake has returned one of its
\* three outcomes.
PlacesInv ==
  \A t \in Tasks :
    /\ pc[t] \in LaunchPCs => tool[t] \in Launches
    /\ pc[t] \in ResetPCs => tool[t] \in Launches \cup {"disconnect"}
    /\ pc[t] \in ResumePCs => tool[t] = "resume"
    /\ pc[t] \in {"disconnecting", "take"} => tool[t] = "disconnect"
    /\ pc[t] = "pauseSend" => tool[t] = "pause"
    /\ pc[t] = "fetch" => tool[t] \in {"resume", "pause", "disconnect"}
    /\ pc[t] \in {"record", "setState"} =>
         out[t] \in {"stopped", "running", "exited"}

\* No pump was spawned in a generation yet to come.
GenInv == \A k \in Conns : pumpGen[k] # None => pumpGen[k] <= generation

Clean == program = None /\ exitCode = None /\ lastStopped = None

\* While a lone disconnect is the last call, nobody else is at work; once it
\* has reset the session every pump is of an earlier generation.
LoneInv ==
  lone # None =>
    /\ lone \in Tasks
    /\ tool[lone] = "disconnect"
    /\ pc[lone] \in {"fetch", "disconnecting", "take", "reset", "drain", "done"}
    /\ \A u \in Tasks \ {lone} : ~InFlight(u)
    /\ pc[lone] \in {"reset", "drain", "done"} => backend = None
    /\ pc[lone] \in {"drain", "done"} =>
         /\ state = "idle" /\ Clean
         /\ \A k \in Conns : pumpGen[k] # None => pumpGen[k] < generation

\* One call at a time: two calls in flight are a resume and its pause; the
\* session is not idle when something is written that belongs to a
\* connection; and the backend slot is empty around a reset.
OneAtATime ==
  \A t, u \in Tasks :
    t # u /\ InFlight(t) /\ InFlight(u) =>
      \/ tool[t] = "pause" /\ tool[u] = "resume"
      \/ tool[t] = "resume" /\ tool[u] = "pause"
NotIdlePCs == {"connect", "store", "pump", "handshake", "record", "setStopped",
               "cache"}
EmptySlotPCs == {"configure", "connect", "failReset", "reset"}
SerialInv ==
  Serial =>
    /\ OneAtATime
    /\ state = "idle" => backend = None /\ Clean
    /\ \A t \in Tasks : pc[t] \in NotIdlePCs => state # "idle"
    /\ \A t \in Tasks : pc[t] \in EmptySlotPCs => backend = None

IInv == TypeOK /\ PlacesInv /\ GenInv /\ LoneInv /\ SerialInv

\* What follows is for one call at a time.  The debuggee is stopped, as far as
\* an adapter that lives can tell; a pump is of the current generation.
Halted(k)  == debuggee[k] = "stopped" \/ alive[k] = "dead"

\* A launch under way: no pump of the current generation before its own; its
\* connection is new, then the session's; its outcome is true.
LaunchInv(t) ==
  /\ pc[t] \in {"configure", "connect", "failReset", "store", "pump"} =>
       \A k \in Conns : ~Owned(k)
  /\ pc[t] \in {"connect", "store", "pump"} => state = "configuring"
  /\ pc[t] \in {"failDrain", "failClear"} => state = "idle"
  /\ pc[t] \in {"handshake", "record", "setState", "clear"} =>
       state \in {"configuring", "terminated"}
  /\ pc[t] \in {"store", "pump", "handshake", "record", "setState",
                "setStopped", "clear"} => conn[t] \in Conns
  /\ pc[t] \in {"pump", "handshake", "record", "setState", "setStopped",
                "clear"} => conn[t] = backend
  /\ pc[t] \in {"store", "pump", "handshake"} =>
       /\ alive[conn[t]] # "unused"
       /\ alive[conn[t]] = "up" =>
            debuggee[conn[t]] = "none" /\ term[conn[t]] = "none"
  /\ pc[t] \in {"record", "setState"} /\ out[t] = "exited" =>
       debuggee[conn[t]] = "gone"
  /\ pc[t] \in {"record", "setState"} /\ out[t] = "stopped" => Halted(conn[t])

\* A resume under way: the debuggee is stopped until the adapter has answered;
\* the outcome is that of its own connection.
ResumeInv(t) ==
  /\ tool[t] = "resume" =>
       /\ pc[t] \in {"fetch", "snapshot", "setRunning", "register", "send",
                     "await", "revert"} =>
            backend # None /\ Halted(backend) /\ lastStopped = backend
       /\ pc[t] \in {"start", "fetch", "snapshot", "setRunning", "register"} =>
            out[t] = "none"
  /\ pc[t] \in ResumePCs \ {"drainOut"} => conn[t] = backend /\ backend # None
  /\ pc[t] \in {"register", "send", "await", "stopWait", "apply", "revert"} =>
       state \in {"running", "terminated"}
  /\ pc[t] \in {"send", "await", "stopWait", "apply"} =>
       /\ out[t] \in {"exited", "terminated"} => debuggee[conn[t]] = "gone"
       /\ out[t] = "stopped" =>
            Halted(conn[t]) /\ pc[t] \notin {"send", "await"}

\* The stop waiter belongs to a resume of the connection that has registered.
SlotInv ==
  \A k \in Conns, t \in Tasks : slot[k] = t =>
    /\ pc[t] \in {"send", "await", "stopWait", "revert", "apply", "cache",
                  "drainOut", "done"}
    /\ conn[t] = k

\* A connection not made yet has no debuggee, and one that has ended none
\* that runs.
ConnInv ==
  \A k \in Conns :
    /\ alive[k] = "unused" => debuggee[k] = "none" /\ term[k] = "none"
    /\ term[k] # "none" => debuggee[k] = "gone"

\* The pump of the current generation is the backend's; "terminated" and
\* "stopped" are said of a debuggee that is.
SessionInv ==
  /\ state = "idle" => \A k \in Conns : ~Owned(k)
  /\ \A k \in Conns : Owned(k) => backend \in {k, None}
  /\ state = "terminated" /\ backend # None => debuggee[backend] = "gone"
  /\ state = "stopped" /\ (\A t \in Tasks : pc[t] # "reset") =>
       /\ backend # None /\ Halted(backend)
       /\ (\A t \in Tasks : pc[t] \notin {"setStopped", "cache"}) =>
            lastStopped = backend

RealInv ==
  Serial => /\ \A t \in Tasks : LaunchInv(t) /\ ResumeInv(t)
            /\ SlotInv /\ ConnInv /\ SessionInv

\* The session's connection: there is at most one, its pump is spawned once,
\* and it is there wherever the session says more than "configuring".
OwnerInv ==
  Serial =>
    /\ \A j, k \in Conns : Owned(j) /\ Owned(k) => j = k
    /\ \A k \in Conns : alive[k] = "unused" => pumpGen[k] = None
    /\ state \in {"stopped", "running", "terminated"} => \E k \in Conns : Owned(k)
    /\ backend # None /\ (\A t \in Tasks : pc[t] # "pump") => Owned(backend)
    /\ \A t \in Tasks :
         /\ pc[t] = "configure" => state = "idle"
         /\ pc[t] \in {"store", "pump"} => pumpGen[conn[t]] = None
         /\ pc[t] \in {"handshake", "record", "setState", "setStopped", "clear"} =>
              Owned(conn[t])
         /\ pc[t] \in {"setStopped", "cache"} =>
              state \in {"stopped", "terminated"} /\ Halted(backend)

\* A resume that has reported an exit, in the generation it began in: the code
\* is recorded, and no other connection and no launch is there to replace it.
Reported(t) ==
  /\ tool[t] = "resume"
  /\ out[t] = "exited"
  /\ pc[t] \in {"drainOut", "done"}
  /\ gen[t] = generation

ExitInv ==
  Serial =>
    \A t \in Tasks :
      /\ gen[t] <= generation
      /\ pc[t] = "cache" => out[t] = "stopped"
      /\ pc[t] \in {"send", "await", "revert"} => out[t] # "exited"
      /\ Reported(t) =>
           /\ exitCode = conn[t]
           /\ state # "idle"
           /\ backend \in {conn[t], None}
           /\ \A k \in Conns : Owned(k) => k = conn[t]
           /\ \A u \in Tasks : pc[u] \notin LaunchPCs

----------------------------------------------------------------------------

\* Delivering an outcome keeps the types.
LEMMA DeliverType ==
  ASSUME TypeOK, NEW k, NEW o \in Outcomes, Deliver(k, o)
  PROVE  slot' \in [Conns -> Tasks \cup {None}] /\ out' \in [Tasks -> Outcomes]
BY DEF TypeOK, Deliver

\* A handler's step, a backend's and a pump's: the disjuncts of Next, by what
\* they belong to.
LEMMA NextCases ==
  ASSUME [Next]_vars
  PROVE  \/ \E t \in Tasks :
              \/ Launch(t)
              \/ Resume(t)
              \/ FetchBackend(t) \/ Disconnect(t) \/ ResetSession(t)
              \/ StartPause(t) \/ SendPause(t)
              \/ ResumeAnswered(t) \/ DisconnectKills(t)
              \/ DisconnectTimesOut(t) \/ Cancel(t)
         \/ \E k \in Conns :
              \/ PumpTerminated(k) \/ PumpOutput(k)
              \/ DebuggeeStops(k) \/ DebuggeeExits(k) \/ AdapterDies(k)
         \/ UNCHANGED vars
BY DEF Next, Handler, Pump

\* Every step keeps the types.
LEMMA TypeStep ==
  ASSUME TypeOK, PlacesInv, [Next]_vars
  PROVE  TypeOK'
<1> USE DEF TypeOK, sessionVars, connVars, taskVars
<1>1. ASSUME NEW t \in Tasks, Launch(t)
      PROVE  TypeOK'
  BY <1>1 DEF Launch, StartLaunch, Guard, Configure, Connect, ConnectFails,
       Reset, DrainOutput, ClearBackend, StoreBackend, SpawnPump,
       HandshakeReturns, HandshakeOutcome, HandshakeFails, RecordProgram,
       SetLaunchState, SetLastStopped, Goto, PCs, States, Outcomes, PlacesInv
<1>2. ASSUME NEW t \in Tasks, Resume(t)
      PROVE  TypeOK'
  BY <1>2 DEF Resume, StartResume, Guard, Snapshot, SetRunning, RegisterStop,
       SendResume, ResumeClosed, StopReturned, Revert, ApplyOutcome,
       SetStateIfGeneration, TerminateIfGeneration, SetLastStopped,
       DrainOutput, Goto, PCs, States, Outcomes
<1>3. ASSUME NEW t \in Tasks,
             \/ FetchBackend(t) \/ Disconnect(t) \/ ResetSession(t)
             \/ StartPause(t) \/ SendPause(t)
      PROVE  TypeOK'
  <2>1. CASE FetchBackend(t)
    <3>1. pc[t] = "fetch" /\ tool[t] \in {"resume", "pause", "disconnect"}
      BY <2>1 DEF FetchBackend, Goto, PlacesInv
    <3>2. pc'[t] \in {"take", "done", "snapshot", "pauseSend", "disconnecting"}
      BY <2>1, <3>1 DEF FetchBackend, Goto
    <3>. QED
      BY <2>1, <3>2 DEF FetchBackend, Goto, PCs
  <2>2. CASE Disconnect(t) \/ ResetSession(t)
    BY <2>2 DEF Disconnect, StartDisconnect, ResetSession, Guard, ClearBackend,
         Reset, DrainOutput, Goto, PCs, States
  <2>3. CASE StartPause(t)
    BY <2>3 DEF StartPause, Guard, Goto, PCs
  <2>4. CASE SendPause(t)
    <3>1. pausing' \in [Conns -> BOOLEAN]
      BY <2>4 DEF SendPause
    <3>2. pc' \in [Tasks -> PCs]
      BY <2>4 DEF SendPause, Goto, PCs
    <3>. QED
      BY <2>4, <3>1, <3>2 DEF SendPause
  <2>. QED
    BY <1>3, <2>1, <2>2, <2>3, <2>4
<1>4. ASSUME NEW t \in Tasks,
             \/ ResumeAnswered(t) \/ DisconnectKills(t)
             \/ DisconnectTimesOut(t) \/ Cancel(t)
      PROVE  TypeOK'
  BY <1>4 DEF ResumeAnswered, DisconnectKills, Die, Deliver,
       DisconnectTimesOut, Cancel, Goto, PCs, Outcomes
<1>5. ASSUME NEW k \in Conns,
             \/ PumpTerminated(k) \/ PumpOutput(k)
             \/ DebuggeeStops(k) \/ DebuggeeExits(k) \/ AdapterDies(k)
      PROVE  TypeOK'
  <2>1. CASE PumpTerminated(k) \/ PumpOutput(k)
    BY <2>1 DEF PumpTerminated, PumpOutput, TerminateIfGeneration,
         SetStateIfGeneration, States
  <2>2. CASE DebuggeeStops(k) \/ DebuggeeExits(k) \/ AdapterDies(k)
    <3>1. /\ slot' \in [Conns -> Tasks \cup {None}]
          /\ out' \in [Tasks -> Outcomes]
      BY <2>2, DeliverType DEF DebuggeeStops, DebuggeeExits, AdapterDies, Die,
           Outcomes
    <3>2. pausing' \in [Conns -> BOOLEAN]
      BY <2>2 DEF DebuggeeStops, DebuggeeExits, AdapterDies, Die
    <3>. QED
      BY <2>2, <3>1, <3>2 DEF DebuggeeStops, DebuggeeExits, AdapterDies, Die
  <2>. QED
    BY <1>5, <2>1, <2>2
<1>6. CASE UNCHANGED vars
  BY <1>6 DEF vars
<1>. QED
  BY <1>1, <1>2, <1>3, <1>4, <1>5, <1>6, NextCases

\* Every step keeps the tools to their places.
LEMMA PlacesStep ==
  ASSUME TypeOK, PlacesInv, [Next]_vars
  PROVE  PlacesInv'
<1> USE DEF PlacesInv, LaunchPCs, ResetPCs, ResumePCs, Launches, connVars,
            taskVars
<1>0. pc \in [Tasks -> PCs] /\ out \in [Tasks -> Outcomes]
  BY DEF TypeOK
<1>1. ASSUME NEW t \in Tasks, Launch(t)
      PROVE  PlacesInv'
  BY <1>0, <1>1 DEF Launch, StartLaunch, Guard, Configure, Connect,
       ConnectFails, Reset, DrainOutput, ClearBackend, StoreBackend,
       SpawnPump, HandshakeReturns, HandshakeOutcome, HandshakeFails,
       RecordProgram, SetLaunchState, SetLastStopped, Goto
<1>2. ASSUME NEW t \in Tasks, Resume(t)
      PROVE  PlacesInv'
  BY <1>0, <1>2 DEF Resume, StartResume, Guard, Snapshot, SetRunning,
       RegisterStop, SendResume, ResumeClosed, StopReturned, Revert,
       ApplyOutcome, SetLastStopped, DrainOutput, Goto
<1>3. ASSUME NEW t \in Tasks,
             \/ FetchBackend(t) \/ Disconnect(t) \/ ResetSession(t)
             \/ StartPause(t) \/ SendPause(t)
      PROVE  PlacesInv'
  BY <1>0, <1>3 DEF FetchBackend, Disconnect, StartDisconnect, ResetSession,
       StartPause, SendPause, Guard, ClearBackend, Reset, DrainOutput, Goto
<1>4. ASSUME NEW t \in Tasks,
             \/ ResumeAnswered(t) \/ DisconnectKills(t)
             \/ DisconnectTimesOut(t) \/ Cancel(t)
      PROVE  PlacesInv'
  BY <1>0, <1>4 DEF ResumeAnswered, DisconnectKills, Die, Deliver,
       DisconnectTimesOut, Cancel, Goto
<1>5. ASSUME NEW k \in Conns,
             \/ PumpTerminated(k) \/ PumpOutput(k)
             \/ DebuggeeStops(k) \/ DebuggeeExits(k) \/ AdapterDies(k)
      PROVE  PlacesInv'
  BY <1>0, <1>5 DEF PumpTerminated, PumpOutput, DebuggeeStops, DebuggeeExits,
       AdapterDies, Die, Deliver
<1>6. CASE UNCHANGED vars
  BY <1>6 DEF vars
<1>. QED
  BY <1>1, <1>2, <1>3, <1>4, <1>5, <1>6, NextCases

\* Every spawned pump is of this generation or an earlier one.
LEMMA GenStep ==
  ASSUME TypeOK, GenInv, [Next]_vars
  PROVE  GenInv'
<1> USE DEF TypeOK, GenInv, sessionVars, connVars, taskVars
<1>1. ASSUME NEW t \in Tasks, Launch(t)
      PROVE  GenInv'
  BY <1>1 DEF Launch, StartLaunch, Guard, Configure, Connect, ConnectFails,
       Reset, DrainOutput, ClearBackend, StoreBackend, SpawnPump,
       HandshakeReturns, HandshakeOutcome, HandshakeFails, RecordProgram,
       SetLaunchState, SetLastStopped
<1>2. ASSUME NEW t \in Tasks, Resume(t)
      PROVE  GenInv'
  BY <1>2 DEF Resume, StartResume, Guard, Snapshot, SetRunning, RegisterStop,
       SendResume, ResumeClosed, StopReturned, Revert, ApplyOutcome,
       SetLastStopped, DrainOutput
<1>3. ASSUME NEW t \in Tasks,
             \/ FetchBackend(t) \/ Disconnect(t) \/ ResetSession(t)
             \/ StartPause(t) \/ SendPause(t)
      PROVE  GenInv'
  BY <1>3 DEF FetchBackend, Disconnect, StartDisconnect, ResetSession,
       StartPause, SendPause, Guard, ClearBackend, Reset, DrainOutput
<1>4. ASSUME NEW t \in Tasks,
             \/ ResumeAnswered(t) \/ DisconnectKills(t)
             \/ DisconnectTimesOut(t) \/ Cancel(t)
      PROVE  GenInv'
  BY <1>4 DEF ResumeAnswered, DisconnectKills, Die, DisconnectTimesOut, Cancel
<1>5. ASSUME NEW k \in Conns,
             \/ PumpTerminated(k) \/ PumpOutput(k)
             \/ DebuggeeStops(k) \/ DebuggeeExits(k) \/ AdapterDies(k)
      PROVE  GenInv'
  BY <1>5 DEF PumpTerminated, PumpOutput, DebuggeeStops, DebuggeeExits,
       AdapterDies, Die
<1>6. CASE UNCHANGED vars
  BY <1>6 DEF vars
<1>. QED
  BY <1>1, <1>2, <1>3, <1>4, <1>5, <1>6, NextCases

\* What a lone disconnect has cleaned stays clean until another call starts.
LEMMA LoneStep ==
  ASSUME TypeOK, GenInv, LoneInv, [Next]_vars
  PROVE  LoneInv'
<1> USE DEF LoneInv, Clean, InFlight, sessionVars, connVars, taskVars
<1>0. /\ pc \in [Tasks -> PCs] /\ lone \in Tasks \cup {None}
      /\ generation \in Nat /\ pumpGen \in [Conns -> Nat \cup {None}]
  BY DEF TypeOK
<1>1. ASSUME NEW t \in Tasks, Launch(t)
      PROVE  LoneInv'
  BY <1>0, <1>1 DEF Launch, StartLaunch, Launches, Guard, Configure, Connect,
       ConnectFails, Reset, DrainOutput, ClearBackend, StoreBackend, SpawnPump,
       HandshakeReturns, HandshakeOutcome, HandshakeFails, RecordProgram,
       SetLaunchState, SetLastStopped, Goto
<1>2. ASSUME NEW t \in Tasks, Resume(t)
      PROVE  LoneInv'
  BY <1>0, <1>2 DEF Resume, StartResume, Guard, Snapshot, SetRunning,
       RegisterStop, SendResume, ResumeClosed, StopReturned, Revert,
       ApplyOutcome, SetLastStopped, DrainOutput, Goto
<1>3. ASSUME NEW t \in Tasks,
             \/ FetchBackend(t) \/ Disconnect(t) \/ ResetSession(t)
             \/ StartPause(t) \/ SendPause(t)
      PROVE  LoneInv'
  BY <1>0, <1>3 DEF FetchBackend, Disconnect, StartDisconnect, ResetSession,
       StartPause, SendPause, Guard, ClearBackend, Reset, DrainOutput, Goto,
       GenInv
<1>4. ASSUME NEW t \in Tasks,
             \/ ResumeAnswered(t) \/ DisconnectKills(t)
             \/ DisconnectTimesOut(t) \/ Cancel(t)
      PROVE  LoneInv'
  BY <1>0, <1>4 DEF ResumeAnswered, DisconnectKills, Die, DisconnectTimesOut,
       Cancel, Goto
<1>5. ASSUME NEW k \in Conns,
             \/ PumpTerminated(k) \/ PumpOutput(k)
             \/ DebuggeeStops(k) \/ DebuggeeExits(k) \/ AdapterDies(k)
      PROVE  LoneInv'
  BY <1>0, <1>5 DEF PumpTerminated, TerminateIfGeneration,
       SetStateIfGeneration, PumpOutput, DebuggeeStops, DebuggeeExits,
       AdapterDies, Die
<1>6. CASE UNCHANGED vars
  BY <1>6 DEF vars
<1>. QED
  BY <1>1, <1>2, <1>3, <1>4, <1>5, <1>6, NextCases

\* When one call is made at a time, a launch or a disconnect is alone, and
\* beside a resume there are only pauses.
LEMMA OthersAtRest ==
  ASSUME TypeOK, PlacesInv, OneAtATime,
         NEW t \in Tasks, InFlight(t), NEW u \in Tasks \ {t}
  PROVE  /\ tool[t] \notin {"resume", "pause"} => pc[u] \in {"start", "done"}
         /\ tool[t] = "resume" =>
              pc[u] \in {"start", "done", "fetch", "pauseSend"}
<1>1. pc[u] \in PCs
  BY DEF TypeOK
<1>2. InFlight(u) => \/ tool[u] = "pause" /\ tool[t] = "resume"
                     \/ tool[u] = "resume" /\ tool[t] = "pause"
  BY DEF OneAtATime
<1>3. tool[u] = "pause" => pc[u] \in {"start", "done", "fetch", "pauseSend"}
  BY <1>1 DEF PlacesInv, PCs, LaunchPCs, ResetPCs, ResumePCs, Launches
<1>. QED
  BY <1>2, <1>3 DEF InFlight

\* A call that starts does so beside a resume it is to pause, or alone; and
\* the guard of a launch has seen an idle session.
LEMMA GuardKeepsSerial ==
  ASSUME TypeOK, PlacesInv, SerialInv, Serial, NEW t \in Tasks,
         \/ StartLaunch(t) \/ StartResume(t)
         \/ StartPause(t) \/ StartDisconnect(t)
  PROVE  SerialInv'
<1>1. PICK allowed, next :
        /\ Guard(t, allowed, next)
        /\ \/ next = "configure" /\ allowed = {"idle"}
           \/ next = "fetch"
  BY DEF StartLaunch, StartResume, StartPause, StartDisconnect
<1>2. /\ pc \in [Tasks -> PCs] /\ pc[t] = "start"
      /\ pc' = [pc EXCEPT ![t] = IF state \in allowed THEN next ELSE "done"]
      /\ UNCHANGED <<tool, backend, sessionVars>>
  BY <1>1 DEF Guard, TypeOK
<1>3. ASSUME NEW u \in Tasks \ {t}, InFlight(u)
      PROVE  tool[t] = "pause" /\ tool[u] = "resume"
  BY <1>1, <1>3 DEF Guard, Serial
<1>4. OneAtATime'
  BY <1>2, <1>3 DEF OneAtATime, InFlight, SerialInv
<1>5. \A u \in Tasks : pc'[u] \in NotIdlePCs => state' # "idle"
  BY <1>1, <1>2 DEF NotIdlePCs, SerialInv, sessionVars
<1>6. \A u \in Tasks : pc'[u] \in EmptySlotPCs => backend' = None
  BY <1>1, <1>2 DEF EmptySlotPCs, SerialInv, sessionVars
<1>. QED
  BY <1>2, <1>4, <1>5, <1>6 DEF SerialInv, Clean, sessionVars

\* One call at a time stays so, and leaves the idle session clean.
LEMMA SerialStep ==
  ASSUME TypeOK, PlacesInv, SerialInv, [Next]_vars
  PROVE  SerialInv'
<1> SUFFICES ASSUME Serial
             PROVE  SerialInv'
  BY DEF SerialInv, Serial
<1>0. /\ pc \in [Tasks -> PCs]
      /\ OneAtATime
      /\ state = "idle" => backend = None /\ Clean
      /\ \A t \in Tasks : pc[t] \in NotIdlePCs => state # "idle"
      /\ \A t \in Tasks : pc[t] \in EmptySlotPCs => backend = None
  BY DEF TypeOK, SerialInv
<1> USE DEF NotIdlePCs, EmptySlotPCs, Clean, sessionVars, connVars, taskVars
<1>1. ASSUME NEW t \in Tasks, Launch(t), ~StartLaunch(t)
      PROVE  SerialInv'
  <2>1. pc[t] \in LaunchPCs /\ UNCHANGED tool
    BY <1>1 DEF Launch, Configure, Connect,
         ConnectFails, Reset, DrainOutput, ClearBackend, StoreBackend, SpawnPump,
         HandshakeReturns, HandshakeOutcome, HandshakeFails, RecordProgram,
         SetLaunchState, SetLastStopped, Goto, LaunchPCs
  <2>2. \A u \in Tasks \ {t} : pc[u] \in {"start", "done"}
    BY <2>1, <1>0, OthersAtRest DEF PlacesInv, LaunchPCs, Launches, InFlight
  <2>3. \A u \in Tasks \ {t} : pc'[u] = pc[u]
    BY <1>0, <1>1 DEF Launch, Configure, Connect,
         ConnectFails, Reset, DrainOutput, ClearBackend, StoreBackend, SpawnPump,
         HandshakeReturns, HandshakeOutcome, HandshakeFails, RecordProgram,
         SetLaunchState, SetLastStopped, Goto
  <2>4. OneAtATime'
    BY <2>2, <2>3 DEF OneAtATime, InFlight
  <2>5. CASE \/ Configure(t) \/ Connect(t) \/ ConnectFails(t)
             \/ StoreBackend(t) \/ SpawnPump(t)
    BY <1>0, <2>2, <2>3, <2>4, <2>5 DEF Configure, Connect, ConnectFails,
       StoreBackend, SpawnPump, Goto, SerialInv
  <2>6. CASE HandshakeReturns(t) \/ HandshakeFails(t) \/ RecordProgram(t)
    BY <1>0, <2>2, <2>3, <2>4, <2>6 DEF HandshakeReturns, HandshakeOutcome,
       HandshakeFails, RecordProgram, Goto, SerialInv
  <2>7. CASE SetLaunchState(t) \/ SetLastStopped(t, "setStopped", "done")
    BY <1>0, <2>1, <2>2, <2>3, <2>4, <2>7 DEF SetLaunchState, SetLastStopped,
         Goto, SerialInv, PlacesInv
  <2>8. CASE \/ Reset(t, "failReset", "failDrain")
             \/ DrainOutput(t, "failDrain", "failClear")
             \/ ClearBackend(t, "failClear", "done")
             \/ ClearBackend(t, "clear", "reset")
    BY <1>0, <2>2, <2>3, <2>4, <2>8 DEF Reset, DrainOutput, ClearBackend, Goto,
       SerialInv
  <2>. QED
    BY <1>1, <2>5, <2>6, <2>7, <2>8 DEF Launch
<1>2. ASSUME NEW t \in Tasks, Resume(t), ~StartResume(t)
      PROVE  SerialInv'
  <2>1. pc[t] \in ResumePCs /\ UNCHANGED tool
    BY <1>2 DEF Resume, Snapshot, SetRunning, RegisterStop, SendResume,
         ResumeClosed, StopReturned, Revert, ApplyOutcome, SetLastStopped,
         DrainOutput, Goto, ResumePCs
  <2>2. \A u \in Tasks \ {t} : pc[u] \in {"start", "done", "fetch", "pauseSend"}
    BY <2>1, <1>0, OthersAtRest DEF PlacesInv, ResumePCs, InFlight
  <2>3. \A u \in Tasks \ {t} : pc'[u] = pc[u]
    BY <1>0, <1>2 DEF Resume, Snapshot, SetRunning, RegisterStop, SendResume,
         ResumeClosed, StopReturned, Revert, ApplyOutcome, SetLastStopped,
         DrainOutput, Goto
  <2>4. OneAtATime'
    BY <1>0, <2>1, <2>3 DEF OneAtATime, InFlight, ResumePCs
  <2>5. CASE Snapshot(t) \/ SetRunning(t) \/ RegisterStop(t) \/ SendResume(t)
    BY <1>0, <2>2, <2>3, <2>4, <2>5 DEF Snapshot, SetRunning, RegisterStop,
       SendResume, Goto, SerialInv
  <2>6. CASE ResumeClosed(t) \/ StopReturned(t) \/ Revert(t)
    BY <1>0, <2>2, <2>3, <2>4, <2>6 DEF ResumeClosed, StopReturned, Revert,
         Goto, SerialInv
  <2>7. CASE ApplyOutcome(t)
    BY <1>0, <2>2, <2>3, <2>4, <2>7 DEF ApplyOutcome, SetStateIfGeneration,
       TerminateIfGeneration, Goto, SerialInv
  <2>8. CASE \/ SetLastStopped(t, "cache", "drainOut")
             \/ DrainOutput(t, "drainOut", "done")
    BY <1>0, <2>2, <2>3, <2>4, <2>8 DEF SetLastStopped, DrainOutput, Goto,
       SerialInv
  <2>. QED
    BY <1>2, <2>5, <2>6, <2>7, <2>8 DEF Resume
<1>3. ASSUME NEW t \in Tasks, FetchBackend(t) \/ SendPause(t)
      PROVE  SerialInv'
  <2>1. CASE FetchBackend(t)
    <3>1. pc[t] = "fetch" /\ tool[t] \in {"resume", "pause", "disconnect"}
      BY <2>1 DEF FetchBackend, Goto, PlacesInv
    <3>2. pc'[t] \in {"take", "done", "snapshot", "pauseSend", "disconnecting"}
      BY <1>0, <2>1, <3>1 DEF FetchBackend, Goto
    <3>3. \A u \in Tasks \ {t} : pc'[u] = pc[u]
      BY <1>0, <2>1 DEF FetchBackend, Goto
    <3>. QED
      BY <1>0, <2>1, <3>1, <3>2, <3>3 DEF FetchBackend, SerialInv, OneAtATime,
         InFlight
  <2>2. CASE SendPause(t)
    BY <1>0, <2>2 DEF SendPause, Goto, SerialInv, OneAtATime, InFlight
  <2>. QED
    BY <1>3, <2>1, <2>2
<1>4. ASSUME NEW t \in Tasks,
             ClearBackend(t, "take", "reset") \/ ResetSession(t)
      PROVE  SerialInv'
  <2>1. pc[t] \in {"take", "reset", "drain"} /\ UNCHANGED tool
    BY <1>4 DEF ResetSession, ClearBackend, Reset, DrainOutput, Goto
  <2>2. \A u \in Tasks \ {t} : pc[u] \in {"start", "done"}
    BY <2>1, <1>0, OthersAtRest DEF PlacesInv, ResetPCs, Launches, InFlight
  <2>. QED
    BY <1>0, <1>4, <2>1, <2>2 DEF ResetSession, ClearBackend, Reset,
         DrainOutput, Goto, SerialInv, OneAtATime, InFlight
<1>5. ASSUME NEW t \in Tasks,
             \/ ResumeAnswered(t) \/ DisconnectKills(t)
             \/ DisconnectTimesOut(t) \/ Cancel(t)
      PROVE  SerialInv'
  BY <1>0, <1>5 DEF ResumeAnswered, DisconnectKills, Die, DisconnectTimesOut,
       Cancel, Goto, SerialInv, OneAtATime, InFlight
<1>6. ASSUME NEW k \in Conns,
             \/ PumpTerminated(k) \/ PumpOutput(k)
             \/ DebuggeeStops(k) \/ DebuggeeExits(k) \/ AdapterDies(k)
      PROVE  SerialInv'
  BY <1>0, <1>6 DEF PumpTerminated, TerminateIfGeneration,
       SetStateIfGeneration, PumpOutput, DebuggeeStops, DebuggeeExits,
       AdapterDies, Die, SerialInv, OneAtATime, InFlight
<1>7. CASE UNCHANGED vars
  BY <1>0, <1>7 DEF vars, SerialInv, OneAtATime, InFlight
<1>. QED
  BY <1>1, <1>2, <1>3, <1>4, <1>5, <1>6, <1>7, NextCases, GuardKeepsSerial
     DEF Launch, Resume, Disconnect

\* The invariant holds of every behaviour.
LEMMA InvInductive == Spec => []IInv
<1>1. Init => IInv
  <2> SUFFICES ASSUME Init PROVE IInv
    OBVIOUS
  <2>1. TypeOK
    BY DEF Init, TypeOK, States, PCs, Outcomes
  <2>2. PlacesInv /\ GenInv /\ LoneInv
    BY DEF Init, PlacesInv, LaunchPCs, ResetPCs, ResumePCs, GenInv, LoneInv
  <2>3. SerialInv
    BY DEF Init, SerialInv, OneAtATime, NotIdlePCs, EmptySlotPCs, InFlight,
         Clean
  <2>. QED
    BY <2>1, <2>2, <2>3 DEF IInv
<1>2. IInv /\ [Next]_vars => IInv'
  BY TypeStep, PlacesStep, GenStep, LoneStep, SerialStep DEF IInv
<1>. QED
  BY <1>1, <1>2, PTL DEF Spec

\* Every variable stays within its type, for any calls and connections.
THEOREM TypeCorrect == Spec => []TypeOK
<1>1. IInv => TypeOK
  BY DEF IInv
<1>. QED
  BY <1>1, InvInductive, PTL

\* A disconnect that runs alone leaves a clean idle session (disconnect,
\* reset), however many calls and connections came before and whatever they
\* left: no event of an earlier generation undoes it.
THEOREM LoneDisconnectIsClean == Spec => []LoneDisconnectCleans
<1>1. IInv => LoneDisconnectCleans
  BY DEF IInv, LoneInv, Clean, LoneDisconnectCleans
<1>. QED
  BY <1>1, InvInductive, PTL

\* A client that makes one call at a time finds every idle session clean
\* (reset, cleanup_after_cancel), over any number of launches and sessions.
THEOREM IdleStaysClean == Spec => []IdleIsClean
<1>1. IInv => IdleIsClean
  BY DEF IInv, SerialInv, Clean, IdleIsClean
<1>. QED
  BY <1>1, InvInductive, PTL

----------------------------------------------------------------------------

\* A launch keeps it: it is alone, and its connection new.
LEMMA LaunchKeepsReal ==
  ASSUME TypeOK, PlacesInv, GenInv, SerialInv, RealInv, Serial,
         NEW t \in Tasks, Launch(t), ~StartLaunch(t)
  PROVE  RealInv'
<1>1. pc[t] \in LaunchPCs /\ UNCHANGED tool
  BY DEF Launch, Configure, Connect, ConnectFails, Reset, DrainOutput,
       ClearBackend, StoreBackend, SpawnPump, HandshakeReturns,
       HandshakeOutcome, HandshakeFails, RecordProgram, SetLaunchState,
       SetLastStopped, Goto, LaunchPCs
<1>2. /\ tool[t] \in Launches
      /\ \A u \in Tasks \ {t} : pc[u] \in {"start", "done"}
  BY <1>1, OthersAtRest DEF PlacesInv, LaunchPCs, Launches, InFlight, SerialInv
<1>3. \A u \in Tasks \ {t} : pc'[u] = pc[u]
  BY DEF TypeOK, Launch, Configure, Connect, ConnectFails, Reset, DrainOutput,
       ClearBackend, StoreBackend, SpawnPump, HandshakeReturns,
       HandshakeOutcome, HandshakeFails, RecordProgram, SetLaunchState,
       SetLastStopped, Goto
<1>4. /\ pc \in [Tasks -> PCs] /\ out \in [Tasks -> Outcomes]
      /\ conn \in [Tasks -> Conns \cup {None}]
      /\ alive \in [Conns -> {"unused", "up", "dead"}]
      /\ debuggee \in [Conns -> {"none", "stopped", "running", "gone"}]
      /\ slot \in [Conns -> Tasks \cup {None}]
      /\ pumpGen \in [Conns -> Nat \cup {None}]
      /\ term \in [Conns -> {"none", "queued", "coded", "applied"}]
      /\ generation \in Nat /\ backend \in Conns \cup {None}
  BY DEF TypeOK
<1>5. /\ \A u \in Tasks : LaunchInv(u) /\ ResumeInv(u)
      /\ SlotInv /\ ConnInv /\ SessionInv
  BY DEF RealInv
<1> USE DEF Launches, sessionVars, connVars, taskVars
<1>6. (\A u \in Tasks \ {t} : LaunchInv(u) /\ ResumeInv(u))'
  BY <1>2, <1>3, <1>4, <1>5
     DEF LaunchInv, ResumeInv, ResumePCs, Launch, Configure, Connect,
       ConnectFails, Reset, DrainOutput, ClearBackend, StoreBackend,
       SpawnPump, HandshakeReturns, HandshakeOutcome, HandshakeFails,
       RecordProgram, SetLaunchState, SetLastStopped, Goto
<1>7. SlotInv'
  BY <1>1, <1>2, <1>3, <1>4, <1>5
     DEF SlotInv, LaunchPCs, Launch, Configure, Connect,
       ConnectFails, Reset, DrainOutput, ClearBackend, StoreBackend,
       SpawnPump, HandshakeReturns, HandshakeOutcome, HandshakeFails,
       RecordProgram, SetLaunchState, SetLastStopped, Goto
<1>8. ConnInv'
  <2>1. CASE HandshakeReturns(t)
    BY <2>1, <1>4, <1>5
       DEF HandshakeReturns, HandshakeOutcome, ConnInv, LaunchInv, Goto
  <2>2. CASE Connect(t)
    BY <2>2, <1>4, <1>5 DEF Connect, ConnInv
  <2>3. CASE ~HandshakeReturns(t) /\ ~Connect(t)
    <3>1. UNCHANGED <<alive, debuggee, term>>
      BY <2>3 DEF Launch, Configure, ConnectFails, Reset, DrainOutput,
           ClearBackend, StoreBackend, SpawnPump, HandshakeFails,
           RecordProgram, SetLaunchState, SetLastStopped
    <3>. QED
      BY <3>1, <1>5 DEF ConnInv
  <2>. QED
    BY <2>1, <2>2, <2>3
<1>9. (ResumeInv(t))'
  BY <1>1, <1>2, <1>3, <1>4
     DEF ResumeInv, ResumePCs, LaunchPCs, Launch, Configure, Connect,
       ConnectFails, Reset, DrainOutput, ClearBackend, StoreBackend,
       SpawnPump, HandshakeReturns, HandshakeOutcome, HandshakeFails,
       RecordProgram, SetLaunchState, SetLastStopped, Goto
<1>10. (LaunchInv(t))' /\ SessionInv'
  <2> USE DEF LaunchInv, SessionInv, Owned, Halted, Goto
  <2>1. CASE \/ Configure(t) \/ ConnectFails(t)
             \/ HandshakeFails(t) \/ RecordProgram(t)
    BY <2>1, <1>1, <1>2, <1>3, <1>4, <1>5
       DEF Configure, ConnectFails, HandshakeFails, RecordProgram
  <2>2. CASE Connect(t) \/ StoreBackend(t)
    BY <2>2, <1>1, <1>2, <1>3, <1>4, <1>5 DEF Connect, StoreBackend, ConnInv
  <2>3. CASE SpawnPump(t)
    BY <2>3, <1>1, <1>2, <1>3, <1>4, <1>5 DEF SpawnPump
  <2>4. CASE HandshakeReturns(t)
    BY <2>4, <1>1, <1>2, <1>3, <1>4, <1>5 DEF HandshakeReturns, HandshakeOutcome
  <2>5. CASE SetLaunchState(t)
    <3>1. pc[t] = "setState" /\ out[t] \in {"stopped", "running", "exited"}
      BY <2>5 DEF SetLaunchState, PlacesInv
    <3>2. CASE out[t] = "stopped"
      BY <2>5, <3>1, <3>2, <1>2, <1>3, <1>4, <1>5 DEF SetLaunchState
    <3>3. CASE out[t] = "running"
      BY <2>5, <3>1, <3>3, <1>2, <1>3, <1>4, <1>5 DEF SetLaunchState
    <3>4. CASE out[t] = "exited"
      BY <2>5, <3>1, <3>4, <1>2, <1>3, <1>4, <1>5 DEF SetLaunchState
    <3>. QED
      BY <3>1, <3>2, <3>3, <3>4
  <2>6. CASE SetLastStopped(t, "setStopped", "done")
    BY <2>6, <1>1, <1>2, <1>3, <1>4, <1>5 DEF SetLastStopped
  <2>7. CASE Reset(t, "failReset", "failDrain")
    BY <2>7, <1>1, <1>2, <1>3, <1>4, <1>5 DEF Reset, GenInv
  <2>8. CASE \/ DrainOutput(t, "failDrain", "failClear")
             \/ ClearBackend(t, "failClear", "done")
             \/ ClearBackend(t, "clear", "reset")
    BY <2>8, <1>1, <1>2, <1>3, <1>4, <1>5 DEF DrainOutput, ClearBackend
  <2>. QED
    BY <2>1, <2>2, <2>3, <2>4, <2>5, <2>6, <2>7, <2>8 DEF Launch
<1>. QED
  BY <1>6, <1>7, <1>8, <1>9, <1>10 DEF RealInv

\* A resume keeps it: beside it there are only pauses, and the debuggee stays
\* halted until the adapter has answered.
LEMMA ResumeKeepsReal ==
  ASSUME TypeOK, PlacesInv, GenInv, SerialInv, RealInv, Serial,
         NEW t \in Tasks, Resume(t) \/ ResumeAnswered(t), ~StartResume(t)
  PROVE  RealInv'
<1>1. pc[t] \in ResumePCs /\ UNCHANGED tool
  BY DEF Resume, Snapshot, SetRunning, RegisterStop, SendResume,
       ResumeAnswered, ResumeClosed, StopReturned, Revert, ApplyOutcome,
       SetLastStopped, DrainOutput, Goto, ResumePCs
<1>2. /\ tool[t] = "resume"
      /\ \A u \in Tasks \ {t} :
           /\ pc[u] \in {"start", "done", "fetch", "pauseSend"}
           /\ pc[u] = "fetch" => tool[u] # "resume"
  BY <1>1, OthersAtRest DEF PlacesInv, ResumePCs, InFlight, SerialInv, OneAtATime
<1>3. \A u \in Tasks \ {t} : pc'[u] = pc[u]
  BY DEF TypeOK, Resume, Snapshot, SetRunning, RegisterStop, SendResume,
       ResumeAnswered, ResumeClosed, StopReturned, Revert, ApplyOutcome,
       SetLastStopped, DrainOutput, Goto
<1>4. /\ pc \in [Tasks -> PCs] /\ out \in [Tasks -> Outcomes]
      /\ conn \in [Tasks -> Conns \cup {None}]
      /\ alive \in [Conns -> {"unused", "up", "dead"}]
      /\ debuggee \in [Conns -> {"none", "stopped", "running", "gone"}]
      /\ slot \in [Conns -> Tasks \cup {None}]
      /\ pumpGen \in [Conns -> Nat \cup {None}]
      /\ term \in [Conns -> {"none", "queued", "coded", "applied"}]
      /\ generation \in Nat /\ backend \in Conns \cup {None}
  BY DEF TypeOK
<1>5. /\ \A u \in Tasks : LaunchInv(u) /\ ResumeInv(u)
      /\ SlotInv /\ ConnInv /\ SessionInv
  BY DEF RealInv
<1> USE DEF sessionVars, connVars, taskVars
<1>6. (\A u \in Tasks \ {t} : LaunchInv(u) /\ ResumeInv(u))'
  BY <1>2, <1>3, <1>4, <1>5
     DEF LaunchInv, ResumeInv, ResumePCs, SlotInv, Resume, Snapshot,
       SetRunning, RegisterStop, SendResume, ResumeAnswered, ResumeClosed,
       StopReturned, Revert, ApplyOutcome, SetLastStopped, DrainOutput, Goto
<1>7. (LaunchInv(t))'
  BY <1>1, <1>2, <1>3, <1>4
     DEF LaunchInv, ResumePCs, Resume, Snapshot, SetRunning, RegisterStop,
       SendResume, ResumeAnswered, ResumeClosed, StopReturned, Revert,
       ApplyOutcome, SetLastStopped, DrainOutput, Goto
<1>8. ConnInv'
  BY <1>4, <1>5
     DEF ConnInv, Resume, Snapshot, SetRunning, RegisterStop, SendResume,
       ResumeAnswered, ResumeClosed, StopReturned, Revert, ApplyOutcome,
       SetLastStopped, DrainOutput
<1>9. SlotInv' /\ (ResumeInv(t))' /\ SessionInv'
  <2> USE DEF ResumeInv, ResumePCs, SlotInv, SessionInv, Owned, Halted, Goto
  <2>1. CASE Snapshot(t) \/ SetRunning(t)
    BY <2>1, <1>1, <1>2, <1>3, <1>4, <1>5 DEF Snapshot, SetRunning
  <2>2. CASE RegisterStop(t)
    BY <2>2, <1>1, <1>2, <1>3, <1>4, <1>5 DEF RegisterStop
  <2>3. CASE SendResume(t) \/ ResumeClosed(t)
    BY <2>3, <1>1, <1>2, <1>3, <1>4, <1>5 DEF SendResume, ResumeClosed
  <2>4. CASE ResumeAnswered(t)
    BY <2>4, <1>1, <1>2, <1>3, <1>4, <1>5 DEF ResumeAnswered
  <2>5. CASE StopReturned(t) \/ Revert(t)
    BY <2>5, <1>1, <1>2, <1>3, <1>4, <1>5 DEF StopReturned, Revert
  <2>6. CASE ApplyOutcome(t)
    BY <2>6, <1>1, <1>2, <1>3, <1>4, <1>5
       DEF ApplyOutcome, SetStateIfGeneration, TerminateIfGeneration
  <2>7. CASE \/ SetLastStopped(t, "cache", "drainOut")
             \/ DrainOutput(t, "drainOut", "done")
    BY <2>7, <1>1, <1>2, <1>3, <1>4, <1>5 DEF SetLastStopped, DrainOutput
  <2>. QED
    BY <2>1, <2>2, <2>3, <2>4, <2>5, <2>6, <2>7 DEF Resume
<1>. QED
  BY <1>6, <1>7, <1>8, <1>9 DEF RealInv

\* A call that starts keeps it: a launch has seen an idle session, a resume a
\* stopped one, and neither starts beside another call.
LEMMA GuardKeepsReal ==
  ASSUME TypeOK, PlacesInv, SerialInv, RealInv, Serial, NEW t \in Tasks,
         \/ StartLaunch(t) \/ StartResume(t)
         \/ StartPause(t) \/ StartDisconnect(t)
  PROVE  RealInv'
<1>1. PICK allowed, next :
        /\ Guard(t, allowed, next)
        /\ \/ next = "configure" /\ allowed = {"idle"} /\ tool[t] \in Launches
           \/ next = "fetch" /\ allowed = {"stopped"} /\ tool[t] = "resume"
           \/ next = "fetch" /\ tool[t] \in {"pause", "disconnect"}
  BY DEF StartLaunch, StartResume, StartPause, StartDisconnect
<1>2. /\ pc \in [Tasks -> PCs] /\ pc[t] = "start"
      /\ pc' = [pc EXCEPT ![t] = IF state \in allowed THEN next ELSE "done"]
      /\ UNCHANGED <<sessionVars, tool, backend, conn, out, connVars>>
  BY <1>1 DEF Guard, TypeOK
<1>3. /\ \A u \in Tasks : LaunchInv(u) /\ ResumeInv(u)
      /\ SlotInv /\ ConnInv /\ SessionInv
  BY DEF RealInv
<1> USE DEF sessionVars, connVars
<1>4. tool[t] = "resume" => \A u \in Tasks : pc[u] \in {"start", "done"}
  <2> SUFFICES ASSUME tool[t] = "resume", NEW u \in Tasks \ {t}
               PROVE  ~InFlight(u)
    BY <1>2 DEF InFlight
  <2>. QED
    BY <1>1 DEF Guard, Serial
<1>5. (\A u \in Tasks \ {t} : LaunchInv(u) /\ ResumeInv(u))'
  BY <1>2, <1>3 DEF LaunchInv, ResumeInv, Halted, Owned
<1>6. (LaunchInv(t))'
  BY <1>1, <1>2, <1>3 DEF LaunchInv, SessionInv, Halted, Owned
<1>7. (ResumeInv(t))'
  BY <1>1, <1>2, <1>3, <1>4 DEF ResumeInv, ResumePCs, SessionInv, Halted, Launches
<1>8. SlotInv' /\ ConnInv'
  BY <1>1, <1>2, <1>3 DEF SlotInv, ConnInv
<1>9. SessionInv'
  BY <1>1, <1>2, <1>3 DEF SessionInv, Halted, Owned
<1>. QED
  BY <1>5, <1>6, <1>7, <1>8, <1>9 DEF RealInv

\* So do the other steps of a call: fetching the backend, sending a pause,
\* the tail of a disconnect and a cancellation.
LEMMA CallKeepsReal ==
  ASSUME TypeOK, PlacesInv, GenInv, SerialInv, RealInv, Serial, NEW t \in Tasks,
         \/ FetchBackend(t) \/ SendPause(t) \/ ClearBackend(t, "take", "reset")
         \/ ResetSession(t) \/ DisconnectKills(t) \/ DisconnectTimesOut(t)
         \/ Cancel(t)
  PROVE  RealInv'
<1>1.  /\ pc \in [Tasks -> PCs] /\ out \in [Tasks -> Outcomes]
      /\ conn \in [Tasks -> Conns \cup {None}]
      /\ alive \in [Conns -> {"unused", "up", "dead"}]
      /\ debuggee \in [Conns -> {"none", "stopped", "running", "gone"}]
      /\ slot \in [Conns -> Tasks \cup {None}]
      /\ pumpGen \in [Conns -> Nat \cup {None}]
      /\ term \in [Conns -> {"none", "queued", "coded", "applied"}]
      /\ generation \in Nat /\ backend \in Conns \cup {None}
  BY DEF TypeOK
<1>2. /\ \A u \in Tasks : LaunchInv(u) /\ ResumeInv(u)
      /\ SlotInv /\ ConnInv /\ SessionInv
  BY DEF RealInv
<1> USE DEF sessionVars, connVars, taskVars, LaunchInv, ResumeInv, SlotInv,
            ConnInv, SessionInv, Halted, Owned, ResumePCs, Goto
<1>3. CASE FetchBackend(t)
  <2>1. pc[t] = "fetch" /\ tool[t] \in {"resume", "pause", "disconnect"}
    BY <1>3 DEF FetchBackend, PlacesInv
  <2>2. /\ pc'[t] \in {"take", "done", "snapshot", "pauseSend", "disconnecting"}
        /\ pc'[t] = "snapshot" => tool[t] = "resume" /\ backend # None
    BY <1>1, <1>3, <2>1 DEF FetchBackend
  <2>. QED
    BY <1>1, <1>2, <1>3, <2>1, <2>2 DEF FetchBackend, RealInv
<1>4. CASE SendPause(t)
  BY <1>1, <1>2, <1>4 DEF SendPause, RealInv
<1>5. CASE ClearBackend(t, "take", "reset") \/ ResetSession(t)
           \/ DisconnectKills(t) \/ DisconnectTimesOut(t)
  <2>1. pc[t] \in {"take", "reset", "drain", "disconnecting"} /\ UNCHANGED tool
    BY <1>5 DEF ResetSession, ClearBackend, Reset, DrainOutput,
         DisconnectKills, DisconnectTimesOut
  <2>2. \A u \in Tasks \ {t} : pc[u] \in {"start", "done"}
    BY <2>1, OthersAtRest DEF PlacesInv, ResetPCs, Launches, InFlight, SerialInv
  <2>3. CASE ClearBackend(t, "take", "reset") \/ DisconnectTimesOut(t)
    BY <1>1, <1>2, <2>2, <2>3 DEF ClearBackend, DisconnectTimesOut, RealInv
  <2>4. CASE ResetSession(t)
    BY <1>1, <1>2, <2>1, <2>2, <2>4 DEF ResetSession, Reset,
         DrainOutput, GenInv, RealInv
  <2>5. CASE DisconnectKills(t)
    BY <1>1, <1>2, <2>1, <2>2, <2>5 DEF DisconnectKills, Die, Deliver, RealInv
  <2>. QED
    BY <1>5, <2>3, <2>4, <2>5
<1>6. CASE Cancel(t)
  BY <1>1, <1>2, <1>6 DEF Cancel, RealInv
<1>. QED
  BY <1>3, <1>4, <1>5, <1>6

\* And what a connection does by itself: an event that reaches its pump, a
\* stop, an exit, the end of the adapter.
LEMMA EventKeepsReal ==
  ASSUME TypeOK, PlacesInv, SerialInv, RealInv, Serial, NEW k \in Conns,
         \/ PumpTerminated(k) \/ PumpOutput(k)
         \/ DebuggeeStops(k) \/ DebuggeeExits(k) \/ AdapterDies(k)
  PROVE  RealInv'
<1>1.  /\ pc \in [Tasks -> PCs] /\ out \in [Tasks -> Outcomes]
      /\ conn \in [Tasks -> Conns \cup {None}]
      /\ alive \in [Conns -> {"unused", "up", "dead"}]
      /\ debuggee \in [Conns -> {"none", "stopped", "running", "gone"}]
      /\ slot \in [Conns -> Tasks \cup {None}]
      /\ pumpGen \in [Conns -> Nat \cup {None}]
      /\ term \in [Conns -> {"none", "queued", "coded", "applied"}]
      /\ generation \in Nat /\ backend \in Conns \cup {None}
  BY DEF TypeOK
<1>2. /\ \A u \in Tasks : LaunchInv(u) /\ ResumeInv(u)
      /\ SlotInv /\ ConnInv /\ SessionInv
  BY DEF RealInv
<1> USE DEF sessionVars, connVars, taskVars, LaunchInv, ResumeInv, SlotInv,
            ConnInv, SessionInv, Halted, Owned, ResumePCs
<1>4. CASE PumpTerminated(k)
  BY <1>1, <1>2, <1>4
     DEF PumpTerminated, TerminateIfGeneration, SetStateIfGeneration, RealInv
<1>5. CASE PumpOutput(k)
  BY <1>1, <1>2, <1>5 DEF PumpOutput, RealInv
<1>6. CASE DebuggeeStops(k)
  <2>1. /\ alive[k] = "up" /\ debuggee[k] = "running"
        /\ debuggee' = [debuggee EXCEPT ![k] = "stopped"]
        /\ UNCHANGED <<sessionVars, backend, tool, pc, conn, alive, pumpGen,
                       term>>
        /\ Deliver(k, "stopped")
    BY <1>6 DEF DebuggeeStops
  <2>2. \A t \in Tasks : pc[t] \in {"record", "setState"} => out'[t] = out[t]
    BY <2>1 DEF Deliver
  <2>3. (\A t \in Tasks : LaunchInv(t))'
    BY <1>1, <1>2, <2>1, <2>2
  <2>4. (\A t \in Tasks : ResumeInv(t))'
    BY <1>1, <1>2, <2>1 DEF Deliver, PlacesInv
  <2>5. SlotInv' /\ ConnInv' /\ SessionInv'
    BY <1>1, <1>2, <2>1 DEF Deliver
  <2>. QED
    BY <2>3, <2>4, <2>5 DEF RealInv
<1>7. CASE DebuggeeExits(k)
  BY <1>1, <1>2, <1>7 DEF DebuggeeExits, Deliver, RealInv
<1>8. CASE AdapterDies(k)
  BY <1>1, <1>2, <1>8 DEF AdapterDies, Die, Deliver, RealInv
<1>. QED
  BY <1>4, <1>5, <1>6, <1>7, <1>8

\* The second invariant holds of every behaviour.
LEMMA RealInductive == Spec => []RealInv
<1>1. Init => RealInv
  <2> SUFFICES ASSUME Init PROVE RealInv
    OBVIOUS
  <2>. QED
    BY DEF Init, RealInv, LaunchInv, ResumeInv, ResumePCs, SlotInv, ConnInv,
         SessionInv, Owned
<1>2. ASSUME IInv, RealInv, [Next]_vars
      PROVE  RealInv'
  <2> SUFFICES ASSUME Serial
               PROVE  RealInv'
    BY DEF RealInv, Serial
  <2>1. TypeOK /\ PlacesInv /\ GenInv /\ SerialInv
    BY <1>2 DEF IInv
  <2>2. CASE UNCHANGED vars
    BY <1>2, <2>2 DEF vars, sessionVars, connVars, taskVars, RealInv,
         LaunchInv, ResumeInv, SlotInv, ConnInv, SessionInv, Halted, Owned
  <2>. QED
    BY <1>2, <2>1, <2>2, NextCases, GuardKeepsReal, LaunchKeepsReal,
       ResumeKeepsReal, CallKeepsReal, EventKeepsReal
       DEF Launch, Resume, Disconnect
<1>. QED
  BY <1>1, <1>2, InvInductive, PTL DEF Spec

\* A client that makes one call at a time can believe "stopped": the session
\* holds a backend whose debuggee is stopped, or whose adapter has died, and
\* the stop it shows is that backend's (resume, handle_stop_result).
THEOREM StoppedStaysReal == Spec => []StoppedIsReal
<1>1. IInv /\ RealInv => StoppedIsReal
  BY DEF IInv, PlacesInv, RealInv, SessionInv, Halted, Quiescent, InFlight,
       StoppedIsReal
<1>. QED
  BY <1>1, InvInductive, RealInductive, PTL

\* And "terminated": a late end of an earlier session never shows in a session
\* whose debuggee still runs (terminate_if_generation, the event pump).
THEOREM TerminatedStaysReal == Spec => []TerminatedIsReal
<1>1. RealInv => TerminatedIsReal
  BY DEF RealInv, SessionInv, TerminatedIsReal
<1>. QED
  BY <1>1, RealInductive, PTL

\* Every step leaves a reported exit as it was recorded.
LEMMA ExitStep ==
  ASSUME TypeOK, PlacesInv, GenInv, SerialInv, RealInv, ExitInv, Serial,
         [Next]_vars
  PROVE  ExitInv'
<1>1. /\ pc \in [Tasks -> PCs] /\ out \in [Tasks -> Outcomes]
      /\ gen \in [Tasks -> Nat] /\ generation \in Nat
      /\ conn \in [Tasks -> Conns \cup {None}]
      /\ pumpGen \in [Conns -> Nat \cup {None}]
      /\ tool \in [Tasks -> {"launch", "launch_running", "attach", "resume",
                             "pause", "disconnect"}]
  BY DEF TypeOK
<1>2. /\ \A u \in Tasks : LaunchInv(u) /\ ResumeInv(u)
      /\ SlotInv /\ ConnInv /\ SessionInv
  BY DEF RealInv
<1> USE DEF ExitInv, Reported, sessionVars, connVars, taskVars
<1>3. ASSUME NEW t \in Tasks, Launch(t), ~StartLaunch(t)
      PROVE  ExitInv'
  <2>1. /\ pc[t] \in LaunchPCs /\ UNCHANGED <<tool, gen>>
        /\ \A u \in Tasks : ~Reported(u)
    BY <1>3 DEF Launch, Configure, Connect, ConnectFails, Reset, DrainOutput,
       ClearBackend, StoreBackend, SpawnPump, HandshakeReturns,
       HandshakeOutcome, HandshakeFails, RecordProgram, SetLaunchState,
       SetLastStopped, Goto, LaunchPCs
  <2>2. tool[t] # "resume"
    BY <2>1 DEF PlacesInv, Launches
  <2>3. /\ \A u \in Tasks \ {t} : pc'[u] = pc[u] /\ out'[u] = out[u]
        /\ pc'[t] \notin {"cache", "send", "await", "revert"}
        /\ generation' \in {generation, generation + 1}
    BY <1>1, <1>3 DEF Launch, Configure, Connect, ConnectFails, Reset,
       DrainOutput, ClearBackend, StoreBackend, SpawnPump, HandshakeReturns,
       HandshakeOutcome, HandshakeFails, RecordProgram, SetLaunchState,
       SetLastStopped, Goto
  <2>. QED
    BY <1>1, <2>1, <2>2, <2>3
<1>4. ASSUME NEW t \in Tasks,
             \/ StartLaunch(t) \/ StartResume(t)
             \/ StartPause(t) \/ StartDisconnect(t)
      PROVE  ExitInv'
  <2>1. PICK allowed, next :
          /\ Guard(t, allowed, next)
          /\ \/ next = "configure" /\ allowed = {"idle"} /\ tool[t] \in Launches
             \/ next = "fetch"
    BY <1>4 DEF StartLaunch, StartResume, StartPause, StartDisconnect
  <2>2. /\ pc[t] = "start"
        /\ pc' = [pc EXCEPT ![t] = IF state \in allowed THEN next ELSE "done"]
        /\ UNCHANGED <<sessionVars, tool, backend, gen, conn, out, connVars>>
    BY <2>1 DEF Guard
  <2>3. tool[t] = "resume" => out[t] = "none"
    BY <1>2, <2>2 DEF ResumeInv
  <2>. QED
    BY <1>1, <2>1, <2>2, <2>3 DEF Owned, LaunchPCs
<1>5. ASSUME NEW t \in Tasks, Resume(t) \/ ResumeAnswered(t), ~StartResume(t)
      PROVE  ExitInv'
  <2>1. pc[t] \in ResumePCs /\ UNCHANGED tool
    BY <1>5 DEF Resume, Snapshot, SetRunning, RegisterStop, SendResume,
       ResumeAnswered, ResumeClosed, StopReturned, Revert, ApplyOutcome,
       SetLastStopped, DrainOutput, Goto, ResumePCs
  <2>2. /\ tool[t] = "resume"
        /\ \A u \in Tasks \ {t} :
             pc[u] \in {"start", "done", "fetch", "pauseSend"}
    BY <2>1, OthersAtRest DEF PlacesInv, ResumePCs, InFlight, SerialInv
  <2>3. pc[t] \notin {"drainOut"} => conn[t] = backend /\ backend # None
    BY <1>2, <2>1 DEF ResumeInv
  <2>4. CASE Snapshot(t) \/ SetRunning(t) \/ SendResume(t) \/ ResumeClosed(t)
    BY <2>4, <1>1, <1>2, <2>1, <2>2
       DEF Snapshot, SetRunning, SendResume, ResumeClosed, Goto, Owned,
           LaunchPCs, ResumeInv
  <2>5. CASE RegisterStop(t) \/ ResumeAnswered(t) \/ StopReturned(t) \/ Revert(t)
    BY <2>5, <1>1, <1>2, <2>1, <2>2
       DEF RegisterStop, ResumeAnswered, StopReturned, Revert, Goto, Owned,
           LaunchPCs, ResumeInv, SlotInv
  <2>6. CASE ApplyOutcome(t)
    BY <2>6, <1>1, <1>2, <2>1, <2>2, <2>3
       DEF ApplyOutcome, SetStateIfGeneration, TerminateIfGeneration, Goto,
           Owned, LaunchPCs, SessionInv
  <2>7. CASE \/ SetLastStopped(t, "cache", "drainOut")
             \/ DrainOutput(t, "drainOut", "done")
    BY <2>7, <1>1, <2>1, <2>2
       DEF SetLastStopped, DrainOutput, Goto, Owned, LaunchPCs
  <2>. QED
    BY <1>5, <2>4, <2>5, <2>6, <2>7 DEF Resume
<1>6. ASSUME NEW t \in Tasks,
             \/ FetchBackend(t) \/ SendPause(t)
             \/ ClearBackend(t, "take", "reset") \/ ResetSession(t)
             \/ DisconnectKills(t) \/ DisconnectTimesOut(t) \/ Cancel(t)
      PROVE  ExitInv'
  <2>1. CASE FetchBackend(t)
    <3>1. pc[t] = "fetch" /\ tool[t] \in {"resume", "pause", "disconnect"}
      BY <2>1 DEF FetchBackend, Goto, PlacesInv
    <3>2. /\ pc'[t] \in {"take", "done", "snapshot", "pauseSend", "disconnecting"}
          /\ tool[t] = "resume" => out[t] = "none"
      BY <1>1, <1>2, <2>1, <3>1 DEF FetchBackend, Goto, ResumeInv
    <3>. QED
      BY <1>1, <2>1, <3>1, <3>2 DEF FetchBackend, Goto, Owned, LaunchPCs
  <2>2. CASE SendPause(t)
    <3>1. /\ pc[t] = "pauseSend" /\ pc' = [pc EXCEPT ![t] = "done"]
          /\ tool[t] = "pause"
          /\ UNCHANGED <<sessionVars, tool, backend, gen, conn, out, pumpGen>>
      BY <2>2 DEF SendPause, Goto, PlacesInv
    <3>. QED
      BY <1>1, <3>1 DEF Owned, LaunchPCs
  <2>3. CASE ClearBackend(t, "take", "reset") \/ DisconnectTimesOut(t)
    BY <1>1, <2>3 DEF ClearBackend, DisconnectTimesOut, Goto, Owned, LaunchPCs
  <2>4. CASE ResetSession(t)
    <3>1. tool[t] # "resume"
      BY <2>4 DEF ResetSession, Reset, DrainOutput, Goto, PlacesInv,
           ResetPCs, Launches
    <3>. QED
      BY <1>1, <2>4, <3>1 DEF ResetSession, Reset, DrainOutput, Goto,
           Owned, LaunchPCs
  <2>5. CASE DisconnectKills(t)
    <3>1. pc[t] = "disconnecting" /\ tool[t] = "disconnect"
      BY <2>5 DEF DisconnectKills, Goto, PlacesInv
    <3>. QED
      BY <1>1, <2>5, <3>1 DEF DisconnectKills, Die, Deliver, Goto,
           Owned, LaunchPCs
  <2>6. CASE Cancel(t)
    BY <1>1, <2>6 DEF Cancel, Goto, Owned, LaunchPCs
  <2>. QED
    BY <1>6, <2>1, <2>2, <2>3, <2>4, <2>5, <2>6
<1>7. ASSUME NEW k \in Conns,
             \/ PumpTerminated(k) \/ PumpOutput(k)
             \/ DebuggeeStops(k) \/ DebuggeeExits(k) \/ AdapterDies(k)
      PROVE  ExitInv'
  <2>1. CASE PumpTerminated(k) \/ PumpOutput(k)
    BY <1>1, <2>1 DEF PumpTerminated, TerminateIfGeneration,
       SetStateIfGeneration, PumpOutput, Owned
  <2>2. CASE DebuggeeStops(k)
    BY <1>1, <2>2 DEF DebuggeeStops, Deliver, Owned
  <2>3. CASE DebuggeeExits(k)
    BY <1>1, <1>2, <2>3 DEF DebuggeeExits, Deliver, Owned, SlotInv,
       ResumeInv, Halted, ResumePCs, PlacesInv
  <2>4. CASE AdapterDies(k)
    BY <1>1, <2>4 DEF AdapterDies, Die, Deliver, Owned
  <2>. QED
    BY <1>7, <2>1, <2>2, <2>3, <2>4
<1>8. CASE UNCHANGED vars
  BY <1>8 DEF vars, Owned
<1>. QED
  BY <1>3, <1>4, <1>5, <1>6, <1>7, <1>8, NextCases
     DEF Launch, Resume, Disconnect

\* When calls are made one at a time, an exit a resume reported stays visible
\* to status until the session is reset (terminate_if_generation), whatever is
\* resumed, paused or received after it.
THEOREM ExitStaysReported ==
  ASSUME Serial
  PROVE  Spec => []ExitCodeReported
<1>1. Init => ExitInv
  BY DEF Init, ExitInv, Reported
<1>2. IInv /\ RealInv /\ ExitInv /\ [Next]_vars => ExitInv'
  BY ExitStep DEF IInv
<1>3. ExitInv => ExitCodeReported
  BY DEF ExitInv, Reported, ExitCodeReported
<1>. QED
  BY <1>1, <1>2, <1>3, InvInductive, RealInductive, PTL DEF Spec
----------------------------------------------------------------------------
(* The session as it is promised *)

LEMMA LaunchKeepsOwner ==
  ASSUME TypeOK, PlacesInv, GenInv, SerialInv, RealInv, OwnerInv, Serial,
         NEW t \in Tasks, Launch(t), ~StartLaunch(t)
  PROVE  OwnerInv'
<1>1. pc[t] \in LaunchPCs /\ UNCHANGED tool
  BY DEF Launch, Configure, Connect, ConnectFails, Reset, DrainOutput,
       ClearBackend, StoreBackend, SpawnPump, HandshakeReturns,
       HandshakeOutcome, HandshakeFails, RecordProgram, SetLaunchState,
       SetLastStopped, Goto, LaunchPCs
<1>2. \A u \in Tasks \ {t} : pc[u] \in {"start", "done"}
  BY <1>1, OthersAtRest DEF PlacesInv, LaunchPCs, Launches, InFlight, SerialInv
<1>3. \A u \in Tasks \ {t} : pc'[u] = pc[u]
  BY DEF TypeOK, Launch, Configure, Connect, ConnectFails, Reset, DrainOutput,
       ClearBackend, StoreBackend, SpawnPump, HandshakeReturns,
       HandshakeOutcome, HandshakeFails, RecordProgram, SetLaunchState,
       SetLastStopped, Goto
<1>4. /\ pc \in [Tasks -> PCs] /\ out \in [Tasks -> Outcomes]
      /\ conn \in [Tasks -> Conns \cup {None}]
      /\ alive \in [Conns -> {"unused", "up", "dead"}]
      /\ debuggee \in [Conns -> {"none", "stopped", "running", "gone"}]
      /\ pumpGen \in [Conns -> Nat \cup {None}]
      /\ generation \in Nat /\ backend \in Conns \cup {None}
  BY DEF TypeOK
<1>5. LaunchInv(t) /\ ConnInv /\ SessionInv
  BY DEF RealInv
<1> USE DEF Launches, sessionVars, connVars, taskVars, OwnerInv, Owned, Halted,
            Goto, LaunchInv
<1>6. CASE Configure(t) \/ ConnectFails(t) \/ HandshakeFails(t) \/ RecordProgram(t)
  BY <1>6, <1>1, <1>2, <1>3, <1>4, <1>5
     DEF Configure, ConnectFails, HandshakeFails, RecordProgram
<1>7. CASE Connect(t) \/ StoreBackend(t)
  <2>1. CASE Connect(t)
    <3>1. PICK k \in Conns :
            /\ alive[k] = "unused" /\ alive' = [alive EXCEPT ![k] = "up"]
            /\ conn' = [conn EXCEPT ![t] = k]
      BY <2>1 DEF Connect
    <3>2. /\ pc[t] = "connect" /\ pc'[t] = "store"
          /\ UNCHANGED <<sessionVars, backend, debuggee, pumpGen>>
      BY <2>1, <1>4 DEF Connect
    <3>3. pumpGen[conn'[t]] = None
      BY <3>1, <1>4
    <3>. QED
      BY <3>1, <3>2, <3>3, <1>2, <1>3, <1>4
  <2>2. CASE StoreBackend(t)
    BY <2>2, <1>1, <1>2, <1>3, <1>4, <1>5 DEF StoreBackend
  <2>. QED
    BY <1>7, <2>1, <2>2
<1>8. CASE SpawnPump(t)
  BY <1>8, <1>1, <1>2, <1>3, <1>4, <1>5 DEF SpawnPump
<1>9. CASE HandshakeReturns(t)
  BY <1>9, <1>1, <1>2, <1>3, <1>4, <1>5 DEF HandshakeReturns, HandshakeOutcome
<1>10. CASE SetLaunchState(t)
  BY <1>10, <1>1, <1>2, <1>3, <1>4, <1>5 DEF SetLaunchState, PlacesInv
<1>11. CASE SetLastStopped(t, "setStopped", "done")
  BY <1>11, <1>1, <1>2, <1>3, <1>4, <1>5 DEF SetLastStopped
<1>12. CASE Reset(t, "failReset", "failDrain")
  BY <1>12, <1>1, <1>2, <1>3, <1>4, <1>5 DEF Reset, GenInv, SerialInv, EmptySlotPCs
<1>13. CASE \/ DrainOutput(t, "failDrain", "failClear")
            \/ ClearBackend(t, "failClear", "done")
            \/ ClearBackend(t, "clear", "reset")
  BY <1>13, <1>1, <1>2, <1>3, <1>4, <1>5 DEF DrainOutput, ClearBackend
<1>. QED
  BY <1>6, <1>7, <1>8, <1>9, <1>10, <1>11, <1>12, <1>13 DEF Launch

LEMMA ResumeKeepsOwner ==
  ASSUME TypeOK, PlacesInv, GenInv, SerialInv, RealInv, OwnerInv, Serial,
         NEW t \in Tasks, Resume(t) \/ ResumeAnswered(t), ~StartResume(t)
  PROVE  OwnerInv'
<1>1. pc[t] \in ResumePCs /\ UNCHANGED tool
  BY DEF Resume, Snapshot, SetRunning, RegisterStop, SendResume,
       ResumeAnswered, ResumeClosed, StopReturned, Revert, ApplyOutcome,
       SetLastStopped, DrainOutput, Goto, ResumePCs
<1>2. \A u \in Tasks \ {t} : pc[u] \in {"start", "done", "fetch", "pauseSend"}
  BY <1>1, OthersAtRest DEF PlacesInv, ResumePCs, InFlight, SerialInv, OneAtATime
<1>3. \A u \in Tasks \ {t} : pc'[u] = pc[u]
  BY DEF TypeOK, Resume, Snapshot, SetRunning, RegisterStop, SendResume,
       ResumeAnswered, ResumeClosed, StopReturned, Revert, ApplyOutcome,
       SetLastStopped, DrainOutput, Goto
<1>4. /\ pc \in [Tasks -> PCs] /\ out \in [Tasks -> Outcomes]
      /\ conn \in [Tasks -> Conns \cup {None}]
      /\ alive \in [Conns -> {"unused", "up", "dead"}]
      /\ debuggee \in [Conns -> {"none", "stopped", "running", "gone"}]
      /\ pumpGen \in [Conns -> Nat \cup {None}]
      /\ generation \in Nat /\ backend \in Conns \cup {None}
  BY DEF TypeOK
<1>5. ResumeInv(t)
  BY DEF RealInv
<1>6. /\ pc'[t] \in ResumePCs \cup {"done"}
      /\ UNCHANGED <<pumpGen, generation, backend, alive>>
      /\ pc'[t] = "cache" => pc[t] = "apply" /\ out[t] = "stopped" /\ gen[t] = generation
      /\ state' # state => pc[t] # "drainOut"
  BY <1>4 DEF Resume, Snapshot, SetRunning, RegisterStop, SendResume,
       ResumeAnswered, ResumeClosed, StopReturned, Revert, ApplyOutcome,
       SetLastStopped, DrainOutput, Goto, ResumePCs, sessionVars, connVars
<1>7. pc[t] # "drainOut" => backend # None /\ Owned(backend)
  BY <1>1, <1>2, <1>5 DEF ResumeInv, ResumePCs, OwnerInv
<1>8. state' \in {"stopped", "running", "terminated"} => \E k \in Conns : Owned(k)
  BY <1>4, <1>6, <1>7 DEF OwnerInv
<1>9. pc'[t] = "cache" => state' \in {"stopped", "terminated"} /\ (Halted(backend))'
  BY <1>1, <1>4, <1>5, <1>6
     DEF Resume, Snapshot, SetRunning, RegisterStop, SendResume,
       ResumeAnswered, ResumeClosed, StopReturned, Revert, ApplyOutcome,
       SetStateIfGeneration, SetLastStopped, DrainOutput, Goto, ResumePCs,
       ResumeInv, Halted, connVars
<1>. QED
  BY <1>1, <1>2, <1>3, <1>4, <1>6, <1>7, <1>8, <1>9 DEF OwnerInv, Owned, ResumePCs

LEMMA GuardKeepsOwner ==
  ASSUME TypeOK, OwnerInv, Serial, NEW t \in Tasks,
         \/ StartLaunch(t) \/ StartResume(t)
         \/ StartPause(t) \/ StartDisconnect(t)
  PROVE  OwnerInv'
<1>1. PICK allowed, next :
        /\ Guard(t, allowed, next)
        /\ next = "fetch" \/ (next = "configure" /\ allowed = {"idle"})
  BY DEF StartLaunch, StartResume, StartPause, StartDisconnect
<1>2. /\ pc' = [pc EXCEPT ![t] = IF state \in allowed THEN next ELSE "done"]
      /\ pc \in [Tasks -> PCs] /\ pc[t] = "start"
      /\ UNCHANGED <<sessionVars, tool, backend, gen, conn, out, connVars>>
  BY <1>1 DEF Guard, TypeOK
<1>. QED
  BY <1>1, <1>2 DEF OwnerInv, Owned, Halted, sessionVars, connVars

LEMMA CallKeepsOwner ==
  ASSUME TypeOK, PlacesInv, GenInv, SerialInv, RealInv, OwnerInv, Serial,
         NEW t \in Tasks,
         \/ FetchBackend(t) \/ SendPause(t) \/ ClearBackend(t, "take", "reset")
         \/ ResetSession(t) \/ DisconnectKills(t) \/ DisconnectTimesOut(t)
         \/ Cancel(t)
  PROVE  OwnerInv'
<1>1. /\ pc \in [Tasks -> PCs]
      /\ conn \in [Tasks -> Conns \cup {None}]
      /\ alive \in [Conns -> {"unused", "up", "dead"}]
      /\ debuggee \in [Conns -> {"none", "stopped", "running", "gone"}]
      /\ pumpGen \in [Conns -> Nat \cup {None}]
      /\ generation \in Nat /\ backend \in Conns \cup {None}
  BY DEF TypeOK
<1> USE DEF sessionVars, connVars, taskVars, OwnerInv, Owned, Halted, Goto
<1>2. CASE FetchBackend(t)
  <2>1. /\ pc[t] = "fetch" /\ UNCHANGED <<sessionVars, backend, connVars>>
        /\ \A u \in Tasks \ {t} : pc'[u] = pc[u] /\ conn'[u] = conn[u]
        /\ pc'[t] \in {"take", "done", "snapshot", "pauseSend", "disconnecting"}
    BY <1>1, <1>2 DEF FetchBackend, PlacesInv
  <2>. QED
    BY <1>1, <2>1
<1>3. CASE SendPause(t)
  BY <1>1, <1>3 DEF SendPause
<1>4. CASE DisconnectTimesOut(t)
  BY <1>1, <1>4 DEF DisconnectTimesOut
<1>5. CASE Cancel(t)
  BY <1>1, <1>5 DEF Cancel
<1>6. CASE ClearBackend(t, "take", "reset") \/ ResetSession(t) \/ DisconnectKills(t)
  <2>1. pc[t] \in {"take", "reset", "drain", "disconnecting"} /\ UNCHANGED tool
    BY <1>6 DEF ResetSession, ClearBackend, Reset, DrainOutput, DisconnectKills
  <2>2. \A u \in Tasks \ {t} : pc[u] \in {"start", "done"}
    BY <2>1, OthersAtRest DEF PlacesInv, ResetPCs, Launches, InFlight, SerialInv
  <2>3. CASE ClearBackend(t, "take", "reset")
    BY <1>1, <2>2, <2>3 DEF ClearBackend
  <2>4. CASE ResetSession(t)
    BY <1>1, <2>1, <2>2, <2>4 DEF ResetSession, Reset, DrainOutput, GenInv,
         SerialInv, EmptySlotPCs
  <2>5. CASE DisconnectKills(t)
    BY <1>1, <2>1, <2>2, <2>5 DEF DisconnectKills, Die
  <2>. QED
    BY <1>6, <2>3, <2>4, <2>5
<1>. QED
  BY <1>2, <1>3, <1>4, <1>5, <1>6

LEMMA EventKeepsOwner ==
  ASSUME TypeOK, RealInv, OwnerInv, Serial, NEW k \in Conns,
         \/ PumpTerminated(k) \/ PumpOutput(k)
         \/ DebuggeeStops(k) \/ DebuggeeExits(k) \/ AdapterDies(k)
  PROVE  OwnerInv'
<1>1. /\ conn \in [Tasks -> Conns \cup {None}]
      /\ alive \in [Conns -> {"unused", "up", "dead"}]
      /\ debuggee \in [Conns -> {"none", "stopped", "running", "gone"}]
      /\ pumpGen \in [Conns -> Nat \cup {None}]
      /\ generation \in Nat /\ backend \in Conns \cup {None}
  BY DEF TypeOK
<1>2. /\ UNCHANGED <<pc, conn, backend, pumpGen, generation>>
      /\ \A j \in Conns : alive'[j] = "unused" => alive[j] = "unused"
  BY <1>1 DEF PumpTerminated, PumpOutput, DebuggeeStops, DebuggeeExits, AdapterDies,
       Die, taskVars, sessionVars, connVars
<1>3. /\ state' = state \/ (state' = "terminated" /\ Owned(k))
      /\ state' = state \/ UNCHANGED <<alive, debuggee>>
  BY <1>1 DEF PumpTerminated, TerminateIfGeneration, SetStateIfGeneration, PumpOutput,
       DebuggeeStops, DebuggeeExits, AdapterDies, sessionVars, connVars, Owned
<1>4. backend # None /\ Halted(backend) => (Halted(backend))'
  BY <1>1, <1>2 DEF PumpTerminated, PumpOutput, DebuggeeStops, DebuggeeExits, AdapterDies,
       Die, Halted, connVars
<1>5. \A t \in Tasks : pc[t] = "configure" => ~Owned(k)
  BY DEF RealInv, LaunchInv
<1>6. \A t \in Tasks : pc[t] \in {"setStopped", "cache"} => backend # None
  BY DEF RealInv, LaunchInv, ResumeInv, ResumePCs, TypeOK, ToolServerAssumption
<1>. QED
  BY <1>1, <1>2, <1>3, <1>4, <1>5, <1>6 DEF OwnerInv, Owned

LEMMA OwnerInductive == Spec => []OwnerInv
<1>1. Init => OwnerInv
  BY DEF Init, OwnerInv, Owned
<1>2. ASSUME IInv, RealInv, OwnerInv, [Next]_vars
      PROVE  OwnerInv'
  <2> SUFFICES ASSUME Serial
               PROVE  OwnerInv'
    BY DEF OwnerInv, Serial
  <2>1. TypeOK /\ PlacesInv /\ GenInv /\ SerialInv
    BY <1>2 DEF IInv
  <2>2. CASE UNCHANGED vars
    BY <1>2, <2>2 DEF vars, sessionVars, connVars, taskVars, OwnerInv, Owned, Halted
  <2>. QED
    BY <1>2, <2>1, <2>2, NextCases, GuardKeepsOwner, LaunchKeepsOwner,
       ResumeKeepsOwner, CallKeepsOwner, EventKeepsOwner
       DEF Launch, Resume, Disconnect
<1>. QED
  BY <1>1, <1>2, InvInductive, RealInductive, PTL DEF Spec

----------------------------------------------------------------------------
(* Every step of the tool server is one of the promised session, or none. *)

LEMMA OwnerIs ==
  ASSUME OwnerInv, Serial, NEW k \in Conns, Owned(k)
  PROVE  Owner = k
BY DEF OwnerInv, Owner

LEMMA OwnerStays ==
  ASSUME UNCHANGED <<pumpGen, generation>>
  PROVE  Owner' = Owner /\ Past' = Past
BY DEF Owner, Past, Owned

\* What a step says of the state and holds of it, for a connection the session
\* has.
LEMMA LiveStep ==
  ASSUME OwnerInv, Serial, NEW k \in Conns, Owned(k), state # "idle",
         UNCHANGED <<pumpGen, generation, alive, debuggee>>,
         \/ /\ state' = "running" /\ UNCHANGED <<program, exitCode, lastStopped>>
         \/ /\ state' = "stopped" /\ UNCHANGED <<program, exitCode, lastStopped>>
            /\ debuggee[k] \in {"stopped", "gone"} \/ alive[k] = "dead"
         \/ /\ state' = "terminated" /\ exitCode' \in {exitCode, k}
            /\ UNCHANGED <<program, lastStopped>>
            /\ debuggee[k] = "gone"
         \/ /\ program' = k /\ UNCHANGED <<state, exitCode, lastStopped>>
         \/ /\ lastStopped' = k /\ UNCHANGED <<state, program, exitCode>>
            /\ state \in {"stopped", "terminated"}
            /\ debuggee[k] \in {"stopped", "gone"} \/ alive[k] = "dead"
  PROVE  Promised!Next
<1>1. Owner = k /\ Owner # None
  BY OwnerIs
<1>2. Owner' = Owner /\ Past' = Past /\ Fate' = Fate
  BY OwnerStays DEF Fate
<1>3. Fate[k] = IF alive[k] = "dead" THEN "gone" ELSE debuggee[k]
  BY DEF Fate
<1>. QED
  BY <1>1, <1>2, <1>3
     DEF Promised!Next, Promised!Run, Promised!Stop, Promised!Terminate,
         Promised!NoteProgram, Promised!NoteStop, Promised!Live, Promised!held

\* A step of the adapter or its debuggee.
LEMMA FateStep ==
  ASSUME TypeOK, NEW k \in Conns,
         UNCHANGED <<sessionVars, pumpGen>>,
         alive' = alive \/ (alive[k] # "dead" /\ alive' = [alive EXCEPT ![k] = "dead"]),
         debuggee' = debuggee
           \/ \E s \in {"stopped", "running", "gone"} :
                /\ debuggee' = [debuggee EXCEPT ![k] = s]
                /\ debuggee[k] # "gone" \/ s = "gone"
  PROVE  Promised!Next \/ UNCHANGED Promised!vars
<1>1. Owner' = Owner /\ Past' = Past
  BY OwnerStays DEF sessionVars
<1>2. /\ alive \in [Conns -> {"unused", "up", "dead"}]
      /\ debuggee \in [Conns -> {"none", "stopped", "running", "gone"}]
  BY DEF TypeOK
<1>3. Fate' = Fate \/ (Fate[k] # "gone" /\ \E s \in {"stopped", "running", "gone"} :
                         Fate' = [Fate EXCEPT ![k] = s])
  <2>1. \A j \in Conns : j # k => Fate'[j] = Fate[j]
    BY <1>2 DEF Fate
  <2>2. Fate[k] = "gone" => Fate'[k] = "gone"
    BY <1>2 DEF Fate
  <2>3. Fate'[k] = Fate[k] \/ Fate'[k] \in {"stopped", "running", "gone"}
    BY <1>2 DEF Fate
  <2>4. Fate = [j \in Conns |-> Fate[j]] /\ Fate' = [j \in Conns |-> Fate'[j]]
    BY DEF Fate
  <2>5. CASE Fate'[k] = Fate[k]
    BY <2>1, <2>4, <2>5
  <2>6. CASE Fate'[k] # Fate[k]
    BY <2>1, <2>2, <2>3, <2>4, <2>6
  <2>. QED
    BY <2>5, <2>6
<1>. QED
  BY <1>1, <1>3
     DEF Promised!Next, Promised!Change, Promised!held, Promised!vars, sessionVars

\* A step that touches neither the session nor an adapter.
LEMMA QuietStep ==
  ASSUME UNCHANGED <<sessionVars, pumpGen, debuggee>>, Fate' = Fate
  PROVE  UNCHANGED Promised!vars
BY OwnerStays DEF Promised!vars, Promised!held, sessionVars

\* The reset forgets the session and its connection at once.
LEMMA ResetStep ==
  ASSUME TypeOK, GenInv, OwnerInv, Serial, NEW t, NEW from, NEW to, Reset(t, from, to)
  PROVE  Promised!Next
<1>1. /\ state' = "idle" /\ program' = None /\ exitCode' = None /\ lastStopped' = None
      /\ generation' = generation + 1
      /\ UNCHANGED <<pumpGen, alive, debuggee>>
  BY DEF Reset, connVars
<1>2. generation \in Nat /\ pumpGen \in [Conns -> Nat \cup {None}]
  BY DEF TypeOK
<1>3. \A k \in Conns : pumpGen[k] # None => pumpGen[k] \in Nat /\ pumpGen[k] <= generation
  BY <1>2 DEF GenInv
<1>4. \A k \in Conns : pumpGen[k] # None => pumpGen[k] # generation + 1
  BY <1>2, <1>3
<1>5. Owner' = None
  BY <1>1, <1>4 DEF Owner, Owned
<1>6. Past' = {k \in Conns : pumpGen[k] # None}
  BY <1>1, <1>4 DEF Past
<1>7. Past \cup ({Owner} \ {None}) = {k \in Conns : pumpGen[k] # None}
  <2>1. CASE \E k \in Conns : Owned(k)
    <3>1. PICK k \in Conns : Owned(k)
      BY <2>1
    <3>2. Owner = k /\ k # None
      BY <3>1, OwnerIs
    <3>3. \A j \in Conns : Owned(j) => j = k
      BY <3>1 DEF OwnerInv
    <3>. QED
      BY <3>1, <3>2, <3>3 DEF Past, Owned
  <2>2. CASE ~\E k \in Conns : Owned(k)
    BY <2>2 DEF Past, Owned, Owner
  <2>. QED
    BY <2>1, <2>2
<1>8. Fate' = Fate
  BY <1>1 DEF Fate
<1>. QED
  BY <1>1, <1>5, <1>6, <1>7, <1>8 DEF Promised!Next, Promised!Close

LEMMA LaunchRefines ==
  ASSUME TypeOK, PlacesInv, GenInv, SerialInv, RealInv, OwnerInv, Serial,
         NEW t \in Tasks, Launch(t), ~StartLaunch(t)
  PROVE  Promised!Next \/ UNCHANGED Promised!vars
<1>1. LaunchInv(t) /\ ConnInv /\ SessionInv
  BY DEF RealInv
<1>2. /\ conn \in [Tasks -> Conns \cup {None}]
      /\ alive \in [Conns -> {"unused", "up", "dead"}]
      /\ debuggee \in [Conns -> {"none", "stopped", "running", "gone"}]
      /\ pumpGen \in [Conns -> Nat \cup {None}] /\ generation \in Nat
      /\ pc \in [Tasks -> PCs] /\ out \in [Tasks -> Outcomes]
  BY DEF TypeOK
<1> USE DEF sessionVars, connVars, Goto
<1>3. CASE Configure(t)
  <2>1. state = "idle" /\ state' = "configuring"
        /\ UNCHANGED <<pumpGen, generation, program, exitCode, lastStopped, alive, debuggee>>
    BY <1>3 DEF Configure, OwnerInv
  <2>2. Owner' = Owner /\ Past' = Past /\ Fate' = Fate
    BY <2>1, OwnerStays DEF Fate
  <2>. QED
    BY <2>1, <2>2 DEF Promised!Next, Promised!Begin, Promised!held
<1>4. CASE \/ ConnectFails(t) \/ StoreBackend(t) \/ HandshakeFails(t)
           \/ DrainOutput(t, "failDrain", "failClear")
           \/ ClearBackend(t, "failClear", "done")
           \/ ClearBackend(t, "clear", "reset")
  <2>1. UNCHANGED <<sessionVars, pumpGen, debuggee, alive>>
    BY <1>4 DEF ConnectFails, StoreBackend, HandshakeFails, DrainOutput, ClearBackend
  <2>. QED
    BY <2>1, QuietStep DEF Fate
<1>5. CASE Connect(t)
  <2>1. /\ UNCHANGED <<sessionVars, pumpGen, debuggee>>
        /\ \A k \in Conns : (alive'[k] = "dead") <=> (alive[k] = "dead")
    BY <1>2, <1>5 DEF Connect
  <2>2. Fate' = Fate
    BY <2>1 DEF Fate
  <2>. QED
    BY <2>1, <2>2, QuietStep
<1>6. CASE SpawnPump(t)
  <2>1. /\ pc[t] = "pump" /\ conn[t] \in Conns /\ pumpGen[conn[t]] = None
        /\ state = "configuring" /\ \A k \in Conns : ~Owned(k)
        /\ pumpGen' = [pumpGen EXCEPT ![conn[t]] = generation]
        /\ UNCHANGED <<sessionVars, alive, debuggee>>
    BY <1>1, <1>6 DEF SpawnPump, LaunchInv, OwnerInv
  <2>2. Owner = None /\ conn[t] \notin Past
    BY <2>1 DEF Owner, Past
  <2>3. /\ \A k \in Conns : Owned(k)' <=> k = conn[t]
    BY <1>2, <2>1 DEF Owned
  <2>4. Owner' = conn[t]
    BY <2>1, <2>3 DEF Owner
  <2>5. Past' = Past
    BY <1>2, <2>1 DEF Past
  <2>6. Fate' = Fate
    BY <2>1 DEF Fate
  <2>. QED
    BY <2>1, <2>2, <2>4, <2>5, <2>6 DEF Promised!Next, Promised!Open, Promised!held
<1>7. CASE HandshakeReturns(t)
  <2>1. /\ pc[t] = "handshake" /\ conn[t] \in Conns
        /\ UNCHANGED <<sessionVars, pumpGen, alive>>
        /\ \E s \in {"stopped", "running", "gone"} :
             /\ debuggee' = [debuggee EXCEPT ![conn[t]] = s]
             /\ alive[conn[t]] = "up" \/ s = "gone"
    BY <1>1, <1>7 DEF HandshakeReturns, HandshakeOutcome, LaunchInv
  <2>2. alive[conn[t]] = "up" => debuggee[conn[t]] # "gone"
    BY <1>1, <2>1 DEF LaunchInv
  <2>. QED
    BY <2>1, <2>2, FateStep
<1>8. CASE RecordProgram(t) \/ SetLaunchState(t) \/ SetLastStopped(t, "setStopped", "done")
  <2>1. pc[t] \in {"record", "setState", "setStopped"}
    BY <1>8 DEF RecordProgram, SetLaunchState, SetLastStopped
  <2>2. /\ conn[t] \in Conns /\ Owned(conn[t]) /\ conn[t] = backend
        /\ state # "idle"
    BY <1>1, <2>1 DEF LaunchInv, OwnerInv, SessionInv
  <2>3. UNCHANGED <<pumpGen, generation, alive, debuggee>>
    BY <1>8 DEF RecordProgram, SetLaunchState, SetLastStopped
  <2>4. CASE RecordProgram(t)
    <3>1. program' = conn[t] /\ UNCHANGED <<state, exitCode, lastStopped>>
      BY <2>4 DEF RecordProgram
    <3>. QED
      BY <2>2, <2>3, <3>1, LiveStep
  <2>5. CASE SetLaunchState(t)
    <3>1. /\ pc[t] = "setState" /\ out[t] \in {"stopped", "running", "exited"}
          /\ UNCHANGED <<program, exitCode, lastStopped>>
      BY <2>5 DEF SetLaunchState, PlacesInv
    <3>2. CASE out[t] = "stopped"
      <4>1. state' = "stopped" /\ Halted(conn[t])
        BY <1>1, <2>5, <3>1, <3>2 DEF SetLaunchState, LaunchInv
      <4>. QED
        BY <2>2, <2>3, <3>1, <4>1, LiveStep DEF Halted
    <3>3. CASE out[t] = "running"
      <4>1. state' = "running"
        BY <2>5, <3>1, <3>3 DEF SetLaunchState
      <4>. QED
        BY <2>2, <2>3, <3>1, <4>1, LiveStep
    <3>4. CASE out[t] = "exited"
      <4>1. state' = "terminated" /\ debuggee[conn[t]] = "gone"
        BY <1>1, <2>5, <3>1, <3>4 DEF SetLaunchState, LaunchInv
      <4>. QED
        BY <2>2, <2>3, <3>1, <4>1, LiveStep
    <3>. QED
      BY <3>1, <3>2, <3>3, <3>4
  <2>6. CASE SetLastStopped(t, "setStopped", "done")
    <3>1. /\ pc[t] = "setStopped" /\ lastStopped' = conn[t]
          /\ UNCHANGED <<state, program, exitCode>>
      BY <2>6 DEF SetLastStopped
    <3>2. state \in {"stopped", "terminated"} /\ Halted(conn[t])
      BY <2>2, <3>1 DEF OwnerInv
    <3>. QED
      BY <2>2, <2>3, <3>1, <3>2, LiveStep DEF Halted
  <2>. QED
    BY <1>8, <2>4, <2>5, <2>6
<1>9. CASE Reset(t, "failReset", "failDrain")
  BY <1>9, ResetStep
<1>. QED
  BY <1>3, <1>4, <1>5, <1>6, <1>7, <1>8, <1>9 DEF Launch

LEMMA ResumeRefines ==
  ASSUME TypeOK, PlacesInv, GenInv, SerialInv, RealInv, OwnerInv, Serial,
         NEW t \in Tasks, Resume(t) \/ ResumeAnswered(t), ~StartResume(t)
  PROVE  Promised!Next \/ UNCHANGED Promised!vars
<1>1. pc[t] \in ResumePCs
  BY DEF Resume, Snapshot, SetRunning, RegisterStop, SendResume,
       ResumeAnswered, ResumeClosed, StopReturned, Revert, ApplyOutcome,
       SetLastStopped, DrainOutput, Goto, ResumePCs
<1>2. \A u \in Tasks \ {t} : pc[u] \in {"start", "done", "fetch", "pauseSend"}
  BY <1>1, OthersAtRest DEF PlacesInv, ResumePCs, InFlight, SerialInv, OneAtATime
<1>3. ResumeInv(t) /\ tool[t] = "resume"
  BY <1>1 DEF RealInv, PlacesInv
<1>4. pc[t] # "drainOut" => /\ conn[t] = backend /\ backend \in Conns /\ Owned(backend)
                            /\ state # "idle"
  BY <1>1, <1>2, <1>3 DEF ResumeInv, ResumePCs, OwnerInv, SerialInv, TypeOK
<1>5. /\ alive \in [Conns -> {"unused", "up", "dead"}]
      /\ debuggee \in [Conns -> {"none", "stopped", "running", "gone"}]
  BY DEF TypeOK
<1> USE DEF sessionVars, connVars, Goto
<1>6. CASE \/ Snapshot(t) \/ RegisterStop(t) \/ SendResume(t) \/ ResumeClosed(t)
           \/ StopReturned(t) \/ DrainOutput(t, "drainOut", "done")
  <2>1. UNCHANGED <<sessionVars, pumpGen, debuggee, alive>>
    BY <1>6 DEF Snapshot, RegisterStop, SendResume, ResumeClosed, StopReturned, DrainOutput
  <2>. QED
    BY <2>1, QuietStep DEF Fate
<1>7. CASE ResumeAnswered(t)
  <2>1. /\ pc[t] = "await" /\ UNCHANGED <<sessionVars, pumpGen, alive>>
        /\ \/ debuggee' = debuggee
           \/ debuggee' = [debuggee EXCEPT ![conn[t]] = IF @ = "stopped" THEN "running" ELSE @]
    BY <1>7 DEF ResumeAnswered
  <2>2. conn[t] \in Conns
    BY <1>4, <2>1
  <2>3. \/ debuggee' = debuggee
        \/ /\ debuggee[conn[t]] = "stopped"
           /\ debuggee' = [debuggee EXCEPT ![conn[t]] = "running"]
    BY <1>5, <2>1, <2>2
  <2>. QED
    BY <2>1, <2>2, <2>3, FateStep
<1>8. CASE SetRunning(t)
  <2>1. /\ pc[t] = "setRunning" /\ state' = "running"
        /\ UNCHANGED <<generation, program, exitCode, lastStopped, pumpGen, alive, debuggee>>
    BY <1>8 DEF SetRunning
  <2>. QED
    BY <1>4, <2>1, LiveStep
<1>9. CASE Revert(t)
  <2>1. /\ pc[t] = "revert" /\ state' = "stopped"
        /\ UNCHANGED <<generation, program, exitCode, lastStopped, pumpGen, alive, debuggee>>
    BY <1>9 DEF Revert
  <2>2. Halted(backend)
    BY <1>3, <2>1 DEF ResumeInv
  <2>. QED
    BY <1>4, <2>1, <2>2, LiveStep DEF Halted
<1>10. CASE ApplyOutcome(t)
  <2>1. /\ pc[t] = "apply" /\ out[t] \in {"stopped", "exited", "terminated"}
        /\ UNCHANGED <<generation, program, lastStopped, pumpGen, alive, debuggee>>
    BY <1>10 DEF ApplyOutcome
  <2>2. CASE gen[t] # generation
    <3>1. UNCHANGED <<state, exitCode>>
      BY <1>10, <2>2 DEF ApplyOutcome, SetStateIfGeneration, TerminateIfGeneration
    <3>. QED
      BY <2>1, <3>1, QuietStep DEF Fate
  <2>3. CASE gen[t] = generation /\ out[t] = "stopped"
    <3>1. state' = "stopped" /\ exitCode' = exitCode
      BY <1>10, <2>3 DEF ApplyOutcome, SetStateIfGeneration
    <3>2. Halted(backend)
      BY <1>3, <1>4, <2>1, <2>3 DEF ResumeInv
    <3>. QED
      BY <1>4, <2>1, <3>1, <3>2, LiveStep DEF Halted
  <2>4. CASE gen[t] = generation /\ out[t] \in {"exited", "terminated"}
    <3>1. state' = "terminated" /\ exitCode' \in {exitCode, backend}
      BY <1>4, <1>10, <2>1, <2>4
         DEF ApplyOutcome, SetStateIfGeneration, TerminateIfGeneration
    <3>2. debuggee[backend] = "gone"
      BY <1>3, <1>4, <2>1, <2>4 DEF ResumeInv
    <3>. QED
      BY <1>4, <2>1, <3>1, <3>2, LiveStep
  <2>. QED
    BY <2>1, <2>2, <2>3, <2>4
<1>11. CASE SetLastStopped(t, "cache", "drainOut")
  <2>1. /\ pc[t] = "cache" /\ lastStopped' = conn[t]
        /\ UNCHANGED <<generation, state, program, exitCode, pumpGen, alive, debuggee>>
    BY <1>11 DEF SetLastStopped
  <2>2. state \in {"stopped", "terminated"} /\ Halted(backend)
    BY <2>1 DEF OwnerInv
  <2>. QED
    BY <1>4, <2>1, <2>2, LiveStep DEF Halted
<1>. QED
  BY <1>6, <1>7, <1>8, <1>9, <1>10, <1>11 DEF Resume

LEMMA OtherRefines ==
  ASSUME TypeOK, PlacesInv, GenInv, SerialInv, RealInv, OwnerInv, Serial,
         NEW t \in Tasks,
         \/ FetchBackend(t) \/ SendPause(t) \/ ClearBackend(t, "take", "reset")
         \/ ResetSession(t) \/ DisconnectKills(t) \/ DisconnectTimesOut(t) \/ Cancel(t)
         \/ StartLaunch(t) \/ StartResume(t) \/ StartPause(t) \/ StartDisconnect(t)
  PROVE  Promised!Next \/ UNCHANGED Promised!vars
<1>1. CASE DisconnectKills(t)
  <2>1. /\ UNCHANGED <<sessionVars, pumpGen>>
        /\ alive' = [alive EXCEPT ![conn[t]] = "dead"]
        /\ debuggee' = [debuggee EXCEPT ![conn[t]] = "gone"]
    BY <1>1 DEF DisconnectKills, Die
  <2>2. /\ alive \in [Conns -> {"unused", "up", "dead"}]
        /\ debuggee \in [Conns -> {"none", "stopped", "running", "gone"}]
    BY DEF TypeOK
  <2>3. CASE conn[t] \in Conns
    <3>1. alive[conn[t]] = "dead" => alive' = alive
      BY <2>1, <2>2, <2>3
    <3>. QED
      BY <2>1, <2>3, <3>1, FateStep
  <2>4. CASE conn[t] \notin Conns
    <3>1. alive' = alive /\ debuggee' = debuggee
      BY <2>1, <2>2, <2>4
    <3>. QED
      BY <2>1, <3>1, QuietStep DEF Fate
  <2>. QED
    BY <2>3, <2>4
<1>2. CASE ResetSession(t)
  <2>1. CASE Reset(t, "reset", "drain")
    BY <2>1, ResetStep
  <2>2. CASE DrainOutput(t, "drain", "done")
    <3>1. UNCHANGED <<sessionVars, pumpGen, debuggee, alive>>
      BY <2>2 DEF DrainOutput, connVars
    <3>. QED
      BY <3>1, QuietStep DEF Fate
  <2>. QED
    BY <1>2, <2>1, <2>2 DEF ResetSession
<1>3. CASE ~DisconnectKills(t) /\ ~ResetSession(t)
  <2>1. UNCHANGED <<sessionVars, pumpGen, debuggee, alive>>
    BY <1>3 DEF FetchBackend, SendPause, ClearBackend, DisconnectTimesOut, Cancel,
         StartLaunch, StartResume, StartPause, StartDisconnect, Guard, connVars
  <2>. QED
    BY <2>1, QuietStep DEF Fate
<1>. QED
  BY <1>1, <1>2, <1>3

LEMMA EventRefines ==
  ASSUME TypeOK, RealInv, OwnerInv, Serial, NEW k \in Conns,
         \/ PumpTerminated(k) \/ PumpOutput(k)
         \/ DebuggeeStops(k) \/ DebuggeeExits(k) \/ AdapterDies(k)
  PROVE  Promised!Next \/ UNCHANGED Promised!vars
<1>1. CASE PumpTerminated(k)
  <2>1. /\ pumpGen[k] # None /\ term[k] # "none"
        /\ UNCHANGED <<generation, program, lastStopped, pumpGen, alive, debuggee>>
    BY <1>1 DEF PumpTerminated
  <2>2. CASE Owned(k)
    <3>1. state' = "terminated" /\ exitCode' \in {exitCode, k}
      BY <1>1, <2>2 DEF PumpTerminated, TerminateIfGeneration, SetStateIfGeneration, Owned
    <3>2. state # "idle" /\ debuggee[k] = "gone"
      BY <2>1, <2>2 DEF RealInv, SessionInv, ConnInv
    <3>. QED
      BY <2>1, <2>2, <3>1, <3>2, LiveStep
  <2>3. CASE ~Owned(k)
    <3>1. UNCHANGED <<state, exitCode>>
      BY <1>1, <2>1, <2>3
         DEF PumpTerminated, TerminateIfGeneration, SetStateIfGeneration, Owned
    <3>. QED
      BY <2>1, <3>1, QuietStep DEF Fate, sessionVars
  <2>. QED
    BY <2>2, <2>3
<1>2. CASE PumpOutput(k)
  <2>1. UNCHANGED <<sessionVars, pumpGen, debuggee, alive>>
    BY <1>2 DEF PumpOutput, connVars
  <2>. QED
    BY <2>1, QuietStep DEF Fate
<1>3. CASE DebuggeeStops(k) \/ DebuggeeExits(k) \/ AdapterDies(k)
  <2>1. /\ UNCHANGED <<sessionVars, pumpGen>>
        /\ alive' = alive \/ (alive[k] # "dead" /\ alive' = [alive EXCEPT ![k] = "dead"])
        /\ \E s \in {"stopped", "running", "gone"} :
             /\ debuggee' = [debuggee EXCEPT ![k] = s]
             /\ debuggee[k] # "gone" \/ s = "gone"
    BY <1>3 DEF DebuggeeStops, DebuggeeExits, AdapterDies, Die
  <2>. QED
    BY <2>1, FateStep
<1>. QED
  BY <1>1, <1>2, <1>3

\* A client that makes one call at a time sees the session it was promised:
\* one connection from its launch to the reset, everything the session holds is
\* of that connection, "stopped" and "terminated" are true of its debuggee, and
\* what the reset has forgotten stays forgotten (reset, set_state_if_generation,
\* terminate_if_generation, spawn_event_pump).
THEOREM SessionIsImplemented ==
  ASSUME Serial
  PROVE  Spec => ImplementsSession
<1>1. Init => Promised!Init
  <2> SUFFICES ASSUME Init PROVE Promised!Init
    OBVIOUS
  <2>1. /\ state = "idle" /\ program = None /\ exitCode = None /\ lastStopped = None
        /\ \A k \in Conns : pumpGen[k] = None /\ alive[k] # "dead" /\ debuggee[k] = "none"
    BY DEF Init
  <2>2. Owner = None /\ Past = {}
    BY <2>1 DEF Owner, Past, Owned
  <2>3. Fate = [k \in Conns |-> "none"]
    BY <2>1 DEF Fate
  <2>. QED
    BY <2>1, <2>2, <2>3 DEF Promised!Init
<1>2. ASSUME IInv, RealInv, OwnerInv, [Next]_vars
      PROVE  [Promised!Next]_(Promised!vars)
  <2>1. TypeOK /\ PlacesInv /\ GenInv /\ SerialInv
    BY <1>2 DEF IInv
  <2>2. CASE UNCHANGED vars
    <3>1. UNCHANGED <<sessionVars, pumpGen, debuggee, alive>>
      BY <2>2 DEF vars, sessionVars, connVars
    <3>. QED
      BY <3>1, QuietStep DEF Fate
  <2>. QED
    BY <1>2, <2>1, <2>2, NextCases, LaunchRefines, ResumeRefines, OtherRefines, EventRefines
       DEF Launch, Resume, Disconnect
<1>. QED
  BY <1>1, <1>2, InvInductive, RealInductive, OwnerInductive, PTL
     DEF Spec, ImplementsSession, Promised!Spec
=============================================================================
