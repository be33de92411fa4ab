# lldb-debug-mcp: a verification development

`lldb-debug-mcp` is an MCP server that lets an agent drive a debugger. One
process serves `tools/call` requests on concurrent tokio tasks; a tool handler
changes one shared session and talks, through the `DebuggerBackend` trait, to
an `lldb-dap` subprocess over the Debug Adapter Protocol (DAP). The modules
here model that concurrency and its failures, and the conversions on which a
right answer depends, from the source under `src/crates`. TLC checks them on
small instances, and TLAPS proves the invariants and two refinements for every
instance that the modules' assumptions allow.

## 1. Inventory

| Component | State | Operations | Interacts with | What is hard | What makes it correct |
|---|---|---|---|---|---|
| `dap-client` client | seq counter, pending map, write mutex, initialized latch | `send`, `send_async`, `send_and_await_both`, `wait_initialized`, `AbortGuard` drop | backend above, read loop beside, adapter below | cancellation at any await, answers in any order, a write into a dead pipe | correlation, no leaked entry, everybody returns |
| `dap-client` stop waiter | one slot | `register`, `deliver`, `deliver_exit`, `cancel` | resume handlers, read loop | the stop races the reply to its request; a second waiter replaces the first | a resume never misses its own stop |
| `dap-client` read loop | sinks (exit code, terminated one-shot, output) | dispatch, `recover` | all waiters, event stream | EOF, malformed frames, recovery in several lock sections | death ends the session, nobody is stranded, the exit code is carried |
| `dap-client` wire | none | `read_message`, `write_message` | pipes | a frame cut in two by a dropped future or a dying process, headers of foreign form | exactly the sound frames are returned, and the end of the stream is named |
| `lldb-backend` | client, child process, stderr ring | `launch`, `attach`, `cont`, `step`, `pause`, `disconnect`, queries | client, adapter | handshake order, deferred responses, refusals, early death | configuration is gated, the entry stop is captured, the outcome is true |
| `lldb-backend` factory | none after `connect` | connect, merge the output channel and the terminated one-shot into one stream | handlers, pump | the end may overtake queued output | everything emitted is delivered, in order |
| `lldb-backend` subprocess | child, stderr ring | spawn, drain stderr, kill | factory, backend | child life time, reads of any size at the ring's capacity | no orphaned process, the ring holds the tail |
| `lldb-backend` detect, args | none | find the adapter binary; build launch and attach arguments | factory, handshakes | search order, an override that is missing | the newest capable adapter, spoken to in its mode |
| `mcp-session` manager | state, generation, program/pid, exit code, stop cache, frame map, breakpoint tables | setters, `reset`, generation-guarded writes | every handler and pump | check-then-act over several lock sections, late events of an earlier session | what the session says is true of the adapter it talks about |
| `mcp-session` pump | captured generation | append output, terminate | manager, event stream | runs after a disconnect | an end of an earlier session ends no later one |
| `mcp-session` output buffer | chunks, size, truncation flag | `append`, `drain` | pump, handlers | the cap boundary | bounded, nothing lost silently |
| `mcp-tools` lifecycle and execution | the backend slot | `launch`, `attach`, `disconnect`, `continue`, `step_*`, `pause` | manager, backend | overlap, cancellation, timeouts, crash | see manager; `disconnect` always returns |
| `mcp-tools` breakpoints | (manager's tables) | `set_breakpoint`, `set_function_breakpoint`, `remove_breakpoint`, `list_breakpoints` | manager, backend | whole-list replacement protocol, read before await and commit after | tracked = installed, a removed id is gone |
| `mcp-tools` inspection | (manager's frame map and stop cache) | `backtrace`, `threads`, `variables`, `evaluate`, `status` | manager, backend | a frame map kept across stops, traces that overlap, the variable cap inside a nested level | the frame shown is the one asked for, of the trace the agent has seen; the flattening is its reference |
| `mcp-tools` memory, commands, formatting | none | `read_memory`, `disassemble`, `run_command`, `read_output` | manager, backend | wrap-around of addresses, short rows | every byte shown once, at its own address |
| `mcp-tools` arguments, errors, schemas, responses | none | accessors of arguments, rewording of backend errors | every handler | floats cast to integers, errors found by text search | nothing invalid is forwarded, an error keeps its detail |

`PROJECT.json` lists every component with its sources and status, and under
`hazards` every place where this code is exposed, with the properties that
watch it.

## 2. Modules and their correspondence to the code

A step of a model is what one task does between two points where another task
can run: one lock section, one atomic operation, or one await. `PROJECT.json`
("map") names the lines of each definition. Definitions marked "Mutant of X"
are plausible wrong versions of `X`, used to show that the properties can fail.

**RequestService** is the abstract specification of the transport: a caller
makes one call, and gets its own answer, an error, or the end of the
connection; the connection ends once. It has no sequence numbers, map, wire or
recovery. **DapClient** implements it (`ImplementsService`, an INSTANCE with a
refinement mapping).

**DapClient** (`client.rs`, `stop_waiter.rs`, `read_loop.rs`, `wire.rs`,
`resume_and_wait`). Callers perform `send`, `resume` or `both`
(`send_and_await_both`). `pc[c]` is the await a caller is suspended at; the
pending map is the set of callers with an entry, keyed by `seqOf`. `Cancel`
drops a future at any await, runs the guard, releases the write mutex and may
leave a torn frame. The read loop's `recover` is four steps, with
`cancel_all_pending` split where its lock is released. `send_and_await_both`
has no caller in the workspace other than tests; it is part of the public
client and is modelled as such. `log`, the stops, exits and ends taken so far, is
history.

**Handshake** (`run_launch`, `run_attach`). A handshake is the list of its
awaits (`LaunchScript`, `AttachScript`) and a position. A reply is "checked" or
only awaited, as in the code. The adapter announces itself at any time after
`initialize`, answers launch/attach early or deferred, refuses anything, stops,
exits or ends the session after `configurationDone` (an end may follow an exit, or
come alone while the adapter lives on), dies at any time. The read loop makes
`StopOutcome::Terminated` of an end and of its own recovery; launch returns it
as exited, attach as terminated (`TakeStop`). A send is two steps here (write, reply) and EOF recovery is one: their inside is
DapClient's subject.

**ToolServer** (`lifecycle.rs`, `execution.rs`, `manager.rs`, `pump.rs`,
`server.rs`, `factory.rs`). A task is one tool call; `launch` is a launch with
`stop_on_entry`, `launch_running` one without, and `resume` stands for
`continue` and the three steps, which share one function. A connection is one
`connect()`: its process, its debuggee, its stop-waiter slot, its pump and its
terminated event. Session values are represented by the connection they belong
to, so "an exit code of an earlier session" is a visible thing. The terminated
event of a connection carries the exit code that the read loop had seen when it
fired, or none (`Fire`, `term`), whenever the pump gets to it. A resume may be
refused: `resume_and_wait` does not look at `success` and waits for a stop all
the same. `Overlaps` says which tools may overlap: for the serial run only a
`pause` with the `resume` it interrupts.

**Session** is the abstract specification of the tool server for a client that
makes one call at a time: a state, the connection it is about, those it was
about before, and whose program, exit code and stop it holds. It has no calls,
pumps, generations or backend slot. A connection is opened once, everything the
session takes on is the current one's, "stopped" and "terminated" are said only
of a debuggee that is, an exit code comes with "terminated", and a reset lets go
of everything in one step, for good. ToolServer implements it
(`ImplementsSession`): the current connection is the one whose pump is of the
session's generation (`Owner`), the past ones those whose pump is of another
(`Past`), and a debuggee whose adapter is dead counts as gone (`Fate`).

**Breakpoints** (`breakpoints.rs`, the breakpoint tables of `manager.rs`, the
flush of `run_launch`). Tracked lists, response table and pending lists against
what the adapter has installed. The adapter replaces a kind's whole list, keeps
the ids of what was there, and may bind a line to a later one. One source file
is modelled, as files do not interact; conditions are left out, as nothing
matches on them. It is assumed that the adapter returns one result per
requested breakpoint, so the "no breakpoints" early return is not taken. A
removal reads the response table, then the backend slot, then the tracked list
(`Peek`, `NoBackend`, `ProposeRemove`), and other calls may come between them.
A rejected list changes nothing at the adapter; a response that cannot be read
(`Malformed`) leaves the list installed although the tool reports an error. A
behaviour is that of a client that waits for each reply or of one that does
not (`overlap`, chosen at the start). An
attach is one step: it leaves every table alone.

**OutputBuffer** (`output_buffer.rs`). `append` with its loop spelled out, one
iteration a step under the mutex, and `drain`.

**EventPath** (`read_loop.rs` sinks, `factory.rs`, `pump.rs`, the reset and
`read_output`) composes the way of the output with OutputBuffer, which it
EXTENDS: read loop, unbounded channel and one-shot, the merged stream, a pump
per connection, and the handlers that drain. Each of its actions is one of the
buffer's or leaves the buffer alone, so what is proved of the buffer holds of
the path. A reset drains the buffer and drops the backend, and neither stops
nor awaits the pump, which appends without looking at the generation; `late` is the
history of the pumps that were still running when a reset drained. The comment at `factory.rs:74-79` says that Terminated ends the
stream; `stream::select` goes on until both of its streams have ended, and the
model follows the code. ToolServer has the same pump with the session's whole
state and without the buffer.

**AdapterIO** (`wire.rs`, `subprocess.rs`). The two pipes of the process. Its
stdout is a sequence of header lines and body bytes, written item by item by a
process that may end at any of them, inside a line too; `read_message` is a
step per line and one per body. A header may lack its length, be too long or
not be UTF-8, and the stream may end between frames, in a header or in a body:
each ends the reader in an error that names it (`Errors`: `UnexpectedEof` inside a
frame, `InvalidData` for what is not UTF-8, ...). Its stderr is drained in pieces of any size into the
ring. DapClient takes the messages of this reader as atomic.

**Detect** (`detect.rs`) and **Arguments** (`args.rs` of `mcp-tools` and of
`lldb-backend`, and the checks handlers make themselves) are pure operators.
What the file system and `xcrun` answer is an input. Numbers are given in
halves, so that a fraction below one, the truncation toward zero and the
saturation of `as i64` show: `levels` and `instruction_count` of 0.5 pass their
`> 0` and are sent as 0 (`AboveZeroOr`). Every number is read with
`value_as_f64` first: `Doubles` are the numbers that an f64 can be, and one that
is not becomes the nearest, ties going to the even one (`AsF64`). So an integer
above 2^53 may be forwarded as its neighbour, and `i64::MAX` becomes 2^63, which
the cast brings back (`ForwardedIsValid` says what is forwarded: the rounded
number, truncated and saturated, not always the number itself).

**OneShot** composes the two with the tools that are one request and its
answer: `read_memory`, `disassemble`, `run_command`, `read_output`, and the
argument side of `launch`, `attach`, `continue`, `set_breakpoint` and
`backtrace`. A call goes through "idle" or "call", "connect", "sent", "done".
Connecting is detection and spawn, each of which may fail with its own error;
`child` is the process with its path and whether it was given
`--repl-mode=command`, which `run_command`'s wording has to fit
(`CommandFitsTheAdapter`). A reply is the adapter's data, a refusal, a closed
connection, a body that does not decode (where the body is decoded: not for
`continue`, `launch` and `attach`), or a response to another command, which only
the flush of a launch looks for; `handshake_error` takes the text before its
first colon for the operation, so this one ends as "unexpected response response
type: ...". Texts are sequences of words, enough for `render_dap`'s search. The
outcome is what the tool returns.

**Inspection** (`inspection.rs`, `frame.rs`, the frame map and stop cache of
`manager.rs`, `body::stack_trace`). Each call is its guard, the backend slot,
the lookup in the frame map, the await of a trace, the replacement of the map
and the second lookup. An entry of the map carries the thread and the
connection it came from, which the code's `(index, id)` pairs do not; the
properties read them, no action does. lldb-dap's frame ids are taken to be a
function of thread and index, as `frame.rs:6-7` says. Launching, resuming,
stopping and disconnecting are cut down to their effect on the shared state;
`variables` and `evaluate` are one kind of call, as they differ only after the
frame is known. An exited debuggee adds nothing here (every tool refuses), so
it is left to ToolServer.

**Flatten** (`flatten.rs`). The two functions are one walk over a stack of
activations, suspended at each fetch. A variable's name is its position in its
level and a dotted name the sequence of positions, so that a wrong prefix or
order shows. `Reference` is what it should show, without stack, cap or
suspension: the names that a way through the references leads to, and
`Before` the order to show them in.

The `MC` modules give TLC symmetry sets, choices of calls and the values a
configuration cannot hold.

## 3. Runs

Passing runs:

| Run | Shows |
|---|---|
| `DapClient_safety` | `ResponseMatchesRequest`, `NoOrphanedEntry`, `ResumeNeverMissesItsStop`, `NoLostWakeup`, `NoStrandedSend`, `ExitCodeCarried` and the refinement `ImplementsService`, with two callers of every kind, every cancellation, answers in any order, two events, malformed frames, a death |
| `DapClient_liveness` | `EverySendReturns`, `DeathEndsSession` |
| `Handshake_dual_await` | `EntryStopCaptured`, `OutcomeIsTrue`, `LeavesAtMostTheTarget` (only the entry of the cancelled launch or attach stays behind), `HandshakeReturns` (after `initialized` no launch hangs), for both handshakes with refusals, exits, ends, deaths, cancellation |
| `ToolServer_serial` | `IdleIsClean`, `StoppedIsReal`, `TerminatedIsReal`, `ExitCodeReported` and the refinement `ImplementsSession` over four calls in a row, one or two launches among them, and two connections, a `pause` overlapping the resume it interrupts |
| `ToolServer_concurrent` | `LoneDisconnectCleans`, `DisconnectReturns`, `DeathReleasesResume` over any three different tools that overlap in any way, on one connection |
| `EventPath_delivery` | `EveryChunkOnce`, `NoSilentLoss`, `NothingLostOnTheWay`, `EndedMeansDelivered`, and `OnlyLatePumpsLeak` (once a reset has returned, the only output of an earlier session is of pumps that were running when it drained), with two connections whose read loops and pumps overlap |
| `Breakpoints_tracking` | `TrackedIsInstalled`, `ListedIsInstalled` for clients that make one call at a time, `ListedIdIsItsOwn` (a listed id was given out for what its own call asked for, or for a breakpoint moved to that line) when calls, launches and disconnects overlap too; both kinds, moved lines, rejection, unreadable responses, flush and reset |
| `Flatten_walk` | `MatchesReference`, `FetchesOnlyWhatIsShown` for every small tree, depth, cap, filter and failing fetch |
| `Inspection_frames` | `ShowsTheIndexAsked` (the map is one trace and exact in its indices) however calls overlap; `AnswersAreTrue` (the frame shown belongs to the last trace, "out of range" is said only of an index that is, the marked thread is the stopped one), `NoFrameOutlivesItsSession` for clients that make one call at a time |
| `AdapterIO_pipes` | `ReadsWhatWasWritten`, `RingKeepsTheTail` for every pair of frames and every byte at which the process may end |
| `OneShot_calls` | `PrefersTheNewest`, `CommandFitsTheAdapter`, `ForwardedIsValid`, `AnswerShowsTheReply` for every environment of the search and every kind of argument and reply |

`Handshake_early_death` (`DeathUnblocksHandshake`) ends in a violation:
`read_loop.rs` and FR-17.7 promise that a death releases whoever waits, but
`recover` does not release `wait_initialized`, and a launch whose adapter dies
before `initialized` hangs. `PROJECT.json` ("findings") quotes the statement.

On `ListedIdIsItsOwn`: a set call picks, from the response for the whole list, the
first result on the line it asked for and else the last one
(`breakpoints.rs:78-88`). When the adapter has moved another
breakpoint to that very line, its result is the one picked, and the two share
the entry; the property says so, and `Breakpoints_moved_removal` shows what
comes of it. The guarded writes of an outcome or an end that comes late are
what `TerminatedIsReal` and `ImplementsSession` are about; under overlap the cache
write after the guarded one is not protected, which `ResetStopCache` shows.

Each state machine has a type invariant `TypeOK` (EventPath's is part of
`PathInv` in its proofs), which is proved (section 4) and holds under the
configurations of the runs; these spend their time on the properties above.

Further statements that the code does not keep. The properties are in the
modules and each has a configuration, so that a fix can be checked; these
configurations are not among the runs of `PROJECT.json`. Where one lists several
properties, TLC stops at the first it finds violated: leave the one of interest
in the file, or use `-continue`.

| Configuration, property | The statement, and the behaviour TLC finds |
|---|---|
| `DapClient_statements`, `EveryBlockedRequestUnblocks` | FR-17.7 says that after any read error "every blocked request unblocks with an error". After a malformed frame the loop has gone and the adapter has not: a request registered after the drain is written and never answered |
| `DapClient_statements`, `DroppedMeansTornDown` | `backend.rs:401` takes a dropped stop sender for "The connection tore down". Two overlapping resumes: the second registration drops the first one's sender |
| `DapClient_statements`, `CancelKeepsFraming` | `debugger-core/src/backend.rs:29-31` calls a dropped future cancel-safe. Dropped between header and body, it leaves a truncated frame and the next request is read as its body |
| `Handshake_attach_stop`, `AttachReturns` | FR-5: attach always behaves as stop-on-entry: "register the stop waiter, block". The waiter is registered only after the attach response; a stop delivered before that is dropped and attach hangs on a live adapter |
| `Handshake_cancel`, `CancelLeavesNothing` | The RustPort design says an `AbortGuard` removes a dropped request. The handshakes use `send_async`, which arms none |
| `ToolServer_double_launch`, `OneLaunchAtATime` | "Guard: `idle` only". Guard and write are two lock sections: two launches pass |
| `ToolServer_teardown`, `TerminatedIsFinal` | `lifecycle.rs:75-76`: a Terminated event during the handshake "reaches the session (not dropped)". The handler's last `set_state` overwrites it |
| `ToolServer_teardown`, `DroppedBackendIsKilled` | `lifecycle.rs:318`: "The backend's drop kills the subprocess." It is spawned with `kill_on_drop(false)` |
| `ToolServer_teardown`, `DisconnectKilledChild` | `lifecycle.rs:302-303`: the child "was already killed". The 5 s timeout drops the future before its kill |
| `ToolServer_teardown`, `OutputIsCleared` | The reset clears the output buffer. The pump appends queued output after it |
| `ToolServer_disconnect_race`, `DisconnectStaysIdle` | `execution.rs:9-12`: a continue returning after a disconnect "cannot clobber the reset idle state". The `running` and the revert-to-`stopped` writes of `resume` are not generation-guarded |
| `ToolServer_disconnect_race`, `ResetStopCache` | `execution.rs:9-12`: no stale stop metadata leaks. A reset between the guarded state write and `set_last_stopped` leaves it |
| `ToolServer_disconnect_race`, `CrashTerminatesSession` | FR-17.7: a crash moves the session to `terminated`. The failed resume then writes `stopped` |
| `ToolServer_unseen_stop`, `StopIsReflected` | `README.md:57`: `running --> stopped : StoppedEvent`. A stop without a waiter is dropped |
| `ToolServer_pause_recovery`, `PauseRecovers` | `execution.rs:8-9`: a cancelled continue leaves the state "`running` (Go parity — recover with `pause`)". The stop that the pause causes finds no waiter: the session stays `running` |
| `ToolServer_refused_resume`, `RefusalIsReported` | `debugger-core/src/error.rs:32` names the error for "a `success=false` response", and `errors.rs:86-90` words it for `continue`. `backend.rs:395` does not look at `success`: a refused resume waits for a stop that nothing causes |
| `ToolServer_hung_disconnect`, `DisconnectReleasesResume` | "Then cancel the stop waiter." Nothing does when the adapter hangs |
| `Breakpoints_single_key`, `RemovedIsGone` | A line set twice is tracked twice; removing its id leaves it installed |
| `Breakpoints_single_key`, `FlushedIsListed` | "Record each resulting breakpoint". The results of the flush are discarded |
| `Breakpoints_moved_removal`, `RemovedIsGone` | `schema.rs:150`: "Remove a breakpoint by ID". A breakpoint bound to a later line is reported removed and is still installed, as the tracked line is compared with the bound one |
| `Breakpoints_overlap`, `ConfirmedIsInstalled` | `breakpoints.rs:59-62` calls the update transactional. Two overlapping sets propose the old list plus their own: the adapter keeps one, both are tracked |
| `Breakpoints_overlap`, `PendingIsFlushed` | "Breakpoint will be set when program is launched". The entry is added after the launch has flushed |
| `Breakpoints_overlap`, `IdleTracksNothing` | The reset clears "all breakpoint tracking". A call confirmed before it commits after it |
| `Inspection_thread_switch`, `ShowsTheStoppedThread` | The inspection skill (`SKILL.md:46`) gives `frame_index` as "default 0, the innermost". The map is kept across stops: after a stop in another thread, index 0 is still the earlier thread's frame until a backtrace replaces the map |
| `OneShot_error_detail`, `ErrorKeepsItsDetail` | `errors.rs:65-68`: rewording "preserving the inner detail". `render_dap` searches the whole message for the backend's wording: a detail that contains it loses what stands before |

### Bounds

- Two callers (DapClient): every race of the module is between two callers, or
  a caller and the read loop. The proofs of section 4 lift correlation,
  cancel-safety and recovery to any number. `MaxEvents` 2: an exit followed by
  a terminated event needs two. The liveness run has one.
- Three or four tool calls (ToolServer): four are launch, disconnect, launch and
  one more, over the two connections that a stale event needs. The serial run
  calls launch once or twice, as there are two connections, and no other tool
  more than twice. The concurrent
  run has one connection, so of two overlapping launches one connects and the
  other fails to: with two its liveness is beyond TLC here. That a lone
  disconnect also cleans up after two launches that both connected is what
  `LoneDisconnectIsClean` proves, for any number of connections.
- Two keys per kind and four calls, two of them at a time (Breakpoints): a
  launch, a duplicate or a moved line onto another key, and a removal fit. `MaxCalls` bounds behaviours.
- `MaxFiles` 2 (Handshake): zero, one and several files to flush.
- A cap of two bytes and chunks of one and three bytes (EventPath): sums below,
  at and above the cap and a chunk that exceeds it alone; the eviction loop
  compares only sums with the cap. Two connections and three
  chunks: a late chunk of the first beside one of the second, and one more.
  The proofs lift it to any cap and any number of connections and chunks.
- Two frames, bodies of 0 to 3 bytes with a `MaxLength` of 2, a ring of 2 and 5
  bytes of stderr (AdapterIO): a frame after a sound one and after a refused
  one, a body at and above the maximum, pieces below, at and above the ring.
- Versions 15 and 16 for 15 to 20, a `MaxInt` of 7 and an f64 of two binary
  digits, with a negative number, fractions, a whole number that no f64 is, and the
  largest i64, which is rounded beyond itself, the environments of the search
  that differ in an answer it could ask for, rows of 2 bytes, 4 addresses
  and reads of up to 5 bytes (OneShot): a full and a short row, and a
  wrap-around inside and between rows. `MaxEntries` 2: an output read returns at
  most two entries, so that two of one category meet.
- Three references with at most two variables each, the last one possibly
  containing itself, depths 0 to 2, caps 1, 3, 4 and one never reached, filters that match
  all, some or no names (Flatten): the cap falls on a leaf, on a parent, inside
  a nested level and on the last entry.
- Two threads, three calls, two stops (Inspection), with an implicit trace of
  2 levels in place of 20, backtraces of 1 and 3 levels and stacks of 1 and 3
  frames and the indices 0, the default, to 2: an index is in the map, beyond the
  implicit trace, or beyond the stack. At most one stop is being recorded at a time.

`CHECK_DEADLOCK FALSE` is set throughout: every behaviour has finitely many
calls and the system may rest when they are over. Waiting that must end is
stated as liveness.

### Fairness

In EventPath a pump that waits for the buffer's mutex gets it in one of the
moments it is free (strong fairness); a drain may get it first. The lock is a
`std::sync::Mutex`, which has no queue: what justifies this is that it is held
for the few instructions of an append or a drain, never across an await, and
that calls are finitely many, so that no handler takes it over and over.

Weak fairness of a task's own steps and of the read loop and the pump: tokio
polls every woken task, and the locks are held for bounded sections. Timers
fire, so `disconnect` gets past its 5 s bound. A live adapter parses and
answers what it is sent, announces itself, and carries out a pause; it is not
assumed to answer a disconnect in the runs with `MayHang`. Nothing obliges a
client to call, an adapter to die, or a debuggee to stop or exit by itself,
except the entry stop it was asked for. An adapter that received garbage dies
(`DapClient`): an assumption on the adapter, which nothing in this code
guarantees, and without which `EverySendReturns` fails after a torn frame.

## 4. Proofs

Every invariant and every action property that a run checks is also a theorem,
for every value of the constants that the module's assumption allows; the two
refinements, of RequestService and of Session, are, too. What the runs alone show is liveness (below).

A property is seldom inductive by itself. Each paragraph says what the
inductive invariant adds and why it is needed; those that TLC can evaluate were
checked on the configuration of the component's run before they were proved.
What a recursive definition or a loop computes is not proved by induction over
data, which the provers cannot instantiate, but from the least position at
which it would go wrong (`FirstExists`, `LeastExists`).

**DapClientProofs**, for any set of callers, any `Ops`, any `MaxEvents`:
`TypeCorrect`, `ResponsesCorrelate`, `PendingNeverOrphaned`,
`RecoveryStrandsNobody`, `WakeupsAreNotLost`, `ServiceImplemented`
(`Spec => ImplementsService`), `ResumesSeeTheirStop`, `ExitCodeIsCarried`.
- Correlation needs that assigned sequence numbers are distinct and bounded by
  the counter, and that every response in the pipe carries its requester's
  number. Recovery needs to know who can still be waiting at each stage of
  `recover` and that an EOF, read or unread, means the adapter is down: the
  guarantee is about a loop that ended at an EOF, as after a malformed frame
  the adapter still takes requests.
- The wakeups need that only resumes own the stop slot and that there is one
  dual-await, and follow the slot and the latch through every step. A resume
  does not miss its stop because a stop names its cause only if that request
  was parsed, so a resume that has not sent anything yet is not its cause
  (`CauseKnown`, with the refinement's `AnswersGiven`).
- The refinement maps each caller's await to a stage of RequestService, the
  parsed requests to `served`, and a dead adapter or a rejected frame to
  `ended`; its invariant adds to type correctness and correlation that only
  parsed requests are answered, on the wire and in the channels, and that the
  recovery runs, and closes a channel, only at the end of the connection. Every
  action is one abstract step or a stutter (`CallerRefines`, `ReaderRefines`,
  `AdapterRefines`).
- For the exit code (`ExitInv`): what is recorded is the last exit taken so
  far, and the terminated signal is armed until the message that ends the
  session is taken, or, after a read error, until `recover` fires it. The
  assumption that "armed" is no exit code only keeps two values of the model
  apart.

**HandshakeProofs**, for any number of files and any choice of what the
adapter refuses: `TypeCorrect`, `EntryStopIsCaptured`, `ReportsWhatHappened`,
`LeavesOnlyTheTarget`. The scripts differ in length with the files, so the
lemmas first say what is true of the shape of every one of them: the stop is
registered before `configurationDone`, and the response to launch or attach is
awaited once. Over that go five parts, each on the ones before: the pending
map holds the request being sent and the deferred launch or attach (`SendInv`);
answers on the wire and in the channels are what the adapter did (`ReplyInv`);
a stop, exit or end on the wire has happened, and none before a
`configurationDone` was parsed (`StopInv`); the outcome follows from them (`OutcomeInv`); and while an entry
stop is wanted a waiter is registered whenever the stop can arrive
(`CaptureInv`). The last one is stated for launch only: attach registers late,
which is the violation `Handshake_attach_stop` shows.

**BreakpointsProofs**, for any tasks, lines and names and any number of calls:
`TypeCorrect`, `ListedIsIssued` whatever overlaps, `TrackedMatchesAdapter` and
`ListedMatchesAdapter` for a client that makes one call at a time. What a
handler holds between its lock sections is typed (`ArgsInv`), and what it is
about to record was given out by the adapter for what its call had asked for,
or, for a line, for a breakpoint moved to it (`IssuedInv`): the list a call
sends ends in what it asks for, every result is issued with the entry it answers
(`asked`), and of the response it is the last or the first on the line that is
picked. That is all the first needs. For a serial client (`SerialInv`): one call is under
way, and only where the state allows it; outside a live session nothing is
recorded, and the tracked lists are what a launch has flushed; a removal is of
a recorded breakpoint; the list in flight is the tracked one with the call's
change; and tables and adapter differ by exactly the change about to be
committed. For the ids this is stated, like `ListedIsInstalled` itself, where
no line has moved.
Keys are assumed to be 1..n, finitely many: the order in which the adapter
binds lines.

**EventPathProofs**. Of OutputBuffer, for any cap, chunk sizes and number of
chunks: `TypeCorrect`, `CapHolds`, `ChunksOnce`, `LossAnnounced`,
`EvictionJustified`. The inductive invariant says that the buffered chunks are
consecutive, that each starts where its predecessor ends, and that the size
counter is the distance from the start of the oldest to the end of what was
appended, also in the middle of the eviction loop. Of EventPath, for any number
of connections and chunks: `OutputArrivesInOrder`, `OnlyLatePumpsEverLeak` and,
from the theorems of the buffer, `PathKeepsTheBuffersPromises`. For the second
(`LateInv`): every chunk that was appended has an origin on record, and a running
pump is of the session's generation or among the late ones, unless a reset is
between its new generation and its drain. For the first the
invariant is that a queue holds consecutive chunks from the one after the last
that arrived to the last that was emitted, each of a size the buffer accepts.

**AdapterIOProofs**, for any frames, ring sizes and sizes of writes and reads:
- `TheTailIsKept`. The ring is a run of consecutive byte numbers ending at the
  last drained one; the lemmas say that runs are determined by their ends,
  that one run after another is a run, and that the tail of a run is one.
- `WhatIsReadWasWritten`. `StreamInv` gives every frame its place in the
  stream: the pipe holds, from the reader's position on, the items of the
  frames that were written, in order, and at most one item that was cut
  (`Layout`); what the process has not written is the end of the last frame
  (`Unwritten`); the reader is at an item of the frame after the last one
  returned, and its `content_length` is what the lines of this header read so
  far say (`Position`). A first version allowed a length to be known before the
  first line of a frame and was not inductive: a process that ends after
  beginning a frame, and before any of its bytes, leaves a stream that ends
  between frames, which must be reported as that (`firstLine =>
  contentLength = None`).
- `TypeCorrect`, from both.

**OneShotProofs**, for every environment, range of versions, integer argument,
integer width, memory content and error text:
- `WhatIsForwardedIsValid`: a request on the wire is what the tool's own check
  passed, and nothing is on the wire before it. The lemmas are the arithmetic
  of the truncating, saturating cast and of the rounding before it, for every
  non-empty set of doubles.
- `TheBestAdapterIsFound`, `CommandsFitTheAdapter`: the list of names that the
  search goes through takes the versions from the newest to the oldest
  (`RanksAreTaken`: an order on a finite set, counted by how many are newer),
  and the search takes the first that is there. `SearchInv` adds that the
  adapter a call uses is the one found and that a command was worded for it.
- `AnswersShowTheReply`: each answer from the operator that makes it. A dump's
  rows cover the bytes once, in order, each at its address (division by the row
  length); the loop that joins output entries keeps their order and loses none
  (`PushesExist`, `PushedInOrder`: that the recursive function exists, and what
  it returns); `render_dap` leaves a text without the backend's wording
  alone. `AnswerInv` adds that no reply is there before the end and that the
  request is one of the tool that was called.
- `TypeCorrect`, from `SearchInv`, `AnswerInv` and the order of the places that a
  call goes through (`PlacesInv`).

**ToolServerProofs**, for any number of calls, any overlaps the client allows
and any number of connections: `TypeCorrect`, `LoneDisconnectIsClean`;
and, when only a pause overlaps the resume it interrupts
(`Serial`), `IdleStaysClean`, `StoppedStaysReal`, `TerminatedStaysReal`,
`ExitStaysReported`, `SessionIsImplemented`. Four inductive invariants, each on
those before:
- `IInv`: each tool keeps to its own places; no pump is of a generation yet to
  come; while a lone disconnect is the last call nobody else is at work, and
  once it has reset the session every pump is of an earlier generation. For a
  serial client: two calls in flight are a resume and a pause, the backend slot
  is empty around a reset, and the session is not idle where something of a
  connection is written.
- `RealInv` (serial): the only pump of the current generation is the backend's,
  and an idle session has none, which is what a reset's new generation is for;
  the debuggee is stopped until the adapter has answered a resume; a task in
  the stop waiter holds the connection it waits on, and what it is delivered is
  true of it; a launch's connection is new until its handshake returns.
- `ExitInv` (serial): after a resume has reported an exit in its own generation
  no other connection and no launch is there to replace the code.
- `OwnerInv` (serial): at most one connection is of the session's generation; it
  is the one a launch, a resume or the backend slot holds where they write, and
  there is one whenever the session is past configuring. With it each
  step is one of Session's or a stutter (`LaunchRefines`, `ResumeRefines`,
  `EventRefines`, `OtherRefines`): a pump's start opens the connection, the
  reset's new generation closes it, and every write between the two is found
  to be by, and about, the current one. The assumption that `None` is no
  number says that an absent generation is none.

**InspectionProofs**. Of Inspection, for any threads, stacks, arguments,
numbers of tasks, calls, stops and sessions: `TypeCorrect`, `IndexIsStable`
whatever calls overlap; and for a client that waits for its replies
`AnswersStayTrue` and `FramesEndWithSession`. Every mapping is one trace, with
frame ids equal to indices (`MapInv`). For a waiting client the session stays
stopped, with its stop cached, while a call is in flight (`SessionInv`), and the
map is the last trace of this session, except while a newer trace is about to
be stored (`TraceInv`).

Of Flatten, for any structure (cyclic, and of any width), depth, cap and
filter: `WalkTypeCorrect`, `TheListingIsShown`, `OnlyTheShownIsFetched`. The
reference is declarative: an entry is a dotted name with a way to it through
the references, and the listing's order is a strict total order on names
(`BeforeIrreflexive`, `BeforeTotal`). The stack determines a cursor, the first
name the walk has not come to, and the invariant is that what is shown is
exactly what comes before the cursor (`ShownInv`): each action moves the cursor
down (`CursorDown`), on (`CursorOn`) or up (`CursorUp`), past no entry but the
one emitted. It needs that every activation is of the level that the ones below
it lead to (`StackInv`), since a cyclic structure has the same level at many
names. A fetch is for the entry emitted last, so it was not fetched before:
that would have come before itself.

Only model-checked: liveness, for which fairness and ENABLED are out of the
prover's reach: `EverySendReturns`, `DeathEndsSession`, `HandshakeReturns`,
`DisconnectReturns`, `DeathReleasesResume`, `EndedMeansDelivered`; and the
violations of section 3, which are counterexamples and need no proof.

## 5. Not modelled

- The fields of JSON requests and bodies (`requests.rs`, `body.rs`) beyond
  those a decision depends on: renaming of record fields, without control. A body
  decodes or does not (AdapterIO, OneShot).
- `schema.rs`, a static table, and `response.rs`, which builds JSON objects.
- Wording, and the layout of a dump row; the match of scope names by substring.
- The `status` tool, which only formats the session's fields.
- The MCP transport (rmcp), external; and the test crates.

## 6. Plan

Done: DapClient with its refinement of RequestService; Handshake; ToolServer
with its refinement of Session; OutputBuffer and EventPath; Breakpoints;
Inspection; Flatten; AdapterIO; Detect, Arguments and OneShot; the proofs of
every safety property of their runs.

Left: the concurrent run of ToolServer with two connections, once its liveness
properties are checked apart from its invariant; an abstract breakpoint table
for Breakpoints' serial client, in the manner of Session.
