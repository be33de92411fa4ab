------------------------------ MODULE OneShot ------------------------------
(***************************************************************************)
(* One tool call, and the connection it uses, from the arguments to the    *)
(* answer: detection and spawn, read_memory, disassemble and run_command   *)
(* (mcp-tools/src/handlers), read_output's grouping, and the numeric       *)
(* arguments of the tools that ToolServer, Breakpoints and Inspection      *)
(* model without their data.  When a call needs a session it is stopped.   *)
(*                                                                         *)
(* A call ends in an outcome: an error of the tool boundary, the adapter's *)
(* error as the tool words it, or an answer made of the adapter's data.    *)
(***************************************************************************)
EXTENDS Detect, Arguments

CONSTANTS
  Envs,         \* the environments a search may meet
  Numbers,      \* the values, in halves, of number arguments
  Reads,        \* the memory contents an adapter may return: sequences
  Details,      \* the texts of adapter errors, sequences of words
  MaxEntries,   \* how many entries an output read returns at most
  RowBytes,     \* bytes per row of a hex dump; the code's are 16
  AddressSpace, \* the number of addresses; the code's is 2^64
  None

ASSUME OneShotAssumption ==
  /\ Envs \subseteq Environments
  /\ Numbers \subseteq Int
  /\ RowBytes \in Nat \ {0}
  /\ AddressSpace \in Nat \ {0}
  /\ Reads \subseteq Seq(Nat)
  /\ Details \subseteq Seq(STRING)
  /\ MaxEntries \in Nat

VARIABLES
  env,      \* the environment of the search
  adapter,  \* what find_lldb_dap returned; None before
  child,    \* the process that was spawned; None before
  call,     \* the tool, its number argument, and what else it sends
  pc,       \* "idle", "connect", "call", "sent" or "done"
  request,  \* the request on the wire
  reply,    \* what came back
  marked,   \* current_pc: the address of the top frame, None if not asked for
  outcome   \* what the tool returns

vars == <<env, adapter, child, call, pc, request, reply, marked, outcome>>

\* The session is idle and waits for a launch or an attach; or one made
\* before connects, for the call of another tool.
Init ==
  /\ env \in Envs
  /\ adapter = None
  /\ child = None
  /\ call = None
  /\ pc \in {"idle", "connect"}
  /\ request = None
  /\ reply = None
  /\ marked = None
  /\ outcome = None

Finish(result) == pc' = "done" /\ outcome' = result

ToolError(e) == [kind |-> "error", text |-> <<e>>]

\* spawn: --repl-mode=command is passed to an lldb-dap only.
Spawn(detected) == [path |-> detected.path, replMode |-> detected.isLldbDap]

\* factory.connect(): detect and spawn, either of which may fail.  launch and
\* attach connect when their arguments are in order.
Connect ==
  /\ pc = "connect"
  /\ adapter' = FindLldbDap(env)
  /\ \/ /\ IsDetected(adapter')
        /\ child' = Spawn(adapter')
        /\ pc' = IF request = None THEN "call" ELSE "sent"
        /\ UNCHANGED outcome
     \/ /\ IsDetected(adapter')
        /\ Finish(ToolError("failedToSpawn"))
        /\ UNCHANGED child
     \/ /\ ~IsDetected(adapter')
        /\ Finish(ToolError("failedToFind"))
        /\ UNCHANGED child
  /\ UNCHANGED <<env, call, request, reply, marked>>

\* What LldbBackend was told of its binary.
ReplMode == adapter.isLldbDap

----------------------------------------------------------------------------
(* The calls: arguments to request *)

NumberArgs == {Absent, Null, Text(7)} \cup {Number(n) : n \in Numbers}

\* An address argument: its prefix and its digits, in hexadecimal or not.
Address(prefix, digits) == [prefix |-> prefix, digits |-> digits]
NotHex == AddressSpace
AddressArgs ==
  [prefix : {"", "0x", "0X"}, digits : {0, AddressSpace - 1, NotHex}]

NormalizeHex(a) == IF a.prefix = "" THEN Address("0x", a.digits) ELSE a

Request(command, n, address) ==
  [command |-> command, number |-> n, address |-> address]

Connects(tool) == tool \in {"launch", "attach"}

Forward(tool, arg, address, command, number) ==
  /\ pc = IF Connects(tool) THEN "idle" ELSE "call"
  /\ call' = [tool |-> tool, arg |-> arg, address |-> address]
  /\ IF IsOk(number)
       THEN /\ request' = Request(command, number.value, address)
            /\ pc' = IF Connects(tool) THEN "connect" ELSE "sent"
            /\ UNCHANGED outcome
       ELSE Finish(ToolError(number.text)) /\ UNCHANGED request
  /\ UNCHANGED <<env, adapter, child, reply>>

ReadMemory ==
  \E arg \in NumberArgs, a \in AddressArgs :
    /\ Forward("read_memory", arg, NormalizeHex(a), "readMemory",
               RequirePositiveInt(arg))
    /\ UNCHANGED marked

SetBreakpoint ==
  \E arg \in NumberArgs :
    /\ Forward("set_breakpoint", arg, None, "setBreakpoints", RequirePositiveInt(arg))
    /\ UNCHANGED marked

\* resolve_thread_id; the thread that stopped last is 1.
Continue ==
  \E arg \in NumberArgs :
    LET r == ExplicitPositiveThreadId(arg) IN
    /\ Forward("continue", arg, None, "continue",
               IF r = Fallback THEN Ok(1) ELSE r)
    /\ UNCHANGED marked

\* The argument is the pid; what is sent takes the place of the address.
AttachTo ==
  \E arg \in NumberArgs, waitFor \in {Absent, Null, Text(Empty), Text(1)} :
    /\ Forward("attach", arg, AttachFields(arg, waitFor), "attach", Attach(arg, waitFor))
    /\ UNCHANGED marked

\* args and env are JSON in strings; 1 is what each has to parse as.
Launch ==
  \E args, environ \in {Absent, Null, Text(1), Text(2), Number(2)}, stop \in BOOLEAN :
    LET a == ParseJson(args, 1)
        e == ParseJson(environ, 1)
    IN  /\ Forward("launch", Absent, LaunchFields(a, e, stop), "launch",
                   IF IsOk(a) THEN (IF IsOk(e) THEN Ok(0) ELSE e) ELSE a)
        /\ UNCHANGED marked

Backtrace ==
  \E arg \in NumberArgs :
    /\ Forward("backtrace", arg, None, "stackTrace", Ok(AboveZeroOr(arg, 20)))
    /\ UNCHANGED marked

\* With an address, or with that of the top frame, which is asked first.
Disassemble ==
  \E arg \in NumberArgs :
    \/ \E a \in AddressArgs :
         /\ Forward("disassemble", arg, NormalizeHex(a), "disassemble",
                    Ok(AboveZeroOr(arg, 20)))
         /\ UNCHANGED marked
    \/ /\ Forward("disassemble", arg, None, "stackTrace", Ok(1))
       /\ UNCHANGED marked

\* The top frame's instruction pointer, if the reply has one.
ResolvePc ==
  /\ pc = "sent"
  /\ call.tool = "disassemble"
  /\ request.command = "stackTrace"
  /\ \/ \E a \in AddressArgs :
          /\ marked' = NormalizeHex(a)
          /\ request' = Request("disassemble", AboveZeroOr(call.arg, 20), marked')
          /\ UNCHANGED <<pc, outcome>>
     \/ /\ Finish(ToolError("noInstructionPointer"))
        /\ UNCHANGED <<marked, request>>
  /\ UNCHANGED <<env, adapter, child, call, reply>>

\* LldbBackend::evaluate in repl mode: only an adapter without command mode
\* needs the backtick that makes the text a command.
Backtick == IF ReplMode THEN "raw" ELSE "backtick"

RunCommand ==
  /\ Forward("run_command", Absent, Backtick, "evaluate", Ok(0))
  /\ UNCHANGED marked

----------------------------------------------------------------------------
(* The reply: adapter to outcome *)

\* How a request can fail: no response, one that says no, one that cannot be
\* decoded, one to another command.
Failures == {"closed", "refused", "malformed", "protocol"}

\* What LldbBackend makes of a failed request: its own verb, then the detail.
RequestFailed == "requestFailed"
Failed        == "failed"
Unexpected    == "unexpected"

\* diagnostic(): the message, else stderr, else a literal.
Diagnostic(message, stderr) ==
  IF message # <<>> THEN message
  ELSE IF stderr # <<>> THEN stderr
  ELSE <<"noErrorMessage">>

\* check_response, send_checked, and the decoders of response bodies.
BackendError(r) ==
  CASE r.kind = "closed"  -> <<request.command, RequestFailed>> \o r.detail
    [] r.kind = "refused" -> <<request.command, Failed>> \o Diagnostic(r.detail, r.stderr)
    [] r.kind = "malformed" -> <<"malformedBody">> \o r.detail

\* resume_and_wait does not look at its response at all, and what launch and
\* attach check is its success only: nobody decodes these bodies.
Unchecked == {"continue"}
Undecoded == Unchecked \cup {"launch", "attach"}

\* launch's flush of the pending breakpoints refuses an answer to another
\* command.  The read loop hands out responses only, so this is the one answer
\* of a wrong type there is.  It is stamped with its label, response:<command>,
\* where handshake_error looks for <op>:<label> ...
Flushes == {"launch"}
WrongType(r) == <<"response">> \o r.detail

\* ... and takes what stands in front of the colon for the op.
UnexpectedType(stamp) == <<Unexpected, Head(stamp)>> \o Tail(stamp)

\* The words after the first occurrence of one.
After(text, word) == SubSeq(text, SelectInSeq(text, LAMBDA w : w = word) + 1, Len(text))

\* The verb of a tool's OpError; STACK_TRACE serves whoever asks for frames.
Verb == IF request.command = "stackTrace" THEN "stackTrace" ELSE call.tool

\* OpError::render_dap: reword with the tool's own verb.
RenderDap(text) ==
  IF RequestFailed \in ToSet(text)
    THEN <<Verb, RequestFailed>> \o After(text, RequestFailed)
  ELSE IF Failed \in ToSet(text)
    THEN <<Verb, Failed>> \o After(text, Failed)
  ELSE text

\* handshake_error: launch and attach pass the backend's wording on.
Render(text) ==
  IF Connects(call.tool) THEN text ELSE RenderDap(text)

\* What a failed request ends in at the tool boundary.
ErrorText(r) ==
  IF r.kind = "protocol" THEN UnexpectedType(WrongType(r)) ELSE Render(BackendError(r))

\* For continue a refusal is an answer like another.
Refused ==
  /\ pc = "sent"
  /\ \E kind \in Failures, detail \in Details, stderr \in {<<>>, <<"stderr">>} :
       /\ kind # "refused" => detail # <<>>
       /\ kind = "malformed" => request.command \notin Undecoded
       /\ kind = "refused" => request.command \notin Unchecked
       /\ kind = "protocol" => request.command \in Flushes
       /\ reply' = [kind |-> kind, detail |-> detail, stderr |-> stderr]
  /\ Finish([kind |-> "error", text |-> ErrorText(reply')])
  /\ UNCHANGED <<env, adapter, child, call, request, marked>>

\* Mutant of Row: the address does not wrap.
RowUnwrapped(data, start, offset) ==
  [address |-> start + offset,
   bytes |-> SubSeq(data, offset + 1, Min({offset + RowBytes, Len(data)}))]

\* format_hex_dump: the row at an offset of the data.
Row(data, start, offset) ==
  [address |-> (start + offset) % AddressSpace,
   bytes |-> SubSeq(data, offset + 1, Min({offset + RowBytes, Len(data)}))]

HexDump(data, start) ==
  [r \in 1..((Len(data) + RowBytes - 1) \div RowBytes) |->
     Row(data, start, RowBytes * (r - 1))]

\* read_memory: empty data has no dump, and needs no address.
MemoryRead ==
  /\ pc = "sent"
  /\ request.command = "readMemory"
  /\ \E data \in Reads :
       /\ reply' = [kind |-> "data", data |-> data]
       /\ Finish(IF data = <<>> THEN [kind |-> "dump", rows |-> <<>>]
                 ELSE IF request.address.digits = NotHex THEN ToolError("parseAddress")
                 ELSE [kind |-> "dump", rows |-> HexDump(data, request.address.digits)])
  /\ UNCHANGED <<env, adapter, child, call, request, marked>>

\* An instruction is its address here; the one at current_pc is marked.
Disassembled ==
  /\ pc = "sent"
  /\ request.command = "disassemble"
  /\ \E at \in [prefix : {"0x"}, digits : {0, AddressSpace - 1}] :
       /\ reply' = [kind |-> "data", data |-> at]
       /\ Finish([kind |-> "listing", isCurrentPc |-> at = marked])
  /\ UNCHANGED <<env, adapter, child, call, request, marked>>

\* Every other request is answered; what follows is in the other modules.
Answered ==
  /\ pc = "sent"
  /\ call.tool \notin {"read_memory", "disassemble"}
  /\ Finish([kind |-> "answered"])
  /\ UNCHANGED <<env, adapter, child, call, request, reply, marked>>

\* format_output_entries: by category, the unknown ones with the console's.
Bucket(category) ==
  IF category \in {"stdout", "stderr"} THEN category ELSE "console"
Pushed(entries, bucket) ==
  LET upTo[n \in 0..Len(entries)] ==
        IF n = 0 THEN <<>>
        ELSE IF Bucket(entries[n].category) = bucket
               THEN Append(upTo[n - 1], entries[n])
               ELSE upTo[n - 1]
  IN  upTo[Len(entries)]
Grouped(entries) ==
  [bucket \in {Bucket(entries[i].category) : i \in DOMAIN entries} |->
     Pushed(entries, bucket)]

ReadOutput ==
  /\ pc = "call"
  /\ call' = [tool |-> "read_output", arg |-> Absent, address |-> None]
  /\ \E entries \in BoundedSeq([category : {"stdout", "stderr", "console", "telemetry"},
                                text : {1, 2}], MaxEntries) :
       /\ reply' = [kind |-> "data", data |-> entries]
       /\ Finish([kind |-> "output", count |-> Len(entries), text |-> Grouped(entries)])
  /\ UNCHANGED <<env, adapter, child, request, marked>>

Next ==
  \/ Connect
  \/ ReadMemory \/ SetBreakpoint \/ Continue \/ AttachTo \/ Launch \/ Backtrace
  \/ Disassemble \/ ResolvePc \/ RunCommand
  \/ Refused \/ MemoryRead \/ Disassembled \/ Answered
  \/ ReadOutput

Spec == Init /\ [][Next]_vars

----------------------------------------------------------------------------
(* Properties *)

\* The requests the tools send, and what a call ends in.
Commands == {"readMemory", "setBreakpoints", "continue", "attach", "launch", "stackTrace",
             "disassemble", "evaluate"}
Outcomes == {"error", "dump", "listing", "answered", "output"}

\* A call takes its places in order: no adapter before the connection, one
\* while the session is used, a request when one is sent, an outcome at the end.
TypeOK ==
  /\ env \in Envs
  /\ pc \in {"idle", "connect", "call", "sent", "done"}
  /\ pc \in {"idle", "connect"} => adapter = None /\ child = None
  /\ pc = "call" => IsDetected(adapter)
  /\ pc = "sent" => request.command \in Commands
  /\ pc = "done" => outcome.kind \in Outcomes

\* A binary on PATH is as good as another (find_lldb_dap's documented order).
AsGood(b, c) ==
  \/ c = LldbVscode
  \/ b = LldbDap
  \/ b[1] = "lldb-dap" /\ c # LldbDap /\ b[2] >= c[2]

\* find_lldb_dap obeys an override that exists, else takes the best binary
\* installed, and fails only when nothing is; then it names all it tried.
PrefersTheNewest ==
  adapter # None =>
    LET overridden == env.override \in {"onPath", "file"} IN
    /\ overridden <=> adapter.path = FromEnv
    /\ ~overridden => \A c \in env.onPath : /\ adapter.path \in env.onPath
                                           /\ AsGood(adapter.path, c)
    /\ ~IsDetected(adapter) =>
         /\ env.onPath = {} /\ env.xcrun # "path"
         /\ ToSet(Candidates) \subseteq ToSet(adapter.searched)

\* run_command reaches an lldb-dap as it is and a legacy adapter, which knows
\* no --repl-mode and was started without it, behind a backtick: detection,
\* spawn and evaluate agree on what the binary is.
CommandFitsTheAdapter ==
  request # None /\ request.command = "evaluate" =>
    LET legacy == \/ child.path = LldbVscode
                  \/ child.path = FromEnv /\ ~env.namesLldbDap
    IN  /\ child.replMode <=> ~legacy
        /\ request.address = IF child.replMode THEN "raw" ELSE "backtick"

\* A number above zero that an argument stands for: the whole part of an f64
\* no other f64 is nearer to the argument than, or the largest i64 in place of
\* a larger one.  An argument that an f64 can be is sent as its own whole part.
StandsFor(n, arg) ==
  /\ n > 0
  /\ arg.type = "number" =>
       \E d \in Nearest(arg.value) :
         \/ d \in {2 * n, 2 * n + 1}
         \/ n = MaxInt /\ d > 2 * n

\* The tools that promise a positive number (read_memory's count, the line of
\* set_breakpoint, a thread_id, attach's pid) never pass another one on,
\* fractions, overflows and what an f64 cannot hold included; the number
\* differs from the one asked for by the rounding of value_as_f64 at most.
\* attach without a pid sends a name to wait for, and never an empty one.
ForwardedIsValid ==
  /\ request # None /\ call.tool \in {"read_memory", "set_breakpoint", "continue"} =>
       StandsFor(request.number, call.arg)
  /\ request # None /\ call.tool = "attach" =>
       \/ call.arg.type = "number" /\ StandsFor(request.address.pid, call.arg)
       \/ call.arg.type # "number" /\ request.address.program # Empty

\* read_memory's dump shows every byte once, at its own address.
DumpShowsTheMemory ==
  pc = "done" /\ outcome.kind = "dump" =>
    LET start == request.address.digits
        rows  == outcome.rows
        Shown == UNION {{<<(rows[r].address + c - 1) % AddressSpace, rows[r].bytes[c]>> :
                          c \in DOMAIN rows[r].bytes} : r \in DOMAIN rows}
    IN  /\ \A r \in DOMAIN rows :
             /\ rows[r].address < AddressSpace
             /\ Len(rows[r].bytes) \in 1..RowBytes
        /\ Shown = {<<(start + i - 1) % AddressSpace, reply.data[i]>> :
                      i \in DOMAIN reply.data}

\* read_output counts every entry and keeps the order within a category.
OutputKeepsItsOrder ==
  pc = "done" /\ outcome.kind = "output" =>
    /\ outcome.count = Len(reply.data)
    /\ \A i, j \in DOMAIN reply.data :
         i < j /\ Bucket(reply.data[i].category) = Bucket(reply.data[j].category) =>
           LET shown == outcome.text[Bucket(reply.data[i].category)] IN
             \E m, n \in DOMAIN shown :
               m < n /\ shown[m] = reply.data[i] /\ shown[n] = reply.data[j]

\* An error the adapter or the transport gave keeps its detail and its kind
\* (check_response, OpError::render_dap), for a detail free of the separator.
Reworded ==
  CASE reply.kind = "closed"    -> <<Verb, RequestFailed>> \o reply.detail
    [] reply.kind = "refused"   -> <<Verb, Failed>> \o Diagnostic(reply.detail, reply.stderr)
    [] reply.kind = "malformed" -> <<"malformedBody">> \o reply.detail
    [] reply.kind = "protocol"  -> <<Unexpected, "response">> \o reply.detail

\* What the backend did not put in front of a detail, and render_dap looks for.
Separators(kind) ==
  CASE kind \in {"closed", "protocol"} -> {}
    [] kind = "refused"   -> {RequestFailed}
    [] kind = "malformed" -> {RequestFailed, Failed}

IsFailure == pc = "done" /\ reply # None /\ reply.kind \in Failures

\* The answer of a tool is what the adapter replied.
AnswerShowsTheReply ==
  /\ DumpShowsTheMemory
  /\ OutputKeepsItsOrder
  /\ IsFailure /\ ToSet(reply.detail) \cap Separators(reply.kind) = {}
       => outcome.text = Reworded

\* Claimed of render_dap: the inner detail is preserved, whatever it says.
ErrorKeepsItsDetail ==
  IsFailure => outcome.text = Reworded
=============================================================================
