----------------------------- MODULE DapClient -----------------------------
(***************************************************************************)
(* The DAP transport of crates/dap-client: the sequence counter, the       *)
(* pending-request map, the write mutex, the single-slot stop waiter, the  *)
(* capacity-1 initialized latch and the read loop with its EOF recovery.   *)
(*                                                                         *)
(* A caller is one tokio task driving one client future to its end:        *)
(*    "send"    Client::send (every plain request)                         *)
(*    "resume"  LldbBackend::resume_and_wait (continue and the steps)      *)
(*    "both"    Client::send_and_await_both (the dual-await)               *)
(* Any of them may be dropped at any of its await points (Cancel).  Each   *)
(* step below is what one task does between two points where another task  *)
(* can run: one lock section, one atomic operation or one await.           *)
(*                                                                         *)
(* The adapter (lldb-dap) is external: it answers the requests it could    *)
(* parse in any order, emits events, and may die, which is an EOF.         *)
(***************************************************************************)
EXTENDS Naturals, Sequences, FiniteSets

CONSTANTS
  Callers,     \* the tasks that use the client
  Ops,         \* the operations they may perform
  MaxEvents,   \* bound on the events the adapter emits
  ExitCodes,   \* exit codes an exited event may carry
  Malformed,   \* may the adapter emit a frame read_message rejects?
  None         \* Rust's Option::None

ASSUME DapClientAssumption ==
  /\ Ops \subseteq {"send", "resume", "both"}
  /\ MaxEvents \in Nat
  /\ Malformed \in BOOLEAN
  /\ None \notin Callers
  /\ None \notin ExitCodes
  /\ "armed" \notin ExitCodes \cup {None}

VARIABLES
  op,         \* op[c]: what caller c does
  pc,         \* pc[c]: where caller c's future is suspended
  seq,        \* Shared.seq
  seqOf,      \* seqOf[c]: the seq c was assigned, 0 before that
  pending,    \* Shared.pending: the callers whose sender is in the map; the
              \* key of c's entry is seqOf[c]
  rx,         \* rx[c]: the content of c's response channel
  slot,       \* StopWaiter.slot: the caller whose sender is registered
  stopRx,     \* stopRx[c]: the content of c's stop channel
  fired,      \* InitializedSignal.fired
  initWaiter, \* InitializedSignal.waiter
  initRx,     \* initRx[c]: c's initialized channel has resolved
  writer,     \* who holds the write mutex
  torn,       \* the outgoing byte stream: "no" (whole frames only), "open"
              \* (it ends in a truncated frame), "garbled" (bytes follow it)
  adapter,    \* "up" or "down"
  received,   \* the callers whose request the adapter has parsed
  answered,   \* the callers whose request it has answered
  events,     \* how many events the adapter has emitted
  inbox,      \* the adapter's stdout: messages not yet read
  log,        \* history: the stops, exits and ends the read loop has taken
  reader,     \* where the read loop is
  failing,    \* cancel_all_pending: senders drained and not yet failed
  lastExit,   \* Sinks.last_exit_code
  terminated  \* Sinks.terminated: "armed", or the code it was fired with

callerVars  == <<op, pc, seq, seqOf>>
channelVars == <<pending, rx>>
stopVars    == <<slot, stopRx>>
initVars    == <<fired, initWaiter, initRx>>
wireVars    == <<writer, torn>>
adapterVars == <<adapter, received, answered, events>>
readerVars  == <<reader, failing>>
sinkVars    == <<lastExit, terminated>>
vars == <<callerVars, channelVars, stopVars, initVars, wireVars, adapterVars,
          inbox, log, readerVars, sinkVars>>

----------------------------------------------------------------------------
(* Messages and channel contents. *)

Response(c)  == [type |-> "response", of |-> c, key |-> seqOf[c]]
StoppedBy(c) == [type |-> "stopped", cause |-> c]
ExitedWith(code) == [type |-> "exited", code |-> code]
Plain(t)     == [type |-> t]

Messages == [type : {"response"}, of : Callers, key : Nat]
            \cup [type : {"stopped"}, cause : Callers \cup {None}]
            \cup [type : {"exited"}, code : ExitCodes]
            \cup [type : {"initialized", "other", "terminated", "malformed",
                          "eof"}]

Empty     == [kind |-> "empty"]       \* nothing sent yet
Closed    == [kind |-> "closed"]      \* Err(BackendError::Closed)
Answer(m) == [kind |-> "ok", of |-> m.of]
Results   == {Empty, Closed} \cup [kind : {"ok"}, of : Callers]

Outcomes  == {"empty", "stopped", "exited", "terminated", "dropped"}

\* A caller's future from its first poll to its return.  "write" waits for
\* the write mutex, "writing" is inside write_message.
Registered == {"write", "writing", "park", "await", "both"}
Waiting    == Registered \cup {"stopWait"}
Returned   == {"ok", "failed", "cancelled"}
PCs        == {"start", "seq", "register"} \cup Waiting \cup Returned

ReaderPCs == {"reading", "deliverExit", "cancelStop", "drain", "failDrained",
              "recoverStop", "recoverTerminated", "exited"}
Drained   == {"failDrained", "recoverStop", "recoverTerminated", "exited"}

Init ==
  /\ op \in [Callers -> Ops]
  \* A client serves one launch or attach, hence one dual-await.
  /\ \A c, d \in Callers : op[c] = "both" /\ op[d] = "both" => c = d
  /\ pc = [c \in Callers |-> "start"]
  /\ seq = 0
  /\ seqOf = [c \in Callers |-> 0]
  /\ pending = {}
  /\ rx = [c \in Callers |-> Empty]
  /\ slot = None
  /\ stopRx = [c \in Callers |-> "empty"]
  /\ fired = FALSE
  /\ initWaiter = None
  /\ initRx = [c \in Callers |-> FALSE]
  /\ writer = None
  /\ torn = "no"
  /\ adapter = "up"
  /\ received = {}
  /\ answered = {}
  /\ events = 0
  /\ inbox = <<>>
  /\ log = <<>>
  /\ reader = "reading"
  /\ failing = {}
  /\ lastExit = None
  /\ terminated = "armed"

Goto(c, from, to) == pc[c] = from /\ pc' = [pc EXCEPT ![c] = to]

----------------------------------------------------------------------------
(* Callers *)

\* StopWaiter::register: the previous sender, if any, is dropped, and its
\* receiver observes a closed channel.
Register(c) ==
  /\ slot' = c
  /\ stopRx' = [d \in Callers |->
                  IF d = slot /\ stopRx[d] = "empty" THEN "dropped" ELSE stopRx[d]]

\* resume_and_wait registers the stop waiter before it sends the request.
RegisterStop(c) ==
  /\ op[c] = "resume"
  /\ Goto(c, "start", "seq")
  /\ Register(c)
  /\ UNCHANGED <<op, seq, seqOf, channelVars, initVars, wireVars, adapterVars,
                 inbox, log, readerVars, sinkVars>>

\* Mutant of FetchAdd: a load and a store, the store lost to another task.
FetchAddRacy(c) ==
  /\ UNCHANGED seq
  /\ seqOf' = [seqOf EXCEPT ![c] = seq + 1]

\* next_seq: one atomic fetch_add; the first value is 1.
FetchAdd(c) ==
  /\ seq' = seq + 1
  /\ seqOf' = [seqOf EXCEPT ![c] = seq + 1]

NextSeq(c) ==
  /\ Goto(c, IF op[c] = "resume" THEN "seq" ELSE "start", "register")
  /\ FetchAdd(c)
  /\ UNCHANGED <<op, channelVars, stopVars, initVars, wireVars, adapterVars,
                 inbox, log, readerVars, sinkVars>>

\* register_pending: HashMap::insert replaces an entry with the same key.
RegisterPending(c) ==
  /\ Goto(c, "register", "write")
  /\ pending' = {d \in pending : seqOf[d] # seqOf[c]} \cup {c}
  /\ UNCHANGED <<op, seq, seqOf, rx, stopVars, initVars, wireVars, adapterVars,
                 inbox, log, readerVars, sinkVars>>

\* write_request: take the write mutex ...
StartWrite(c) ==
  /\ Goto(c, "write", "writing")
  /\ writer = None
  /\ writer' = c
  /\ UNCHANGED <<op, seq, seqOf, channelVars, stopVars, initVars, torn,
                 adapterVars, inbox, log, readerVars, sinkVars>>

\* ... and finish the frame.  A frame that follows a truncated one is read
\* by the adapter as the truncated frame's body.
FinishWrite(c) ==
  /\ adapter = "up"
  /\ Goto(c, "writing", IF op[c] = "both" THEN "park" ELSE "await")
  /\ writer' = None
  /\ torn' = IF torn = "no" THEN "no" ELSE "garbled"
  /\ received' = IF torn = "no" THEN received \cup {c} ELSE received
  /\ UNCHANGED <<op, seq, seqOf, channelVars, stopVars, initVars, adapter,
                 answered, events, inbox, log, readerVars, sinkVars>>

\* remove_pending, keyed by the caller's seq.
RemovePending(c) == pending' = {d \in pending : seqOf[d] # seqOf[c]}

\* The adapter closed its stdin: write_message fails (EPIPE), the entry is
\* rolled back and the caller returns BackendError::Send.
FailWrite(c) ==
  /\ adapter = "down"
  /\ Goto(c, "writing", "failed")
  /\ writer' = None
  /\ RemovePending(c)
  /\ UNCHANGED <<op, seq, seqOf, rx, stopVars, initVars, torn, adapterVars,
                 inbox, log, readerVars, sinkVars>>

\* Mutant of ReceiveResult: a closed channel is taken for an answer.
ReceiveResultUnchecked(c) ==
  /\ rx[c] # Empty
  /\ Goto(c, "await", IF op[c] = "resume" THEN "stopWait" ELSE "ok")
  /\ UNCHANGED <<op, seq, seqOf, channelVars, stopVars, initVars, wireVars,
                 adapterVars, inbox, log, readerVars, sinkVars>>

\* The send returns: a response, or Closed from the recovery.  A resume
\* whose request was answered, whatever the answer says, goes on to the
\* stop channel.
ReceiveResult(c) ==
  /\ rx[c] # Empty
  /\ Goto(c, "await", IF rx[c] = Closed THEN "failed"
                      ELSE IF op[c] = "resume" THEN "stopWait" ELSE "ok")
  /\ UNCHANGED <<op, seq, seqOf, channelVars, stopVars, initVars, wireVars,
                 adapterVars, inbox, log, readerVars, sinkVars>>

\* resume_and_wait's second await.
ReceiveStop(c) ==
  /\ stopRx[c] # "empty"
  /\ Goto(c, "stopWait", "ok")
  /\ UNCHANGED <<op, seq, seqOf, channelVars, stopVars, initVars, wireVars,
                 adapterVars, inbox, log, readerVars, sinkVars>>

\* Mutant of WaitInitialized: a bare notification, not a latch.
WaitInitializedUnlatched(c) ==
  /\ Goto(c, "park", "both")
  /\ initWaiter' = c
  /\ UNCHANGED <<op, seq, seqOf, channelVars, stopVars, fired, initRx,
                 wireVars, adapterVars, inbox, log, readerVars, sinkVars>>

\* wait_initialized: return at once if the latch has fired, else park.
WaitInitialized(c) ==
  /\ Goto(c, "park", "both")
  /\ IF fired
       THEN initRx' = [initRx EXCEPT ![c] = TRUE] /\ UNCHANGED initWaiter
       ELSE initWaiter' = c /\ UNCHANGED initRx
  /\ UNCHANGED <<op, seq, seqOf, channelVars, stopVars, fired, wireVars,
                 adapterVars, inbox, log, readerVars, sinkVars>>

\* send_and_await_both returns once it has the result and the signal.
ReceiveBoth(c) ==
  /\ rx[c] # Empty
  /\ initRx[c]
  /\ Goto(c, "both", IF rx[c] = Closed THEN "failed" ELSE "ok")
  /\ UNCHANGED <<op, seq, seqOf, channelVars, stopVars, initVars, wireVars,
                 adapterVars, inbox, log, readerVars, sinkVars>>

\* Mutant of DropGuard: the guard is armed only after the write.
DropGuardLate(c) ==
  IF pc[c] \in {"write", "writing"} THEN UNCHANGED pending ELSE RemovePending(c)

\* Dropping the future releases the write mutex and runs the AbortGuard.
\* send arms the guard before the write; send_and_await_both only after it,
\* so a drop inside its write leaves the entry behind.
DropGuard(c) ==
  IF op[c] = "both" /\ pc[c] \in {"write", "writing"}
    THEN UNCHANGED pending
    ELSE RemovePending(c)

\* Mutant of Cancel: the dropped future does not release the write mutex.
CancelHoldingWriter(c) ==
  /\ pc[c] \in Waiting \ {"park"}
  /\ pc' = [pc EXCEPT ![c] = "cancelled"]
  /\ DropGuard(c)
  /\ UNCHANGED <<op, seq, seqOf, rx, stopVars, initVars, wireVars, adapterVars,
                 inbox, log, readerVars, sinkVars>>

Cancel(c) ==
  /\ pc[c] \in Waiting \ {"park"}
  /\ pc' = [pc EXCEPT ![c] = "cancelled"]
  /\ DropGuard(c)
  /\ writer' = IF writer = c THEN None ELSE writer
  \* A drop inside write_message may leave part of the frame in the pipe.
  /\ torn' \in IF pc[c] = "writing" /\ torn = "no" THEN {"no", "open"} ELSE {torn}
  /\ UNCHANGED <<op, seq, seqOf, rx, stopVars, initVars, adapterVars, inbox,
                 log, readerVars, sinkVars>>

----------------------------------------------------------------------------
(* The read loop *)

\* read_message yields the next message.
Logged == {"stopped", "exited", "terminated", "eof", "malformed"}
Take(types) ==
  /\ reader = "reading"
  /\ inbox # <<>>
  /\ Head(inbox).type \in types
  /\ inbox' = Tail(inbox)
  /\ log' = IF Head(inbox).type \in Logged THEN Append(log, Head(inbox)) ELSE log

\* oneshot send to c: lost if c has dropped its receiver.
Send(c, r) == rx' = [rx EXCEPT ![c] = IF pc[c] \in Registered THEN r ELSE @]

\* dispatch_response: take the entry under request_seq, if there is one.
DispatchResponse ==
  /\ Take({"response"})
  /\ LET m == Head(inbox) IN
       \/ \E c \in pending :
            /\ seqOf[c] = m.key
            /\ pending' = pending \ {c}
            /\ Send(c, Answer(m))
       \/ /\ \A c \in pending : seqOf[c] # m.key
          /\ UNCHANGED channelVars
  /\ UNCHANGED <<callerVars, stopVars, initVars, wireVars, adapterVars,
                 readerVars, sinkVars>>

\* Mutant of DeliverStop: only a caller already parked on its stop channel
\* is woken (a notification that is not remembered).
DeliverStopUnlatched(outcome) ==
  /\ slot' = None
  /\ stopRx' = [c \in Callers |->
                  IF c = slot /\ stopRx[c] = "empty" /\ pc[c] = "stopWait"
                    THEN outcome ELSE stopRx[c]]

\* StopWaiter::send: take the slot and send to it, if it is occupied.
DeliverStop(outcome) ==
  /\ slot' = None
  /\ stopRx' = [c \in Callers |->
                  IF c = slot /\ stopRx[c] = "empty" THEN outcome ELSE stopRx[c]]

DispatchStopped ==
  /\ Take({"stopped"})
  /\ DeliverStop("stopped")
  /\ UNCHANGED <<callerVars, channelVars, initVars, wireVars, adapterVars,
                 readerVars, sinkVars>>

\* signal_initialized: latch, and wake the parked waiter.
DispatchInitialized ==
  /\ Take({"initialized"})
  /\ fired' = TRUE
  /\ initWaiter' = None
  /\ initRx' = [c \in Callers |-> initRx[c] \/ c = initWaiter]
  /\ UNCHANGED <<callerVars, channelVars, stopVars, wireVars, adapterVars,
                 readerVars, sinkVars>>

\* Every other event leaves the client as it is: output goes to an unbounded
\* channel (EventPath has its way from there), the rest is logged.
DispatchOther ==
  /\ Take({"other"})
  /\ UNCHANGED <<callerVars, channelVars, stopVars, initVars, wireVars,
                 adapterVars, readerVars, sinkVars>>

\* Mutant of RecordExit: the code is kept only when no stop waiter takes it.
RecordExitUnwaited ==
  /\ Take({"exited"})
  /\ lastExit' = IF slot = None THEN Head(inbox).code ELSE lastExit
  /\ reader' = "deliverExit"
  /\ UNCHANGED <<callerVars, channelVars, stopVars, initVars, wireVars,
                 adapterVars, failing, terminated>>

\* exited: record the code, then deliver the exit.
RecordExit ==
  /\ Take({"exited"})
  /\ lastExit' = Head(inbox).code
  /\ reader' = "deliverExit"
  /\ UNCHANGED <<callerVars, channelVars, stopVars, initVars, wireVars,
                 adapterVars, failing, terminated>>

DeliverExit ==
  /\ reader = "deliverExit"
  /\ DeliverStop("exited")
  /\ reader' = "reading"
  /\ UNCHANGED <<callerVars, channelVars, initVars, wireVars, adapterVars,
                 inbox, log, failing, sinkVars>>

\* fire_terminated: at most once, with the exit code seen so far.
FireTerminated ==
  terminated' = IF terminated = "armed" THEN lastExit ELSE terminated

\* terminated: fire the signal, then cancel the stop waiter.
DispatchTerminated ==
  /\ Take({"terminated"})
  /\ FireTerminated
  /\ reader' = "cancelStop"
  /\ UNCHANGED <<callerVars, channelVars, stopVars, initVars, wireVars,
                 adapterVars, failing, lastExit>>

CancelStop ==
  /\ reader = "cancelStop"
  /\ DeliverStop("terminated")
  /\ reader' = "reading"
  /\ UNCHANGED <<callerVars, channelVars, initVars, wireVars, adapterVars,
                 inbox, log, failing, sinkVars>>

\* Any read error ends the loop: recover() runs its four steps in order.
ReadError ==
  /\ Take({"eof", "malformed"})
  /\ reader' = "drain"
  /\ UNCHANGED <<callerVars, channelVars, stopVars, initVars, wireVars,
                 adapterVars, failing, sinkVars>>

\* Mutant of DrainPending: only the requests already on the wire are failed.
DrainWritten ==
  /\ reader = "drain"
  /\ reader' = "failDrained"
  /\ failing' = pending \cap received
  /\ pending' = {}
  /\ UNCHANGED <<callerVars, rx, stopVars, initVars, wireVars, adapterVars,
                 inbox, log, sinkVars>>

\* cancel_all_pending drains the map under the lock ...
DrainPending ==
  /\ reader = "drain"
  /\ reader' = "failDrained"
  /\ failing' = pending
  /\ pending' = {}
  /\ UNCHANGED <<callerVars, rx, stopVars, initVars, wireVars, adapterVars,
                 inbox, log, sinkVars>>

\* ... and fails every drained sender outside it.
FailDrained ==
  /\ reader = "failDrained"
  /\ reader' = "recoverStop"
  /\ failing' = {}
  /\ rx' = [c \in Callers |->
              IF c \in failing /\ pc[c] \in Registered THEN Closed ELSE rx[c]]
  /\ UNCHANGED <<callerVars, pending, stopVars, initVars, wireVars,
                 adapterVars, inbox, log, sinkVars>>

RecoverStop ==
  /\ reader = "recoverStop"
  /\ DeliverStop("terminated")
  /\ reader' = "recoverTerminated"
  /\ UNCHANGED <<callerVars, channelVars, initVars, wireVars, adapterVars,
                 inbox, log, failing, sinkVars>>

\* Mutant of RecoverTerminated: recovery leaves the signal to the event.
RecoverSilently ==
  /\ reader = "recoverTerminated"
  /\ reader' = "exited"
  /\ UNCHANGED <<callerVars, channelVars, stopVars, initVars, wireVars,
                 adapterVars, inbox, log, failing, sinkVars>>

RecoverTerminated ==
  /\ reader = "recoverTerminated"
  /\ FireTerminated
  /\ reader' = "exited"
  /\ UNCHANGED <<callerVars, channelVars, stopVars, initVars, wireVars,
                 adapterVars, inbox, log, failing, lastExit>>

Read ==
  \/ DispatchResponse \/ DispatchStopped \/ DispatchInitialized
  \/ DispatchOther \/ RecordExit \/ DeliverExit \/ DispatchTerminated
  \/ CancelStop \/ ReadError \/ DrainPending \/ FailDrained \/ RecoverStop
  \/ RecoverTerminated

----------------------------------------------------------------------------
(* The adapter (external) *)

Emit(m) == inbox' = Append(inbox, m)

Respond(c) ==
  /\ adapter = "up"
  /\ c \in received \ answered
  /\ answered' = answered \cup {c}
  /\ Emit(Response(c))
  /\ UNCHANGED <<callerVars, channelVars, stopVars, initVars, wireVars,
                 adapter, received, events, log, readerVars, sinkVars>>

\* A stop is either the outcome of a resume request the adapter has parsed,
\* or spontaneous (a breakpoint hit after pause, a signal).
EventMessages ==
  {StoppedBy(c) : c \in {d \in received : op[d] = "resume"}}
  \cup {StoppedBy(None)}
  \cup {ExitedWith(code) : code \in ExitCodes}
  \cup {Plain(t) : t \in {"initialized", "other", "terminated"}}

EmitEvent ==
  /\ adapter = "up"
  /\ events < MaxEvents
  /\ events' = events + 1
  /\ \E m \in EventMessages : Emit(m)
  /\ UNCHANGED <<callerVars, channelVars, stopVars, initVars, wireVars,
                 adapter, received, answered, log, readerVars, sinkVars>>

\* A frame read_message rejects (bad header, oversized or undecodable body).
EmitMalformed ==
  /\ Malformed
  /\ adapter = "up"
  /\ events < MaxEvents
  /\ events' = events + 1
  /\ Emit(Plain("malformed"))
  /\ UNCHANGED <<callerVars, channelVars, stopVars, initVars, wireVars,
                 adapter, received, answered, log, readerVars, sinkVars>>

Die ==
  /\ adapter = "up"
  /\ adapter' = "down"
  /\ Emit(Plain("eof"))
  /\ UNCHANGED <<callerVars, channelVars, stopVars, initVars, wireVars,
                 received, answered, events, log, readerVars, sinkVars>>

----------------------------------------------------------------------------

Call(c) ==
  \/ RegisterStop(c) \/ NextSeq(c) \/ RegisterPending(c) \/ StartWrite(c)
  \/ FinishWrite(c) \/ FailWrite(c) \/ ReceiveResult(c) \/ ReceiveStop(c)
  \/ WaitInitialized(c) \/ ReceiveBoth(c)

Next ==
  \/ \E c \in Callers : Call(c) \/ Cancel(c) \/ Respond(c)
  \/ Read
  \/ EmitEvent
  \/ EmitMalformed
  \/ Die

Spec == Init /\ [][Next]_vars

\* tokio polls every woken task; lldb-dap answers each request it parses
\* unless it dies, and dies on input it cannot parse.
Fairness ==
  /\ \A c \in Callers : WF_vars(Call(c)) /\ WF_vars(Respond(c))
  /\ WF_vars(Read)
  /\ WF_vars(torn = "garbled" /\ Die)

FairSpec == Spec /\ Fairness
----------------------------------------------------------------------------
(* Properties *)

\* Every variable stays within its type.
TypeOK ==
  /\ op \in [Callers -> Ops]
  /\ pc \in [Callers -> PCs]
  /\ seq \in Nat
  /\ seqOf \in [Callers -> Nat]
  /\ pending \subseteq Callers
  /\ rx \in [Callers -> Results]
  /\ slot \in Callers \cup {None}
  /\ stopRx \in [Callers -> Outcomes]
  /\ fired \in BOOLEAN
  /\ initWaiter \in Callers \cup {None}
  /\ initRx \in [Callers -> BOOLEAN]
  /\ writer \in Callers \cup {None}
  /\ torn \in {"no", "open", "garbled"}
  /\ adapter \in {"up", "down"}
  /\ received \subseteq Callers
  /\ answered \subseteq Callers
  /\ events \in Nat
  /\ inbox \in Seq(Messages)
  /\ log \in Seq(Messages)
  /\ reader \in ReaderPCs
  /\ failing \subseteq Callers
  /\ lastExit \in ExitCodes \cup {None}
  /\ terminated \in ExitCodes \cup {None, "armed"}

\* Correlation (dispatch_response): whatever the order of the answers, a
\* caller only ever receives the answer to its own request.
ResponseMatchesRequest ==
  \A c \in Callers : rx[c].kind = "ok" => rx[c].of = c

\* Cancel-safety (AbortGuard) and rollback: the pending map never holds an
\* entry whose caller has gone, except one of send_and_await_both dropped
\* inside its write, which is not guarded yet.
NoOrphanedEntry ==
  \A c \in pending :
    pc[c] \in Registered \/ (op[c] = "both" /\ pc[c] = "cancelled")

\* EOF recovery (recover): when the read loop has ended at an EOF and the
\* pending map has been failed, nobody who got a request out is left waiting
\* for an answer that cannot come, not even a caller that registered after
\* the drain: its write fails.
EofRead == \E i \in DOMAIN log : log[i].type = "eof"
NoStrandedSend ==
  EofRead /\ reader \in Drained \ {"failDrained"} =>
    \A c \in Callers : pc[c] \in {"await", "park", "both"} => rx[c] # Empty

\* Stop waiter (register before send, oneshot): when the read loop has taken
\* the stop a resume caused, that resume has an outcome, even if it is still
\* waiting for the response to its request.
ResumeNeverMissesItsStop ==
  \A i \in DOMAIN log :
    log[i].type = "stopped" /\ log[i].cause # None =>
      (pc[log[i].cause] \in Waiting => stopRx[log[i].cause] # "empty")

\* No lost wakeup: whoever is blocked on an empty channel has its sender where
\* it will still be used. A request's is in the map or in the hands of the
\* recovery; a resume's is in the stop slot (a stop, an exit, the end or the
\* next registration takes it from there); a parked dual-await's is in the
\* latch, which has not fired.
NoLostWakeup ==
  \A c \in Callers :
    /\ pc[c] \in Registered /\ rx[c] = Empty => c \in pending \cup failing
    /\ op[c] = "resume" /\ pc[c] \in {"seq", "register"} \cup Waiting
         /\ stopRx[c] = "empty" => slot = c
    /\ pc[c] = "both" /\ ~initRx[c] => ~fired /\ initWaiter = c

\* Terminated signal (fire_terminated): it carries the code of the last
\* exited event that preceded the end of the session in the stream.
Ends == {i \in DOMAIN log : log[i].type \in {"terminated", "eof", "malformed"}}
ExitCodeCarried ==
  terminated # "armed" =>
    \E e \in Ends :
      /\ \A f \in Ends : e <= f
      /\ LET exits == {i \in 1..(e - 1) : log[i].type = "exited"} IN
           IF exits = {} THEN terminated = None
           ELSE \E i \in exits :
                  (\A j \in exits : j <= i) /\ terminated = log[i].code

\* The promise of the transport (RequestService): the pending map, the
\* sequence numbers, the channels and the recovery implement it. A call is
\* open once its entry is registered; the connection has ended when the
\* adapter is down or the read loop has taken a frame it rejects.
Stage(c) ==
  CASE pc[c] \in {"start", "seq", "register"} -> "idle"
    [] pc[c] \in Registered -> "open"
    [] pc[c] = "stopWait" -> "answered"
    [] pc[c] = "ok" -> "done"
    [] OTHER -> pc[c]
Service == INSTANCE RequestService WITH
  resumes <- {c \in Callers : op[c] = "resume"},
  call <- [c \in Callers |-> Stage(c)],
  served <- answered,
  outcome <- {c \in Callers : stopRx[c] # "empty"},
  ended <- adapter = "down" \/ \E i \in DOMAIN log : log[i].type = "malformed"
ImplementsService == Service!Spec

\* Every request that got its seq returns, whatever is cancelled and
\* whenever the adapter dies: answered, failed or dropped by its caller.
EverySendReturns ==
  \A c \in Callers : op[c] = "send" /\ pc[c] = "register" ~> pc[c] \in Returned

\* Crash recovery: the death of the adapter reaches the terminated signal
\* and releases every blocked resume.
DeathEndsSession ==
  adapter = "down" ~> /\ terminated # "armed"
                      /\ \A c \in Callers : pc[c] # "stopWait"

\* Claimed of every read error (Spec FR-17.7): no request stays blocked once
\* the read loop has exited.
EveryBlockedRequestUnblocks ==
  reader = "exited" => \A c \in Callers : pc[c] = "await" => rx[c] # Empty

\* Claimed of a dropped stop sender (resume_and_wait, which reports it as
\* StopOutcome::Terminated): the connection tore down.
DroppedMeansTornDown ==
  \A c \in Callers : pc[c] = "ok" /\ stopRx[c] = "dropped" => Ends # {}

\* Claimed of a dropped backend future (cancel-safe): what follows on the
\* wire is still a sequence of whole frames.
CancelKeepsFraming == torn # "garbled"
=============================================================================
