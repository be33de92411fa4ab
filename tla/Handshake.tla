----------------------------- MODULE Handshake -----------------------------
(***************************************************************************)
(* The launch and attach handshakes of crates/lldb-backend: run_launch and *)
(* run_attach against an adapter that answers in its own order, refuses    *)
(* requests, stops or loses the debuggee, or dies in the middle.           *)
(*                                                                         *)
(* A handshake is a straight line of awaits, so it is modelled as the list *)
(* of those awaits (script) and a position in it (at); a request is named  *)
(* by its position.  What happens inside one Client::send is DapClient's   *)
(* subject: here a send is its write and its reply, and the recovery of    *)
(* the read loop at EOF is one step.                                       *)
(*                                                                         *)
(* The adapter (lldb-dap) is external.                                     *)
(***************************************************************************)
EXTENDS Naturals, Sequences, FiniteSets

CONSTANTS
  Kinds,      \* the handshakes that may be run: "launch", "attach"
  MaxFiles,   \* bound on the files with pending source breakpoints
  MayRefuse,  \* may the adapter answer a request with success = false?
  MayDie,     \* may the adapter die?
  MayCancel   \* may the tool call be cancelled?

ASSUME HandshakeAssumption ==
  /\ Kinds \subseteq {"launch", "attach"}
  /\ MaxFiles \in Nat
  /\ {MayRefuse, MayDie, MayCancel} \subseteq BOOLEAN

VARIABLES
  kind,       \* which handshake this is
  script,     \* its awaits, in order
  at,         \* the one it is at
  sent,       \* the request at this position is written, its reply awaited
  result,     \* "none" until the handshake returns
  pending,    \* Shared.pending: positions whose entry is in the map
  rx,         \* rx[i]: what request i's response channel holds
  fired,      \* InitializedSignal.fired
  slot,       \* is a stop waiter registered?
  stopRx,     \* what its channel holds
  reading,    \* is the read loop running?
  lost,       \* history: the first outcome found no waiter registered
  adapter,    \* "up" or "down"
  stdin,      \* requests written and not yet parsed by the adapter
  parsed,     \* requests it has parsed
  owed,       \* parsed and not yet answered
  refused,    \* answered with success = false
  announced,  \* the adapter has emitted its initialized event
  target,     \* the debuggee: "none", "ready" (configuration is done),
              \* "stopped", "exited", "terminated"
  inbox       \* the adapter's stdout: messages not yet read

clientVars  == <<kind, script, at, sent, result>>
sharedVars  == <<pending, rx, fired, slot, stopRx, reading, lost>>
adapterVars == <<adapter, stdin, parsed, owed, refused, announced, target,
                 inbox>>
vars == <<clientVars, sharedVars, adapterVars>>

----------------------------------------------------------------------------
(* The two scripts.  A reply is checked for success or only awaited. *)

Send(cmd)    == [op |-> "send", cmd |-> cmd, checked |-> TRUE]
SendOnly(cmd) == [op |-> "send", cmd |-> cmd, checked |-> FALSE]
Start(cmd)   == [op |-> "start", cmd |-> cmd, checked |-> TRUE]
Await(what)  == [op |-> what, cmd |-> "none", checked |-> FALSE]
When(b, s)   == IF b THEN s ELSE <<>>

\* Mutant of LaunchScript: the waiter is registered once configurationDone is answered.
LaunchScriptLate(files, functions, stop) ==
  <<Send("initialize"), Start("launch"), Await("initialized")>>
  \o [i \in 1..files |-> Send("setBreakpoints")]
  \o When(functions, <<Send("setFunctionBreakpoints")>>)
  \o <<SendOnly("setExceptionBreakpoints"), SendOnly("configurationDone")>>
  \o When(stop, <<Await("register")>>)
  \o <<Await("response")>>
  \o When(stop, <<Await("stop")>>)

\* run_launch, with `files` pending source files, function breakpoints or
\* not, and stop_on_entry or not.
LaunchScript(files, functions, stop) ==
  <<Send("initialize"), Start("launch"), Await("initialized")>>
  \o [i \in 1..files |-> Send("setBreakpoints")]
  \o When(functions, <<Send("setFunctionBreakpoints")>>)
  \o <<SendOnly("setExceptionBreakpoints")>>
  \o When(stop, <<Await("register")>>)
  \o <<SendOnly("configurationDone"), Await("response")>>
  \o When(stop, <<Await("stop")>>)

AttachScript ==
  <<Send("initialize"), Start("attach"), Await("initialized"),
    SendOnly("setExceptionBreakpoints"), SendOnly("configurationDone"),
    Await("response"), Await("register"), Await("stop")>>

\* The position of the launch or attach request in either script.
Target == 2

Scripts == [k \in {"launch", "attach"} |->
              IF k = "launch"
                THEN {LaunchScript(n, f, s) :
                        n \in 0..MaxFiles, f \in BOOLEAN, s \in BOOLEAN}
                ELSE {AttachScript}]

Wanted(op) == \E i \in DOMAIN script : script[i].op = op

Results  == {"none", "running", "stopped", "exited", "terminated", "failed",
             "cancelled"}
Replies  == {"empty", "ok", "refused", "closed"}

\* What becomes of the debuggee: the adapter's stopped, exited and terminated
\* events, and the StopOutcome the read loop makes of each.
Fates    == {"stopped", "exited", "terminated"}
Outcomes == {"empty"} \cup Fates

Init ==
  /\ kind \in Kinds
  /\ script \in Scripts[kind]
  /\ at = 1
  /\ sent = FALSE
  /\ result = "none"
  /\ pending = {}
  /\ rx = [i \in DOMAIN script |-> "empty"]
  /\ fired = FALSE
  /\ slot = FALSE
  /\ stopRx = "empty"
  /\ reading = TRUE
  /\ lost = FALSE
  /\ adapter = "up"
  /\ stdin = <<>>
  /\ parsed = {}
  /\ owed = {}
  /\ refused = {}
  /\ announced = FALSE
  /\ target = "none"
  /\ inbox = <<>>

----------------------------------------------------------------------------
(* The handshake's own steps. *)

At(op) == result = "none" /\ at \in DOMAIN script /\ script[at].op = op

\* The step is over: the next one, or the return of a launch that does not
\* wait for an entry stop.
Advance ==
  /\ at' = at + 1
  /\ sent' = FALSE
  /\ result' = IF at = Len(script) THEN "running" ELSE result
  /\ UNCHANGED <<kind, script>>

Return(r) ==
  /\ result' = r
  /\ sent' = FALSE
  /\ UNCHANGED <<kind, script, at>>

\* Client::send and send_async up to the end of the write: the entry is
\* registered, and rolled back if the write fails.
Write ==
  /\ At("send") \/ At("start")
  /\ ~sent
  /\ IF adapter = "up"
       THEN /\ pending' = pending \cup {at}
            /\ stdin' = Append(stdin, at)
            /\ IF script[at].op = "start"
                 THEN Advance
                 ELSE sent' = TRUE /\ UNCHANGED <<kind, script, at, result>>
       ELSE Return("failed") /\ UNCHANGED <<pending, stdin>>
  /\ UNCHANGED <<rx, fired, slot, stopRx, reading, lost, adapter, parsed,
                 owed, refused, announced, target, inbox>>

\* Mutant of Acceptable: success = false is taken for a success.
AcceptableAnyway(i, checked) == rx[i] \in {"ok", "refused"}

\* check_response: a refusal is an error where the reply is checked.
Acceptable(i, checked) == rx[i] = "ok" \/ (rx[i] = "refused" /\ ~checked)

Reply ==
  /\ At("send") /\ sent
  /\ rx[at] # "empty"
  /\ IF Acceptable(at, script[at].checked) THEN Advance ELSE Return("failed")
  /\ UNCHANGED <<sharedVars, adapterVars>>

PassInitialized ==
  /\ At("initialized")
  /\ fired
  /\ Advance
  /\ UNCHANGED <<sharedVars, adapterVars>>

\* StopWaiter::register: a fresh channel in the single slot.
Register ==
  /\ At("register")
  /\ slot' = TRUE
  /\ stopRx' = "empty"
  /\ Advance
  /\ UNCHANGED <<pending, rx, fired, reading, lost, adapterVars>>

\* The deferred launch or attach response.
TakeResponse ==
  /\ At("response")
  /\ rx[Target] # "empty"
  /\ IF Acceptable(Target, TRUE) THEN Advance ELSE Return("failed")
  /\ UNCHANGED <<sharedVars, adapterVars>>

\* The outcome of the entry stop: a launch takes a terminated one for an exit.
TakeStop ==
  /\ At("stop")
  /\ stopRx # "empty"
  /\ Return(IF kind = "launch" /\ stopRx = "terminated" THEN "exited"
            ELSE stopRx)
  /\ UNCHANGED <<sharedVars, adapterVars>>

\* The tool layer's select! drops the handshake at any await.  The AbortGuard
\* of a send removes that send's entry; send_async has no guard.
Cancel ==
  /\ MayCancel
  /\ result = "none"
  /\ Return("cancelled")
  /\ pending' = IF sent THEN pending \ {at} ELSE pending
  /\ UNCHANGED <<rx, fired, slot, stopRx, reading, lost, adapterVars>>

----------------------------------------------------------------------------
(* The adapter (external): one request at a time, the launch or attach     *)
(* response whenever it likes, one initialized event once it has been      *)
(* initialized, and what becomes of the debuggee after configurationDone:  *)
(* it stops, or it is gone, of which the adapter says exited, terminated,  *)
(* or the one and then the other.                                          *)

Say(m) == inbox' = Append(inbox, m)

Parse ==
  /\ adapter = "up"
  /\ stdin # <<>>
  /\ owed \subseteq {Target}
  /\ parsed' = parsed \cup {Head(stdin)}
  /\ owed' = owed \cup {Head(stdin)}
  /\ stdin' = Tail(stdin)
  /\ target' = IF script[Head(stdin)].cmd = "configurationDone"
                  /\ Target \notin refused
                 THEN "ready" ELSE target
  /\ UNCHANGED <<clientVars, sharedVars, adapter, refused, announced, inbox>>

\* A refused launch or attach has no debuggee.
Respond(i, ok) ==
  /\ adapter = "up"
  /\ i \in owed
  /\ ok \/ (MayRefuse /\ (i = Target => target \in {"none", "ready"}))
  /\ Say([type |-> "response", of |-> i, ok |-> ok])
  /\ owed' = owed \ {i}
  /\ refused' = IF ok THEN refused ELSE refused \cup {i}
  /\ target' = IF i = Target /\ ~ok THEN "none" ELSE target
  /\ UNCHANGED <<clientVars, sharedVars, adapter, stdin, parsed, announced>>

Announce ==
  /\ adapter = "up"
  /\ ~announced
  /\ 1 \in parsed
  /\ announced' = TRUE
  /\ Say([type |-> "initialized"])
  /\ UNCHANGED <<clientVars, sharedVars, adapter, stdin, parsed, owed,
                 refused, target>>

\* The debuggee stops at its entry (asked to), and stays there for as long as
\* the handshake lasts; or it is gone.
Happen(what) ==
  /\ adapter = "up"
  /\ target = "ready" \/ (target = "exited" /\ what = "terminated")
  /\ what = "stopped" => Wanted("stop")
  /\ target' = what
  /\ Say([type |-> what])
  /\ UNCHANGED <<clientVars, sharedVars, adapter, stdin, parsed, owed,
                 refused, announced>>

Die ==
  /\ MayDie
  /\ adapter = "up"
  /\ adapter' = "down"
  /\ Say([type |-> "eof"])
  /\ UNCHANGED <<clientVars, sharedVars, stdin, parsed, owed, refused,
                 announced, target>>

----------------------------------------------------------------------------
(* The read loop. *)

Take(type) == reading /\ inbox # <<>> /\ Head(inbox).type = type
              /\ inbox' = Tail(inbox)
Rest == <<clientVars, adapter, stdin, parsed, owed, refused, announced,
          target>>

\* Mutant of DeliverResponse: the entry stays in the map.
DeliverResponseKeepsEntry ==
  /\ Take("response")
  /\ LET m == Head(inbox) IN
       rx' = IF m.of \in pending
               THEN [rx EXCEPT ![m.of] = IF m.ok THEN "ok" ELSE "refused"]
               ELSE rx
  /\ UNCHANGED <<pending, fired, slot, stopRx, reading, lost, Rest>>

DeliverResponse ==
  /\ Take("response")
  /\ LET m == Head(inbox) IN
       IF m.of \in pending
         THEN /\ pending' = pending \ {m.of}
              /\ rx' = [rx EXCEPT ![m.of] = IF m.ok THEN "ok" ELSE "refused"]
         ELSE UNCHANGED <<pending, rx>>
  /\ UNCHANGED <<fired, slot, stopRx, reading, lost, Rest>>

DeliverInitialized ==
  /\ Take("initialized")
  /\ fired' = TRUE
  /\ UNCHANGED <<pending, rx, slot, stopRx, reading, lost, Rest>>

\* StopWaiter::send takes the slot (a terminated event cancels the waiter,
\* which is to send it Terminated); with no waiter the event is gone.
DeliverStop(what) ==
  /\ Take(what)
  /\ slot' = FALSE
  /\ stopRx' = IF slot THEN what ELSE stopRx
  /\ lost' = (lost \/ (~slot /\ stopRx = "empty"))
  /\ UNCHANGED <<pending, rx, fired, reading, Rest>>

\* Mutant of Recover: the stop waiter is not cancelled.
RecoverKeepsWaiter ==
  /\ Take("eof")
  /\ rx' = [i \in DOMAIN rx |-> IF i \in pending THEN "closed" ELSE rx[i]]
  /\ pending' = {}
  /\ reading' = FALSE
  /\ UNCHANGED <<fired, lost, slot, stopRx, Rest>>

\* recover: every pending request fails, the stop waiter is cancelled, the
\* loop ends.  The initialized latch is left as it is.
Recover ==
  /\ Take("eof")
  /\ rx' = [i \in DOMAIN rx |-> IF i \in pending THEN "closed" ELSE rx[i]]
  /\ pending' = {}
  /\ stopRx' = IF slot THEN "terminated" ELSE stopRx
  /\ slot' = FALSE
  /\ reading' = FALSE
  /\ UNCHANGED <<fired, lost, Rest>>

----------------------------------------------------------------------------
Backend == Write \/ Reply \/ PassInitialized \/ Register \/ TakeResponse
           \/ TakeStop
Reader  == DeliverResponse \/ DeliverInitialized \/ Recover
           \/ \E what \in Fates : DeliverStop(what)
Answers == \E i \in owed : Respond(i, TRUE)
Refuses == \E i \in owed : Respond(i, FALSE)
Events  == \E what \in Fates : Happen(what)

EntryEvent == Wanted("stop") /\ Events

Next == Backend \/ Cancel \/ Reader \/ Parse \/ Answers \/ Refuses
        \/ Announce \/ Events \/ Die

Spec == Init /\ [][Next]_vars

\* tokio polls a woken task; the read loop is a task; a live adapter reads,
\* answers every request, announces itself and runs its debuggee to the
\* entry stop it was asked for.  Refusing, dying and cancelling are free.
FairSpec ==
  /\ Spec
  /\ WF_vars(Backend) /\ WF_vars(Reader)
  /\ WF_vars(Parse) /\ WF_vars(Answers) /\ WF_vars(Announce)
  /\ WF_vars(EntryEvent)

----------------------------------------------------------------------------
(* Properties. *)

Messages == [type : {"response"}, of : Nat, ok : BOOLEAN]
            \cup [type : {"initialized", "eof"} \cup Fates]

TypeOK ==
  /\ kind \in {"launch", "attach"}
  /\ script \in Scripts[kind]
  /\ at \in 1..(Len(script) + 1)
  /\ sent \in BOOLEAN
  /\ result \in Results
  /\ pending \subseteq DOMAIN script
  /\ rx \in [DOMAIN script -> Replies]
  /\ {fired, slot, reading, lost, announced} \subseteq BOOLEAN
  /\ stopRx \in Outcomes
  /\ adapter \in {"up", "down"}
  /\ stdin \in Seq(DOMAIN script)
  /\ parsed \subseteq DOMAIN script
  /\ owed \subseteq parsed
  /\ refused \subseteq parsed
  /\ target \in {"none", "ready"} \cup Fates
  /\ inbox \in Seq(Messages)

\* run_launch registers its waiter before configurationDone, so the first that
\* becomes of the debuggee always finds it, however the adapter orders the
\* event, the configurationDone reply and the deferred launch response.
EntryStopCaptured ==
  kind = "launch" /\ Wanted("stop") => ~lost

\* The outcome the tool reports is what happened: a stop only of a stopped
\* debuggee, an exit only of one that is gone or, for a launch, whose adapter
\* died, terminated only by an attach and only when the adapter said so or
\* died, running only of a launch the adapter accepted, and an error only if
\* the adapter refused something or died.
OutcomeIsTrue ==
  /\ result = "stopped" => target = "stopped"
  /\ result = "exited" => \/ target \in {"exited", "terminated"}
                          \/ kind = "launch" /\ adapter = "down"
  /\ result = "terminated" => /\ kind = "attach"
                              /\ target = "terminated" \/ adapter = "down"
  /\ result \in {"running"} \cup Fates => Target \notin refused
  /\ result = "failed" => refused # {} \/ adapter = "down"

\* A handshake leaves at most its launch or attach request behind in the
\* pending map, and only one that gave up: send's guard and rollback clean up
\* after every other request, and success has collected every response.
LeavesAtMostTheTarget ==
  result # "none" =>
    pending \subseteq IF result \in {"failed", "cancelled"} THEN {Target} ELSE {}

\* Once the initialized event is in, a handshake returns: the adapter may
\* refuse any request, answer in any order or die at any point. The exception
\* is an attach that registers its waiter too late: its stop has gone to no
\* waiter, or the recovery that would have cancelled the waiter is over.
HandshakeReturns ==
  fired ~> \/ result # "none"
           \/ kind = "attach" /\ (lost \/ (slot /\ ~reading))

\* FR-17.7: when the read loop ends, everything that waits on it unblocks.
DeathUnblocksHandshake == (~reading) ~> (result # "none")

\* FR-5.7: an attach to a live adapter ends in a stop, an exit or an error.
AttachReturns == <>(result # "none")

\* Cancelling the tool call removes what the call had in the pending map.
CancelLeavesNothing == result = "cancelled" => pending = {}
============================================================================
