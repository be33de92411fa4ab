---------------------------- MODULE Breakpoints ----------------------------
(***************************************************************************)
(* Breakpoint tracking: the set, remove and list tools of crates/mcp-tools *)
(* over the pending, active and response tables of SessionManager, and the *)
(* breakpoints the adapter really has installed.                           *)
(*                                                                         *)
(* A breakpoint is of a kind, "source" or "function", and has a key: its   *)
(* line in the one source file of the model, or its function's name.       *)
(* Conditions are left out: nothing matches on them.  Each step is one     *)
(* lock section or one await of a handler; the adapter replaces a whole    *)
(* list at once, numbers what is new in it and may bind a source           *)
(* breakpoint to a later line.                                             *)
(***************************************************************************)
EXTENDS Naturals, Sequences, FiniteSets, SequencesExt

CONSTANTS
  Tasks,      \* the concurrent tool calls
  Kinds,      \* the kinds of breakpoints used
  Keys,       \* lines and names, as the numbers from 1
  MaxCalls,   \* bound on the calls of a behaviour
  Overlaps,   \* the modes of a client: FALSE makes one call at a time
  MayMove,    \* may the adapter bind a line to a later one?
  MayReset    \* may the session be disconnected or a launch fail?

ASSUME BreakpointsAssumption ==
  /\ Kinds \subseteq {"source", "function"}
  /\ IsFiniteSet(Keys) /\ Keys = 1..Cardinality(Keys)
  /\ MaxCalls \in Nat
  /\ Overlaps \subseteq BOOLEAN
  /\ {MayMove, MayReset} \subseteq BOOLEAN

VARIABLES
  overlap,    \* may this behaviour's calls overlap?
  state,      \* Inner.state: "idle", "configuring" or "stopped"
  pending,    \* pending[kind]: pending_source_bps, pending_function_bps
  active,     \* active[kind]: source_bps, function_bps
  info,       \* bp_responses: the set of [id, kind, key], unique by id
  pc,         \* pc[t]: where task t's handler is
  call,       \* call[t]: its arguments; a removal's kind and key once read
  list,       \* list[t]: the list it has sent
  match,      \* match[t]: the result it has picked, [id, key]
  installed,  \* installed[kind][key]: the adapter's id for it, 0 if none
  boundTo,    \* boundTo[line]: the line the program has code for
  nextId,     \* the adapter's next id
  epoch,      \* counts the connections
  sentIn,     \* sentIn[t]: the connection t sent its list on
  calls,      \* how many calls have begun
  removed,    \* history: the ids reported as removed
  flushed,    \* the <<kind, key>> the current launch has flushed
  issued,     \* history: the results of the set requests, [id, kind, key] and
              \* the key that the entry of the request asked for
  asked,      \* history: what the call that recorded an id had asked for, [id, key]
  garbled     \* history: garbled[kind]: this session, has a response to a list
              \* that the adapter took been unreadable: "never", the "last" one,
              \* only an "earlier" one

trackVars   == <<pending, active, info>>
taskVars    == <<call, list, match, sentIn>>
adapterVars == <<installed, boundTo, nextId, epoch>>
historyVars == <<removed, flushed, issued, asked, garbled>>
vars == <<overlap, state, trackVars, pc, taskVars, adapterVars, calls, historyVars>>

PCs == {"free", "branch", "pend", "propose", "peek", "fetch", "sent", "commitList",
        "commitInfo", "commitRemove"}
NoCall == [op |-> "none", kind |-> "none", key |-> 0, id |-> 0]
Nowhere == [kind \in Kinds |-> [key \in Keys |-> 0]]
NoLists == [kind \in Kinds |-> <<>>]
AllRead == [kind \in Kinds |-> "never"]

Init ==
  /\ overlap \in Overlaps
  /\ state = "idle"
  /\ pending = NoLists
  /\ active = NoLists
  /\ info = {}
  /\ pc = [t \in Tasks |-> "free"]
  /\ call = [t \in Tasks |-> NoCall]
  /\ list = [t \in Tasks |-> <<>>]
  /\ match = [t \in Tasks |-> [id |-> 0, key |-> 0]]
  /\ installed = Nowhere
  /\ boundTo \in {f \in [Keys -> Keys] :
                    \A k \in Keys : f[k] = k \/ (MayMove /\ f[k] > k)}
  /\ nextId = 1
  /\ epoch = 0
  /\ sentIn = [t \in Tasks |-> 0]
  /\ calls = 0
  /\ removed = {}
  /\ flushed = {}
  /\ issued = {}
  /\ asked = {}
  /\ garbled = AllRead

\* A call begins: at any time, or only when the previous one has returned.
Admitted == overlap \/ \A u \in Tasks : pc[u] = "free"

Goto(t, from, to) == pc[t] = from /\ pc' = [pc EXCEPT ![t] = to]

----------------------------------------------------------------------------
(* The handlers *)

\* A call arrives and passes its guard (one that does not changes nothing).
Begin(t, c, allowed, next) ==
  /\ calls < MaxCalls
  /\ Admitted
  /\ state \in allowed
  /\ Goto(t, "free", next)
  /\ call' = [call EXCEPT ![t] = c]
  /\ calls' = calls + 1
  /\ UNCHANGED <<overlap, state, trackVars, list, match, sentIn, adapterVars,
                 historyVars>>

SetBreakpoint(t) ==
  \E kind \in Kinds, key \in Keys :
    Begin(t, [op |-> "set", kind |-> kind, key |-> key, id |-> 0],
          {"idle", "stopped"}, "branch")

\* The state is read again: pending if it is still idle, else the live path.
Branch(t) ==
  /\ \/ state = "idle" /\ Goto(t, "branch", "pend")
     \/ state # "idle" /\ Goto(t, "branch", "propose")
  /\ UNCHANGED <<overlap, state, trackVars, taskVars, adapterVars, calls,
                 historyVars>>

\* add_pending_source_breakpoint, add_pending_function_breakpoint
AddPending(t) ==
  /\ Goto(t, "pend", "free")
  /\ pending' = [pending EXCEPT ![call[t].kind] = Append(@, call[t].key)]
  /\ UNCHANGED <<overlap, state, active, info, taskVars, adapterVars, calls,
                 historyVars>>

\* current_backend: a launch under way may not have published one yet, a
\* disconnect may have taken it since.
NoBackend(t) ==
  /\ state # "stopped"
  /\ Goto(t, "propose", "free") \/ Goto(t, "fetch", "free")
  /\ UNCHANGED <<overlap, state, trackVars, taskVars, adapterVars, calls,
                 historyVars>>

\* The proposed list, a copy of the tracked one, is sent.
Send(t, proposal) ==
  /\ state # "idle"
  /\ pc' = [pc EXCEPT ![t] = "sent"]
  /\ list' = [list EXCEPT ![t] = proposal]
  /\ sentIn' = [sentIn EXCEPT ![t] = epoch]
  /\ UNCHANGED <<overlap, state, trackVars, call, match, adapterVars, calls,
                 historyVars>>

ProposeSet(t) ==
  /\ pc[t] = "propose"
  /\ Send(t, Append(active[call[t].kind], call[t].key))

RemoveBreakpoint(t) ==
  \E id \in 1..(nextId - 1) :
    Begin(t, [op |-> "remove", kind |-> "none", key |-> 0, id |-> id],
          {"stopped"}, "peek")

\* breakpoint_info finds the id; then the backend is awaited.
Peek(t) ==
  /\ Goto(t, "peek", "fetch")
  /\ \E b \in info :
       /\ b.id = call[t].id
       /\ call' = [call EXCEPT ![t] = [op |-> "remove", kind |-> b.kind, key |-> b.key, id |-> b.id]]
  /\ UNCHANGED <<overlap, state, trackVars, list, match, sentIn, adapterVars, calls,
                 historyVars>>

\* The list without the first entry that has the line or name read.
Remaining(t) == RemoveFirst(active[call[t].kind], call[t].key)

ProposeRemove(t) ==
  /\ pc[t] = "fetch"
  /\ Send(t, Remaining(t))

RemoveUnknown(t) ==
  /\ \A b \in info : b.id # call[t].id
  /\ Goto(t, "peek", "free")
  /\ UNCHANGED <<overlap, state, trackVars, taskVars, adapterVars, calls,
                 historyVars>>

\* Mutant of Picked: a function's result is taken to be the first.
PickedFirst(kind, key, results) ==
  LET same == {i \in DOMAIN results : results[i].key = key} IN
  IF kind = "source" /\ same # {}
    THEN results[CHOOSE i \in same : \A j \in same : i <= j]
    ELSE Head(results)

\* The result picked from the response: for a source breakpoint the first on
\* the requested line, else the last; for a function the last.
Picked(kind, key, results) ==
  LET same == {i \in DOMAIN results : results[i].key = key} IN
  IF kind = "source" /\ same # {}
    THEN results[CHOOSE i \in same : \A j \in same : i <= j]
    ELSE Last(results)

\* add_source_breakpoint, add_function_breakpoint
CommitList(t) ==
  /\ Goto(t, "commitList", "commitInfo")
  /\ active' = [active EXCEPT ![call[t].kind] = Append(@, call[t].key)]
  /\ UNCHANGED <<overlap, state, pending, info, taskVars, adapterVars, calls,
                 historyVars>>

\* add_breakpoint_response: the map is keyed by id.  A source breakpoint is
\* recorded with the line of the response, a function with its name.
CommitInfo(t) ==
  /\ Goto(t, "commitInfo", "free")
  /\ info' = {b \in info : b.id # match[t].id} \cup
       {[id |-> match[t].id, kind |-> call[t].kind,
         key |-> IF call[t].kind = "source" THEN match[t].key ELSE call[t].key]}
  /\ asked' = {a \in asked : a.id # match[t].id} \cup
                [id : {match[t].id}, key : {call[t].key}]
  /\ UNCHANGED <<overlap, state, pending, active, taskVars, adapterVars, calls,
                 removed, flushed, issued, garbled>>

\* remove_breakpoint_by_id, in one lock section.
CommitRemove(t) ==
  /\ Goto(t, "commitRemove", "free")
  /\ \/ \E b \in info :
          /\ b.id = call[t].id
          /\ active' = [active EXCEPT ![b.kind] = RemoveFirst(@, b.key)]
          /\ info' = info \ {b}
          /\ removed' = removed \cup {b.id}
     \/ /\ \A b \in info : b.id # call[t].id
        /\ UNCHANGED <<active, info, removed>>
  /\ UNCHANGED <<overlap, state, pending, taskVars, adapterVars, calls, flushed,
                 issued, asked, garbled>>

----------------------------------------------------------------------------
(* The adapter (external) *)

\* setBreakpoints replaces the kind's whole list.  What is already installed
\* keeps its id; what is new gets one, in the order of the list.
NewIds(kind, l) ==
  [key \in Keys |->
     IF key \notin ToSet(l) THEN 0
     ELSE IF installed[kind][key] # 0 THEN installed[kind][key]
     ELSE nextId + SelectInSeq(l, LAMBDA v : v = key) - 1]

\* A source breakpoint is bound to a line that has code.
BoundKey(kind, key) == IF kind = "source" THEN boundTo[key] ELSE key

\* The response: one result per entry of the request, with its bound line.
ResultsOf(kind, ids, l) ==
  [i \in DOMAIN l |-> [id |-> ids[l[i]], key |-> BoundKey(kind, l[i])]]

\* The adapter's list is replaced, on the connection it was sent on.
Replace(t) ==
  /\ pc[t] = "sent"
  /\ sentIn[t] = epoch
  /\ state # "idle"
  /\ installed' = [installed EXCEPT ![call[t].kind] = NewIds(call[t].kind, list[t])]
  /\ nextId' = nextId + Len(list[t])

\* The request succeeds: the handler goes on to commit.
Accepted(t) ==
  LET kind == call[t].kind
      ids  == NewIds(kind, list[t]) IN
  /\ Replace(t)
  /\ match' = IF call[t].op = "set"
                THEN [match EXCEPT ![t] = Picked(kind, call[t].key,
                                                 ResultsOf(kind, ids, list[t]))]
                ELSE match
  /\ pc' = [pc EXCEPT ![t] = IF call[t].op = "set" THEN "commitList" ELSE "commitRemove"]
  /\ issued' = issued \cup
       {[id |-> ids[key], kind |-> kind, key |-> BoundKey(kind, key), asked |-> key] :
          key \in ToSet(list[t])}
  /\ garbled' = [garbled EXCEPT ![kind] = IF @ = "last" THEN "earlier" ELSE @]
  /\ UNCHANGED <<overlap, state, trackVars, call, list, sentIn, boundTo, epoch, calls,
                 removed, flushed, asked>>

\* The adapter takes the list but the response has no body that can be read:
\* the handler returns the error and commits nothing.
Malformed(t) ==
  /\ Replace(t)
  /\ pc' = [pc EXCEPT ![t] = "free"]
  /\ garbled' = [garbled EXCEPT ![call[t].kind] = "last"]
  /\ UNCHANGED <<overlap, state, trackVars, taskVars, boundTo, epoch, calls, removed,
                 flushed, issued, asked>>

\* Mutant of Rejected: the list was changed before the request was sent.
RejectedKeepsEntry(t) ==
  /\ Goto(t, "sent", "free")
  /\ active' = IF call[t].op = "set" THEN [active EXCEPT ![call[t].kind] = list[t]]
               ELSE active
  /\ UNCHANGED <<overlap, state, pending, info, taskVars, adapterVars, calls,
                 historyVars>>

\* The request fails, or its connection has gone: the handler returns the
\* error and commits nothing.
Rejected(t) ==
  /\ Goto(t, "sent", "free")
  /\ UNCHANGED <<overlap, state, trackVars, taskVars, adapterVars, calls,
                 historyVars>>

----------------------------------------------------------------------------
(* The session around them *)

\* launch, its state change and flush_pending_breakpoints.
Launch ==
  /\ state = "idle"
  /\ calls < MaxCalls
  /\ Admitted
  /\ calls' = calls + 1
  /\ state' = "configuring"
  /\ active' = [kind \in Kinds |-> active[kind] \o pending[kind]]
  /\ pending' = NoLists
  /\ flushed' = {bp \in Kinds \X Keys : bp[2] \in ToSet(pending[bp[1]])}
  /\ installed' = Nowhere
  /\ garbled' = AllRead
  /\ epoch' = epoch + 1
  /\ UNCHANGED <<overlap, info, pc, taskVars, boundTo, nextId, removed, issued,
                 asked>>

\* The handshake has sent the flushed lists, if there are any, to the fresh
\* adapter.  Their results are only checked for success.
Launched ==
  /\ state = "configuring"
  /\ state' = "stopped"
  /\ installed' = [kind \in Kinds |->
        IF flushed \cap ({kind} \X Keys) = {} THEN installed[kind]
        ELSE [key \in Keys |->
                CASE <<kind, key>> \notin flushed -> 0
                  [] <<kind, key>> \in flushed /\ installed[kind][key] # 0 ->
                       installed[kind][key]
                  [] OTHER -> nextId + 2 * key + (IF kind = "source" THEN 0 ELSE 1)]]
  /\ nextId' = nextId + 2 * (Cardinality(Keys) + 1)
  /\ UNCHANGED <<overlap, trackVars, pc, taskVars, boundTo, epoch, calls,
                 historyVars>>

\* attach: no flush.
Attached ==
  /\ state = "idle"
  /\ calls < MaxCalls
  /\ Admitted
  /\ calls' = calls + 1
  /\ state' = "stopped"
  /\ installed' = Nowhere
  /\ garbled' = AllRead
  /\ epoch' = epoch + 1
  /\ UNCHANGED <<overlap, trackVars, pc, taskVars, boundTo, nextId, removed, flushed,
                 issued, asked>>

\* Mutant of Reset: the response table survives.
ResetKeepsInfo ==
  /\ MayReset
  /\ state # "idle"
  /\ Admitted
  /\ state' = "idle"
  /\ pending' = NoLists
  /\ active' = NoLists
  /\ installed' = Nowhere
  /\ garbled' = AllRead
  /\ epoch' = epoch + 1
  /\ flushed' = {}
  /\ UNCHANGED <<overlap, info, pc, taskVars, boundTo, nextId, calls, removed,
                 issued, asked>>

\* disconnect, or a launch that fails: reset clears every table.
Reset ==
  /\ MayReset
  /\ state # "idle"
  /\ Admitted
  /\ state' = "idle"
  /\ pending' = NoLists
  /\ active' = NoLists
  /\ info' = {}
  /\ installed' = Nowhere
  /\ garbled' = AllRead
  /\ epoch' = epoch + 1
  /\ flushed' = {}
  /\ UNCHANGED <<overlap, pc, taskVars, boundTo, nextId, calls, removed,
                 issued, asked>>

Next ==
  \/ \E t \in Tasks :
       \/ SetBreakpoint(t) \/ Branch(t) \/ AddPending(t) \/ ProposeSet(t)
       \/ RemoveBreakpoint(t) \/ Peek(t) \/ RemoveUnknown(t) \/ ProposeRemove(t)
       \/ NoBackend(t) \/ CommitList(t) \/ CommitInfo(t) \/ CommitRemove(t)
       \/ Accepted(t) \/ Malformed(t) \/ Rejected(t)
  \/ Launch
  \/ Launched
  \/ Attached
  \/ Reset

Spec == Init /\ [][Next]_vars

----------------------------------------------------------------------------
(* Properties *)

\* Every variable stays within its type.
TypeOK ==
  /\ overlap \in Overlaps
  /\ state \in {"idle", "configuring", "stopped"}
  /\ {pending, active} \subseteq [Kinds -> Seq(Keys)]
  /\ info \subseteq [id : Nat, kind : Kinds, key : Keys]
  /\ pc \in [Tasks -> PCs]
  /\ call \in [Tasks -> [op : {"none", "set", "remove"}, kind : Kinds \cup {"none"},
                         key : Keys \cup {0}, id : Nat]]
  /\ list \in [Tasks -> Seq(Keys)]
  /\ match \in [Tasks -> [id : Nat, key : Keys \cup {0}]]
  /\ installed \in [Kinds -> [Keys -> Nat]]
  /\ boundTo \in [Keys -> Keys]
  /\ {nextId, epoch, calls} \subseteq Nat
  /\ sentIn \in [Tasks -> Nat]
  /\ removed \subseteq Nat
  /\ flushed \subseteq Kinds \X Keys
  /\ issued \subseteq [id : Nat, kind : Kinds, key : Keys, asked : Keys]
  /\ asked \subseteq [id : Nat, key : Keys]
  /\ garbled \in [Kinds -> {"never", "last", "earlier"}]

Quiescent == \A t \in Tasks : pc[t] = "free"

InstalledKeys(kind) == {key \in Keys : installed[kind][key] # 0}
InstalledIds == {installed[kind][key] : kind \in Kinds, key \in Keys} \ {0}

\* Transactional update: when no call is in flight, the tracked lists are
\* exactly what the adapter has installed, whatever was rejected, bound to
\* another line, set twice, removed or flushed.  A response that cannot be read
\* leaves its kind astray until the next list is accepted.
TrackedIsInstalled ==
  ~overlap /\ Quiescent /\ state = "stopped" =>
    \A kind \in Kinds :
      garbled[kind] # "last" => ToSet(active[kind]) = InstalledKeys(kind)

\* list_breakpoints shows only breakpoints that exist: every recorded id is
\* one the adapter has, for the key recorded, as long as no line is moved and
\* every response can be read.
ListedIsInstalled ==
  ~overlap /\ Quiescent /\ (\A key \in Keys : boundTo[key] = key) =>
    \A b \in info :
      garbled[b.kind] = "never" => installed[b.kind][b.key] = b.id

\* The adapter gave the id out for this breakpoint, to the entry of the request
\* that asked for want, or to one whose line it bound to the line want.
GivenFor(b, want) ==
  \E r \in issued :
    /\ r.id = b.id /\ r.kind = b.kind /\ r.key = b.key
    /\ (r.asked = want \/ (b.kind = "source" /\ b.key = want))

\* Whatever overlaps (other calls, a launch, a disconnect), a listed id is the
\* one the adapter gave out for what the recording call itself had asked for,
\* shown with the line it was bound to or its name: of all the results in a
\* whole-list response the call has picked its own.  For a source breakpoint
\* another one that was moved to the very line asked for counts as its own,
\* since that is the one set_breakpoint looks for.
ListedIdIsItsOwn ==
  \A b \in info : \E a \in asked : a.id = b.id /\ GivenFor(b, a.key)

\* Claimed of reset (Spec FR-6.5, "all breakpoint tracking"): an idle session
\* tracks nothing but pending breakpoints.
IdleTracksNothing ==
  Quiescent /\ state = "idle" => active = NoLists /\ info = {}

\* Claimed of remove_breakpoint (removed: true): the breakpoint is gone.
RemovedIsGone == removed \cap InstalledIds = {}

\* Claimed of the transactional update: the tracked lists are what DAP
\* confirmed, when calls overlap too (and no flush does, and every response can
\* be read).
ConfirmedIsInstalled ==
  Quiescent /\ state = "stopped" /\ flushed = {} =>
    \A kind \in Kinds :
      garbled[kind] # "last" => ToSet(active[kind]) = InstalledKeys(kind)

\* Claimed of launch (Spec FR-4.4.10): each flushed breakpoint is recorded.
FlushedIsListed ==
  Quiescent /\ state = "stopped" =>
    \A kind \in Kinds, key \in Keys :
      <<kind, key>> \in flushed => \E b \in info : b.kind = kind /\ b.key = key

\* Claimed of the pending reply: the breakpoint is set by the next launch.
PendingIsFlushed ==
  Quiescent /\ flushed # {} /\ state = "stopped" =>
    \A kind \in Kinds : pending[kind] = <<>>
=============================================================================
