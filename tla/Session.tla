------------------------------ MODULE Session ------------------------------
(***************************************************************************)
(* What the session of crates/mcp-session promises to a client that makes  *)
(* one call at a time, without its calls, pumps, generations and backend   *)
(* slot: one connection is the current one from its launch to the reset,   *)
(* everything the session holds is of that connection, "stopped" and       *)
(* "terminated" are said only of a debuggee that is, an exit code comes    *)
(* with "terminated", and a reset forgets the connection and all of it in  *)
(* one step, for good.                                                     *)
(***************************************************************************)
CONSTANTS Conns, None

VARIABLES
  status,   \* the state a client sees
  current,  \* the connection the session is about
  past,     \* those it was about before
  program, code, stop,  \* program, exit code and last stop: whose they are
  fate      \* fate[k]: what has become of k's debuggee

held == <<program, code, stop>>
vars == <<status, current, past, held, fate>>

Init ==
  /\ status = "idle"
  /\ current = None
  /\ past = {}
  /\ program = None
  /\ code = None
  /\ stop = None
  /\ fate = [k \in Conns |-> "none"]

\* launch or attach begins ...
Begin ==
  /\ status = "idle"
  /\ status' = "configuring"
  /\ UNCHANGED <<current, past, held, fate>>

\* ... and has a connection, a new one.
Open(k) ==
  /\ status = "configuring"
  /\ current = None
  /\ k \notin past
  /\ current' = k
  /\ UNCHANGED <<status, past, held, fate>>

Live == current # None /\ status # "idle"

NoteProgram ==
  /\ Live
  /\ program' = current
  /\ UNCHANGED <<status, current, past, code, stop, fate>>

NoteStop ==
  /\ Live
  /\ status \in {"stopped", "terminated"}
  /\ fate[current] \in {"stopped", "gone"}
  /\ stop' = current
  /\ UNCHANGED <<status, current, past, program, code, fate>>

Run ==
  /\ Live
  /\ status' = "running"
  /\ UNCHANGED <<current, past, held, fate>>

Stop ==
  /\ Live
  /\ fate[current] \in {"stopped", "gone"}
  /\ status' = "stopped"
  /\ UNCHANGED <<current, past, held, fate>>

Terminate ==
  /\ Live
  /\ fate[current] = "gone"
  /\ status' = "terminated"
  /\ code' \in {code, current}
  /\ UNCHANGED <<current, past, program, stop, fate>>

\* A disconnect, or a launch that failed or was cancelled.
Close ==
  /\ status' = "idle"
  /\ current' = None
  /\ past' = past \cup ({current} \ {None})
  /\ program' = None
  /\ code' = None
  /\ stop' = None
  /\ UNCHANGED fate

\* A debuggee that is gone stays so.
Change(k) ==
  /\ fate[k] # "gone"
  /\ \E s \in {"stopped", "running", "gone"} : fate' = [fate EXCEPT ![k] = s]
  /\ UNCHANGED <<status, current, past, held>>

Next ==
  \/ Begin \/ NoteProgram \/ NoteStop \/ Run \/ Stop \/ Terminate \/ Close
  \/ \E k \in Conns : Open(k) \/ Change(k)

Spec == Init /\ [][Next]_vars
=============================================================================
