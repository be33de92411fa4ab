--------------------------- MODULE RequestService ---------------------------
(***************************************************************************)
(* What the DAP transport promises its callers, without sequence numbers,  *)
(* maps, channels, mutexes or bytes: every caller makes one call; a call   *)
(* gets its own answer, and only one the adapter has given; it fails only  *)
(* once the connection has ended; and what has returned stays returned,    *)
(* whatever arrives later.                                                 *)
(*                                                                         *)
(* A resume returns in two stages: its request is answered, and then an    *)
(* outcome comes (a stop, an exit, the end of the session, or another      *)
(* resume that takes its place).                                           *)
(***************************************************************************)
CONSTANT Callers

VARIABLES
  resumes,  \* the callers whose call is a resume: chosen at the start
  call,     \* call[c]: "idle", "open", "answered" (a resume that awaits its
            \* outcome), "done", "failed" or "cancelled"
  served,   \* the calls the adapter has answered
  outcome,  \* the resumes that have an outcome
  ended     \* the connection has ended

vars == <<resumes, call, served, outcome, ended>>

Init ==
  /\ resumes \subseteq Callers
  /\ call = [c \in Callers |-> "idle"]
  /\ served = {}
  /\ outcome = {}
  /\ ended = FALSE

Move(c, from, to) ==
  /\ call[c] \in from
  /\ call' = [call EXCEPT ![c] = to]
  /\ UNCHANGED <<resumes, served, outcome, ended>>

Issue(c) == Move(c, {"idle"}, "open")

\* The adapter answers a call, which its caller may have given up by then.
Serve(c) ==
  /\ call[c] # "idle"
  /\ c \notin served
  /\ served' = served \cup {c}
  /\ UNCHANGED <<resumes, call, outcome, ended>>

Complete(c) ==
  /\ c \in served
  /\ Move(c, {"open"}, IF c \in resumes THEN "answered" ELSE "done")

Finish(c) ==
  /\ c \in outcome
  /\ Move(c, {"answered"}, "done")

Fail(c) ==
  /\ ended
  /\ Move(c, {"open"}, "failed")

Cancel(c) == Move(c, {"open", "answered"}, "cancelled")

\* A resume gets its outcome, which is never taken back.
Wake(c) ==
  /\ c \in resumes
  /\ outcome' = outcome \cup {c}
  /\ UNCHANGED <<resumes, call, served, ended>>

End ==
  /\ ended' = TRUE
  /\ UNCHANGED <<resumes, call, served, outcome>>

Next ==
  \/ \E c \in Callers : \/ Issue(c) \/ Serve(c) \/ Complete(c) \/ Finish(c)
                        \/ Fail(c) \/ Cancel(c) \/ Wake(c)
  \/ End

Spec == Init /\ [][Next]_vars
=============================================================================
