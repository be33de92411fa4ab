---------------------------- MODULE OutputBuffer ----------------------------
(***************************************************************************)
(* The session's capped output buffer (crates/mcp-session, output_buffer): *)
(* the event pump appends chunks, the handlers drain them, both under one  *)
(* mutex.  The eviction loop of append is spelled out, one iteration a     *)
(* step, with the mutex held.                                              *)
(*                                                                         *)
(* A chunk is its number in the order of arrival and its size (category    *)
(* plus text).  `end' is the number of bytes appended up to and including  *)
(* it; it only serves to say what the size counter should be.              *)
(***************************************************************************)
EXTENDS Integers, Sequences

CONSTANTS
  MAX_SIZE,    \* the cap, in bytes
  Sizes,       \* the sizes a chunk may have
  MaxAppends   \* bound on the chunks of a behaviour

ASSUME OutputBufferAssumption ==
  /\ MAX_SIZE \in Nat
  /\ Sizes \subseteq Nat
  /\ MaxAppends \in Nat

VARIABLES
  entries,    \* Buffered.entries
  size,       \* Buffered.size
  truncated,  \* Buffered.truncated
  appending,  \* append holds the mutex and is in its eviction loop
  appended,   \* history: how many chunks were appended
  written,    \* history: how many bytes they had
  drained,    \* history: the chunks that drains returned
  evicted,    \* history: the chunks that were evicted
  announced   \* history: the evicted chunks a marker was returned for

historyVars == <<appended, written, drained, evicted, announced>>
vars == <<entries, size, truncated, appending, historyVars>>

Chunks == [id : Nat, size : Sizes, end : Nat]

Ids == {entries[i].id : i \in 1..Len(entries)}

Init ==
  /\ entries = <<>>
  /\ size = 0
  /\ truncated = FALSE
  /\ appending = FALSE
  /\ appended = 0
  /\ written = 0
  /\ drained = {}
  /\ evicted = {}
  /\ announced = {}

\* append, up to the loop.
Push(n) ==
  /\ ~appending
  /\ appended < MaxAppends
  /\ entries' = Append(entries, [id |-> appended + 1, size |-> n, end |-> written + n])
  /\ size' = size + n
  /\ appending' = TRUE
  /\ appended' = appended + 1
  /\ written' = written + n
  /\ UNCHANGED <<truncated, drained, evicted, announced>>

\* The condition of the loop.
OverCap == size > MAX_SIZE /\ entries # <<>>

\* Mutant of EvictOldest: the newest chunk is evicted.
EvictNewest ==
  /\ appending
  /\ OverCap
  /\ entries' = SubSeq(entries, 1, Len(entries) - 1)
  /\ size' = size - entries[Len(entries)].size
  /\ truncated' = TRUE
  /\ evicted' = evicted \cup {entries[Len(entries)].id}
  /\ UNCHANGED <<appending, appended, written, drained, announced>>

\* Mutant of EvictOldest: the flag is raised by the last eviction only.
EvictUnflagged ==
  /\ appending
  /\ OverCap
  /\ entries' = Tail(entries)
  /\ size' = size - Head(entries).size
  /\ truncated' = (Tail(entries) # <<>>)
  /\ evicted' = evicted \cup {Head(entries).id}
  /\ UNCHANGED <<appending, appended, written, drained, announced>>

EvictOldest ==
  /\ appending
  /\ OverCap
  /\ entries' = Tail(entries)
  /\ size' = size - Head(entries).size
  /\ truncated' = TRUE
  /\ evicted' = evicted \cup {Head(entries).id}
  /\ UNCHANGED <<appending, appended, written, drained, announced>>

\* The loop ends and the mutex is released.
EndAppend ==
  /\ appending
  /\ ~OverCap
  /\ appending' = FALSE
  /\ UNCHANGED <<entries, size, truncated, historyVars>>

\* drain: nothing to return, or the marker (if chunks were evicted) and all
\* the entries.
Drain ==
  /\ ~appending
  /\ entries # <<>> \/ truncated
  /\ announced' = IF truncated THEN evicted ELSE announced
  /\ truncated' = FALSE
  /\ drained' = drained \cup Ids
  /\ entries' = <<>>
  /\ size' = 0
  /\ UNCHANGED <<appending, appended, written, evicted>>

Next ==
  \/ \E n \in Sizes : Push(n)
  \/ EvictOldest
  \/ EndAppend
  \/ Drain

Spec == Init /\ [][Next]_vars

----------------------------------------------------------------------------
(* Properties *)

\* Every variable stays within its type; size is a usize, so a wrong
\* subtraction in the loop would underflow.
TypeOK ==
  /\ entries \in Seq(Chunks)
  /\ size \in Nat
  /\ truncated \in BOOLEAN
  /\ appending \in BOOLEAN
  /\ appended \in Nat
  /\ written \in Nat
  /\ drained \subseteq Nat
  /\ evicted \subseteq Nat
  /\ announced \subseteq Nat

\* Whenever the mutex is free the buffer is within its cap and its size
\* counter is exactly the bytes it holds: those from the start of its oldest
\* chunk to the end of what was appended.
CapRespected ==
  ~appending =>
    /\ size <= MAX_SIZE
    /\ entries = <<>> => size = 0
    /\ entries # <<>> => size = written - entries[1].end + entries[1].size

\* Every chunk is in exactly one place: buffered, returned by one drain, or
\* evicted; and the buffer holds the newest, in order.
EveryChunkOnce ==
  /\ Ids \cup drained \cup evicted = 1..appended
  /\ Ids \cap (drained \cup evicted) = {}
  /\ drained \cap evicted = {}
  /\ \A i \in 1..Len(entries) : entries[i].id = appended - Len(entries) + i

\* No silent loss: what was evicted has been announced by the marker of a
\* drain, or will be by the next one.
NoSilentLoss == evicted = announced \/ truncated

\* No eager eviction: a chunk goes only when the bytes buffered, the new ones
\* included, exceed the cap; a buffer exactly at its cap keeps everything.
EvictsOnlyOverCap ==
  [][evicted' # evicted =>
       written - entries[1].end + entries[1].size > MAX_SIZE]_vars
=============================================================================
