-------------------------- MODULE DapClientProofs --------------------------
(***************************************************************************)
(* Proofs about DapClient, for every set of callers and every bound on the *)
(* adapter's events: type correctness, correlation, cancel-safety of the   *)
(* pending map, completeness of the EOF recovery, no lost wakeup, and the  *)
(* refinement of RequestService.                                           *)
(***************************************************************************)
EXTENDS DapClient, TLAPS

NotSent == {"start", "seq", "register"}

\* Sequence numbers: assigned once, never twice to different callers.
SeqUnique ==
  /\ \A c \in Callers : seqOf[c] <= seq
  /\ \A c \in Callers : pc[c] \notin {"start", "seq"} => seqOf[c] > 0
  /\ \A c \in Callers : pc[c] \in {"start", "seq"} => seqOf[c] = 0
  /\ \A c, d \in Callers : seqOf[c] = seqOf[d] /\ seqOf[c] > 0 => c = d

\* A request on the wire, and an answer on its way, carry the seq of the
\* caller they belong to.
KeysMatch ==
  /\ \A c \in received : seqOf[c] > 0
  /\ \A i \in DOMAIN inbox : inbox[i].type = "response" =>
        inbox[i].key = seqOf[inbox[i].of] /\ inbox[i].key > 0

\* A caller whose channel is still empty has its sender in the map or in
\* the hands of the recovery; one whose channel is full has it in neither.
SenderHeld ==
  /\ \A c \in Callers : pc[c] \in Registered /\ rx[c] = Empty =>
        c \in pending \cup failing
  /\ \A c \in Callers : rx[c] # Empty => c \notin pending /\ c \notin failing
  /\ \A c \in Callers : pc[c] \in NotSent =>
        rx[c] = Empty /\ c \notin pending /\ c \notin failing
  /\ pending \cap failing = {}
  /\ reader # "failDrained" => failing = {}

\* An EOF, still unread or read, means a dead adapter.
EofMeansDown ==
  /\ \A i \in DOMAIN inbox : inbox[i].type = "eof" => adapter = "down"
  /\ EofRead => adapter = "down"

\* What is registered after the drain has not been written.
LateUnwritten ==
  EofRead /\ reader \in Drained =>
    \A c \in pending : pc[c] \notin {"await", "park", "both"}

----------------------------------------------------------------------------
USE DapClientAssumption

\* Taking a message leaves sequences of messages behind.
LEMMA TakeType ==
  ASSUME TypeOK, NEW T, Take(T)
  PROVE  /\ Head(inbox) \in Messages
         /\ Head(inbox).type \in T
         /\ inbox' \in Seq(Messages)
         /\ log' \in Seq(Messages)
BY DEF TypeOK, Take

\* The fields of the messages the read loop looks into.
LEMMA MessageFields ==
  ASSUME NEW m \in Messages
  PROVE  /\ m.type = "response" => m.of \in Callers /\ m.key \in Nat
         /\ m.type = "exited" => m.code \in ExitCodes
BY DEF Messages

\* Delivering a stop outcome keeps the stop waiter well typed.
LEMMA DeliverStopType ==
  ASSUME TypeOK, NEW o \in Outcomes, DeliverStop(o)
  PROVE  slot' \in Callers \cup {None} /\ stopRx' \in [Callers -> Outcomes]
BY DEF TypeOK, DeliverStop

\* Type correctness of the client: every step of a caller, of the read loop
\* and of the adapter keeps every variable in its type.
THEOREM TypeCorrect == Spec => []TypeOK
<1>1. Init => TypeOK
  <2> SUFFICES ASSUME Init PROVE TypeOK
    OBVIOUS
  <2>1. fired \in BOOLEAN /\ initRx \in [Callers -> BOOLEAN]
    BY DEF Init
  <2>2. inbox \in Seq(Messages) /\ log \in Seq(Messages)
    BY DEF Init
  <2>. QED
    BY <2>1, <2>2 DEF Init, TypeOK, PCs, Results, Outcomes, ReaderPCs
<1>2. TypeOK /\ [Next]_vars => TypeOK'
  <2> SUFFICES ASSUME TypeOK, [Next]_vars PROVE TypeOK'
    OBVIOUS
  <2>1. ASSUME NEW c \in Callers, RegisterStop(c) PROVE TypeOK'
    BY <2>1 DEF TypeOK, RegisterStop, Register, Goto, PCs, Outcomes, channelVars, initVars, wireVars, adapterVars, readerVars, sinkVars
  <2>2. ASSUME NEW c \in Callers, NextSeq(c) PROVE TypeOK'
    BY <2>2 DEF TypeOK, NextSeq, FetchAdd, Goto, PCs, channelVars, stopVars, initVars, wireVars, adapterVars, readerVars, sinkVars
  <2>3. ASSUME NEW c \in Callers, RegisterPending(c) PROVE TypeOK'
    BY <2>3 DEF TypeOK, RegisterPending, Goto, PCs, Waiting, Registered, stopVars, initVars, wireVars, adapterVars, readerVars, sinkVars
  <2>4. ASSUME NEW c \in Callers, StartWrite(c) PROVE TypeOK'
    BY <2>4 DEF TypeOK, StartWrite, Goto, PCs, Waiting, Registered, channelVars, stopVars, initVars, adapterVars, readerVars, sinkVars
  <2>5. ASSUME NEW c \in Callers, FinishWrite(c) PROVE TypeOK'
    BY <2>5 DEF TypeOK, FinishWrite, Goto, PCs, Waiting, Registered, channelVars, stopVars, initVars, readerVars, sinkVars
  <2>6. ASSUME NEW c \in Callers, FailWrite(c) PROVE TypeOK'
    BY <2>6 DEF TypeOK, FailWrite, RemovePending, Goto, PCs, Returned, stopVars, initVars, adapterVars, readerVars, sinkVars
  <2>7. ASSUME NEW c \in Callers, ReceiveResult(c) PROVE TypeOK'
    BY <2>7 DEF TypeOK, ReceiveResult, Goto, PCs, Waiting, Returned, channelVars, stopVars, initVars, wireVars, adapterVars, readerVars, sinkVars
  <2>8. ASSUME NEW c \in Callers, ReceiveStop(c) PROVE TypeOK'
    BY <2>8 DEF TypeOK, ReceiveStop, Goto, PCs, Returned, channelVars, stopVars, initVars, wireVars, adapterVars, readerVars, sinkVars
  <2>9. ASSUME NEW c \in Callers, WaitInitialized(c) PROVE TypeOK'
    BY <2>9 DEF TypeOK, WaitInitialized, Goto, PCs, Waiting, Registered, channelVars, stopVars, wireVars, adapterVars, readerVars, sinkVars
  <2>10. ASSUME NEW c \in Callers, ReceiveBoth(c) PROVE TypeOK'
    BY <2>10 DEF TypeOK, ReceiveBoth, Goto, PCs, Returned, channelVars, stopVars, initVars, wireVars, adapterVars, readerVars, sinkVars
  <2>11. ASSUME NEW c \in Callers, Cancel(c) PROVE TypeOK'
    BY <2>11 DEF TypeOK, Cancel, DropGuard, RemovePending, PCs, Returned, stopVars, initVars, adapterVars, readerVars, sinkVars
  <2>12. ASSUME NEW c \in Callers, Respond(c) PROVE TypeOK'
    BY <2>12 DEF TypeOK, Respond, Emit, Response, Messages, callerVars, channelVars, stopVars, initVars, wireVars, readerVars, sinkVars
  <2>13. CASE DispatchResponse
    <3>1. Take({"response"})
      BY <2>13 DEF DispatchResponse
    <3>2. /\ Answer(Head(inbox)) \in Results
          /\ inbox' \in Seq(Messages)
          /\ log' \in Seq(Messages)
      BY <3>1, TakeType, MessageFields DEF Answer, Results
    <3>3. pending' \subseteq Callers /\ rx' \in [Callers -> Results]
      <4>1. CASE \E c \in pending : pending' = pending \ {c} /\ Send(c, Answer(Head(inbox)))
        BY <3>2, <4>1 DEF TypeOK, Send
      <4>2. CASE UNCHANGED channelVars
        BY <4>2 DEF TypeOK, channelVars
      <4>. QED
        BY <2>13, <4>1, <4>2 DEF DispatchResponse
    <3>. QED
      BY <2>13, <3>2, <3>3 DEF TypeOK, DispatchResponse, callerVars, stopVars, initVars, wireVars, adapterVars, readerVars, sinkVars
  <2>14. CASE DispatchStopped
    BY <2>14, TakeType, DeliverStopType DEF TypeOK, DispatchStopped, Outcomes, callerVars, channelVars, initVars, wireVars, adapterVars, readerVars, sinkVars
  <2>15. CASE DispatchInitialized
    BY <2>15, TakeType DEF TypeOK, DispatchInitialized, callerVars, channelVars, stopVars, wireVars, adapterVars, readerVars, sinkVars
  <2>16. CASE DispatchOther
    BY <2>16, TakeType DEF TypeOK, DispatchOther, callerVars, channelVars, stopVars, initVars, wireVars, adapterVars, readerVars, sinkVars
  <2>17. CASE RecordExit
    <3>1. Take({"exited"})
      BY <2>17 DEF RecordExit
    <3>2. lastExit' \in ExitCodes
      BY <2>17, <3>1, TakeType, MessageFields DEF RecordExit
    <3>. QED
      BY <2>17, <3>1, <3>2, TakeType DEF TypeOK, RecordExit, ReaderPCs, callerVars, channelVars, stopVars, initVars, wireVars, adapterVars
  <2>18. CASE DeliverExit
    BY <2>18, DeliverStopType DEF TypeOK, DeliverExit, Outcomes, ReaderPCs, callerVars, channelVars, initVars, wireVars, adapterVars, sinkVars
  <2>19. CASE DispatchTerminated
    BY <2>19, TakeType DEF TypeOK, DispatchTerminated, FireTerminated, ReaderPCs, callerVars, channelVars, stopVars, initVars, wireVars, adapterVars
  <2>20. CASE CancelStop
    BY <2>20, DeliverStopType DEF TypeOK, CancelStop, Outcomes, ReaderPCs, callerVars, channelVars, initVars, wireVars, adapterVars, sinkVars
  <2>21. CASE ReadError
    BY <2>21, TakeType DEF TypeOK, ReadError, ReaderPCs, callerVars, channelVars, stopVars, initVars, wireVars, adapterVars, sinkVars
  <2>22. CASE DrainPending
    BY <2>22 DEF TypeOK, DrainPending, ReaderPCs, callerVars, stopVars, initVars, wireVars, adapterVars, sinkVars
  <2>23. CASE FailDrained
    BY <2>23 DEF TypeOK, FailDrained, ReaderPCs, Results, callerVars, stopVars, initVars, wireVars, adapterVars, sinkVars
  <2>24. CASE RecoverStop
    BY <2>24, DeliverStopType DEF TypeOK, RecoverStop, Outcomes, ReaderPCs, callerVars, channelVars, initVars, wireVars, adapterVars, sinkVars
  <2>25. CASE RecoverTerminated
    BY <2>25 DEF TypeOK, RecoverTerminated, FireTerminated, ReaderPCs, callerVars, channelVars, stopVars, initVars, wireVars, adapterVars
  <2>26. CASE EmitEvent
    <3>1. PICK m \in EventMessages : Emit(m)
      BY <2>26 DEF EmitEvent
    <3>2. m \in Messages
      BY DEF TypeOK, EventMessages, StoppedBy, ExitedWith, Plain, Messages
    <3>. QED
      BY <2>26, <3>1, <3>2 DEF TypeOK, EmitEvent, Emit, callerVars, channelVars, stopVars, initVars, wireVars, readerVars, sinkVars
  <2>27. CASE EmitMalformed
    BY <2>27 DEF TypeOK, EmitMalformed, Emit, Plain, Messages, callerVars, channelVars, stopVars, initVars, wireVars, readerVars, sinkVars
  <2>28. CASE Die
    BY <2>28 DEF TypeOK, Die, Emit, Plain, Messages, callerVars, channelVars, stopVars, initVars, wireVars, readerVars, sinkVars
  <2>29. CASE UNCHANGED vars
    BY <2>29 DEF TypeOK, vars, callerVars, channelVars, stopVars, initVars, wireVars, adapterVars, readerVars, sinkVars
  <2>. QED
    BY <2>1, <2>2, <2>3, <2>4, <2>5, <2>6, <2>7, <2>8, <2>9, <2>10, <2>11,
       <2>12, <2>13, <2>14, <2>15, <2>16, <2>17, <2>18, <2>19, <2>20, <2>21,
       <2>22, <2>23, <2>24, <2>25, <2>26, <2>27, <2>28, <2>29
       DEF Next, Call, Read
<1>. QED
  BY <1>1, <1>2, PTL DEF Spec

----------------------------------------------------------------------------
(* Correlation *)

\* What is left in the adapter's stdout was there before.
LEMMA TakeElements ==
  ASSUME TypeOK, NEW T, Take(T)
  PROVE  /\ 1 \in DOMAIN inbox /\ Head(inbox) = inbox[1]
         /\ \A i \in DOMAIN inbox' : i + 1 \in DOMAIN inbox /\ inbox'[i] = inbox[i + 1]
BY DEF TypeOK, Take

\* The history grows by the message taken, if by any.
LEMMA TakeLogs ==
  ASSUME TypeOK, NEW T, Take(T)
  PROVE  \A i \in DOMAIN log' :
           (i \in DOMAIN log /\ log'[i] = log[i]) \/ log'[i] = Head(inbox)
BY DEF TypeOK, Take

\* Emitting adds one message at the end.
LEMMA EmitElements ==
  ASSUME TypeOK, NEW m, Emit(m)
  PROVE  \A i \in DOMAIN inbox' :
           (i \in DOMAIN inbox /\ inbox'[i] = inbox[i]) \/ inbox'[i] = m
BY DEF TypeOK, Emit

CorrelationInv == SeqUnique /\ KeysMatch /\ ResponseMatchesRequest

\* Taking a message keeps the keys of the others.
LEMMA TakeKeys ==
  ASSUME TypeOK, KeysMatch, NEW T, Take(T), UNCHANGED <<received, seqOf>>
  PROVE  KeysMatch'
BY TakeElements DEF KeysMatch

\* Emitting a message that is no response keeps the keys of the others.
LEMMA EmitKeys ==
  ASSUME TypeOK, KeysMatch, NEW m, Emit(m), UNCHANGED <<received, seqOf>>,
         m.type = "response" => m.key = seqOf[m.of] /\ m.key > 0
  PROVE  KeysMatch'
BY EmitElements DEF KeysMatch

\* The correlation invariant is inductive.
LEMMA CorrelationStep ==
  ASSUME TypeOK, CorrelationInv, [Next]_vars
  PROVE  CorrelationInv'
<1> USE DEF CorrelationInv
<1>1. ASSUME NEW c \in Callers, NextSeq(c) PROVE CorrelationInv'
  <2>1. seqOf' = [seqOf EXCEPT ![c] = seq + 1] /\ seq' = seq + 1 /\ seqOf[c] = 0
    BY <1>1 DEF NextSeq, FetchAdd, Goto, SeqUnique
  <2>2. SeqUnique'
    BY <1>1, <2>1 DEF TypeOK, NextSeq, Goto, SeqUnique
  <2>3. KeysMatch'
    <3>1. c \notin received
      BY <2>1 DEF KeysMatch
    <3>2. \A i \in DOMAIN inbox : inbox[i].type = "response" =>
             inbox[i].of \in Callers /\ inbox[i].of # c
      <4>1. \A i \in DOMAIN inbox : inbox[i] \in Messages
        BY DEF TypeOK
      <4>. QED
        BY <2>1, <4>1, MessageFields DEF KeysMatch
    <3>. QED
      BY <1>1, <2>1, <3>1, <3>2 DEF TypeOK, NextSeq, KeysMatch, adapterVars
  <2>. QED
    BY <1>1, <2>2, <2>3 DEF NextSeq, ResponseMatchesRequest, channelVars
<1>2. ASSUME NEW c \in Callers,
             \/ RegisterStop(c) \/ RegisterPending(c) \/ StartWrite(c)
             \/ FailWrite(c) \/ ReceiveResult(c) \/ ReceiveStop(c)
             \/ WaitInitialized(c) \/ ReceiveBoth(c) \/ Cancel(c)
      PROVE  CorrelationInv'
  <2>1. /\ UNCHANGED <<seq, seqOf, rx, received, inbox>>
        /\ \A d \in Callers : pc'[d] \in {"start", "seq"} <=> pc[d] \in {"start", "seq"}
    BY <1>2 DEF TypeOK, RegisterStop, RegisterPending, StartWrite, FailWrite,
       ReceiveResult, ReceiveStop, WaitInitialized, ReceiveBoth, Cancel, Goto,
       Waiting, Registered, channelVars, adapterVars
  <2>. QED
    BY <2>1 DEF SeqUnique, KeysMatch, ResponseMatchesRequest
<1>3. ASSUME NEW c \in Callers, FinishWrite(c) PROVE CorrelationInv'
  <2>1. /\ UNCHANGED <<seq, seqOf, rx, inbox>>
        /\ received' \subseteq received \cup {c}
        /\ pc[c] \notin {"start", "seq"}
        /\ \A d \in Callers : pc'[d] \in {"start", "seq"} <=> pc[d] \in {"start", "seq"}
    BY <1>3 DEF TypeOK, FinishWrite, Goto, channelVars
  <2>. QED
    BY <2>1 DEF SeqUnique, KeysMatch, ResponseMatchesRequest
<1>4. CASE DispatchResponse
  <2>1. Take({"response"}) /\ UNCHANGED <<pc, seq, seqOf, received>>
    BY <1>4 DEF DispatchResponse, callerVars, adapterVars
  <2>2. SeqUnique' /\ KeysMatch'
    BY <2>1, TakeKeys DEF SeqUnique
  <2>3. /\ Head(inbox).of \in Callers
        /\ Head(inbox).key = seqOf[Head(inbox).of]
        /\ Head(inbox).key > 0
    BY <2>1, TakeType, TakeElements, MessageFields DEF KeysMatch
  <2>4. ResponseMatchesRequest'
    <3>1. ASSUME NEW c \in pending, seqOf[c] = Head(inbox).key,
                 Send(c, Answer(Head(inbox)))
          PROVE  ResponseMatchesRequest'
      <4>1. Head(inbox).of = c
        BY <2>3, <3>1 DEF SeqUnique, TypeOK
      <4>. QED
        BY <3>1, <4>1 DEF TypeOK, Send, Answer, ResponseMatchesRequest
    <3>. QED
      BY <1>4, <3>1 DEF DispatchResponse, ResponseMatchesRequest, channelVars
  <2>. QED
    BY <2>2, <2>4
<1>5. CASE \/ DispatchStopped \/ DispatchInitialized \/ DispatchOther
           \/ RecordExit \/ DispatchTerminated \/ ReadError
  <2>1. /\ \E T : Take(T)
        /\ UNCHANGED <<pc, seq, seqOf, rx, received>>
    BY <1>5 DEF DispatchStopped, DispatchInitialized, DispatchOther, RecordExit,
       DispatchTerminated, ReadError, callerVars, channelVars, adapterVars
  <2>. QED
    BY <2>1, TakeKeys DEF SeqUnique, ResponseMatchesRequest
<1>6. CASE \/ DeliverExit \/ CancelStop \/ DrainPending \/ RecoverStop
           \/ RecoverTerminated \/ UNCHANGED vars
  <2>1. UNCHANGED <<pc, seq, seqOf, rx, received, inbox>>
    BY <1>6 DEF DeliverExit, CancelStop, DrainPending, RecoverStop,
       RecoverTerminated, vars, callerVars, channelVars, adapterVars
  <2>. QED
    BY <2>1 DEF SeqUnique, KeysMatch, ResponseMatchesRequest
<1>7. CASE FailDrained
  <2>1. UNCHANGED <<pc, seq, seqOf, received, inbox>>
    BY <1>7 DEF FailDrained, callerVars, adapterVars
  <2>2. ResponseMatchesRequest'
    BY <1>7 DEF FailDrained, Closed, TypeOK, ResponseMatchesRequest
  <2>. QED
    BY <2>1, <2>2 DEF SeqUnique, KeysMatch
<1>8. ASSUME NEW c \in Callers, Respond(c) PROVE CorrelationInv'
  <2>1. Emit(Response(c)) /\ UNCHANGED <<pc, seq, seqOf, rx, received>> /\ seqOf[c] > 0
    BY <1>8 DEF Respond, KeysMatch, callerVars, channelVars
  <2>2. Response(c).key = seqOf[Response(c).of] /\ Response(c).key > 0
    BY <2>1 DEF Response
  <2>. QED
    BY <2>1, <2>2, EmitKeys DEF SeqUnique, ResponseMatchesRequest
<1>9. CASE EmitEvent \/ EmitMalformed \/ Die
  <2>1. UNCHANGED <<pc, seq, seqOf, rx, received>>
    BY <1>9 DEF EmitEvent, EmitMalformed, Die, callerVars, channelVars
  <2>2. PICK m : Emit(m) /\ m.type # "response"
    BY <1>9 DEF EmitEvent, EmitMalformed, Die, EventMessages, StoppedBy, ExitedWith, Plain
  <2>. QED
    BY <2>1, <2>2, EmitKeys DEF SeqUnique, ResponseMatchesRequest
<1>. QED
  BY <1>1, <1>2, <1>3, <1>4, <1>5, <1>6, <1>7, <1>8, <1>9 DEF Next, Call, Read

\* Correlation: a caller only ever receives the answer to its own request,
\* for any number of callers, any order of answers and any cancellation.
THEOREM ResponsesCorrelate == Spec => []ResponseMatchesRequest
<1>1. Init => CorrelationInv
  BY DEF Init, CorrelationInv, SeqUnique, KeysMatch, ResponseMatchesRequest, Empty
<1>2. TypeOK /\ CorrelationInv /\ [Next]_vars => CorrelationInv'
  BY CorrelationStep
<1>3. CorrelationInv => ResponseMatchesRequest
  BY DEF CorrelationInv
<1>. QED
  BY <1>1, <1>2, <1>3, TypeCorrect, PTL DEF Spec

----------------------------------------------------------------------------
(* The pending map and the recovery *)

PendingInv == SenderHeld /\ NoOrphanedEntry

\* Removing c's entry removes no other: keys are unique.
LEMMA RemoveOnlyOwn ==
  ASSUME TypeOK, SeqUnique, NEW c \in Callers, pc[c] \notin {"start", "seq"},
         RemovePending(c)
  PROVE  pending' = pending \ {c}
BY DEF TypeOK, SeqUnique, RemovePending

\* Every sender is where it must be, and no entry outlives its caller.
LEMMA PendingStep ==
  ASSUME TypeOK, SeqUnique, PendingInv, [Next]_vars
  PROVE  PendingInv'
<1> USE DEF PendingInv
<1>1. ASSUME NEW c \in Callers, RegisterStop(c) \/ NextSeq(c) PROVE PendingInv'
  <2>1. /\ UNCHANGED <<pending, rx, failing, reader, op>>
        /\ pc[c] \in NotSent /\ pc' = [pc EXCEPT ![c] = pc'[c]] /\ pc'[c] \in NotSent
    BY <1>1 DEF TypeOK, RegisterStop, NextSeq, Goto, NotSent, channelVars, readerVars
  <2>. QED
    BY <2>1 DEF TypeOK, SenderHeld, NoOrphanedEntry, NotSent, Registered
<1>2. ASSUME NEW c \in Callers, RegisterPending(c) PROVE PendingInv'
  <2>1. pending' = pending \cup {c}
    BY <1>2 DEF TypeOK, RegisterPending, Goto, SeqUnique
  <2>. QED
    BY <1>2, <2>1 DEF TypeOK, RegisterPending, Goto, SenderHeld, NoOrphanedEntry, NotSent, Registered, readerVars
<1>3. ASSUME NEW c \in Callers, StartWrite(c) \/ FinishWrite(c) \/ WaitInitialized(c)
      PROVE  PendingInv'
  <2>1. /\ UNCHANGED <<pending, rx, failing, reader, op>>
        /\ pc[c] \in Registered /\ pc' = [pc EXCEPT ![c] = pc'[c]] /\ pc'[c] \in Registered
    BY <1>3 DEF TypeOK, StartWrite, FinishWrite, WaitInitialized, Goto, Registered, channelVars, readerVars
  <2>. QED
    BY <2>1 DEF TypeOK, SenderHeld, NoOrphanedEntry, NotSent, Registered
<1>4. ASSUME NEW c \in Callers, FailWrite(c) PROVE PendingInv'
  <2>1. pending' = pending \ {c}
    BY <1>4, RemoveOnlyOwn DEF FailWrite, Goto
  <2>. QED
    BY <1>4, <2>1 DEF TypeOK, FailWrite, Goto, SenderHeld, NoOrphanedEntry, NotSent, Registered, readerVars
<1>5. ASSUME NEW c \in Callers, ReceiveResult(c) \/ ReceiveStop(c) \/ ReceiveBoth(c)
      PROVE  PendingInv'
  <2>1. /\ UNCHANGED <<pending, rx, failing, reader, op>>
        /\ pc' = [pc EXCEPT ![c] = pc'[c]] /\ pc'[c] \in {"ok", "failed", "stopWait"}
        /\ c \notin pending
    BY <1>5 DEF TypeOK, ReceiveResult, ReceiveStop, ReceiveBoth, Goto, SenderHeld,
       NoOrphanedEntry, Registered, channelVars, readerVars
  <2>. QED
    BY <2>1 DEF TypeOK, SenderHeld, NoOrphanedEntry, NotSent, Registered
<1>6. ASSUME NEW c \in Callers, Cancel(c) PROVE PendingInv'
  <2>1. /\ UNCHANGED <<rx, failing, reader, op>>
        /\ pc' = [pc EXCEPT ![c] = "cancelled"]
        /\ pc[c] \notin NotSent
    BY <1>6 DEF Cancel, Waiting, Registered, NotSent, readerVars
  <2>2. \/ pending' = pending /\ op[c] = "both"
        \/ pending' = pending \ {c}
    <3>1. RemovePending(c) => pending' = pending \ {c}
      BY <2>1, RemoveOnlyOwn DEF NotSent
    <3>. QED
      BY <1>6, <3>1 DEF Cancel, DropGuard
  <2>. QED
    BY <2>1, <2>2 DEF TypeOK, SenderHeld, NoOrphanedEntry, NotSent, Registered
<1>7. CASE DispatchResponse
  <2>1. UNCHANGED <<pc, op, failing, reader>> /\ reader # "failDrained"
    BY <1>7 DEF DispatchResponse, Take, callerVars, readerVars
  <2>2. ASSUME NEW c \in pending, pending' = pending \ {c}, Send(c, Answer(Head(inbox)))
        PROVE  PendingInv'
    <3>1. Answer(Head(inbox)) # Empty
      BY DEF Answer, Empty
    <3>2. c \in Callers /\ failing = {}
      BY <2>1 DEF TypeOK, SenderHeld
    <3>. QED
      BY <2>1, <2>2, <3>1, <3>2 DEF TypeOK, Send, SenderHeld, NoOrphanedEntry, NotSent, Registered
  <2>3. CASE UNCHANGED channelVars
    BY <2>1, <2>3 DEF SenderHeld, NoOrphanedEntry, channelVars
  <2>. QED
    BY <1>7, <2>2, <2>3 DEF DispatchResponse
<1>8. CASE DrainPending
  BY <1>8 DEF TypeOK, DrainPending, SenderHeld, NoOrphanedEntry, callerVars
<1>9. CASE FailDrained
  <2>1. Closed # Empty
    BY DEF Closed, Empty
  <2>. QED
    BY <1>9, <2>1 DEF TypeOK, FailDrained, SenderHeld, NoOrphanedEntry, NotSent, Registered, callerVars
<1>10. CASE \/ DispatchStopped \/ DispatchInitialized \/ DispatchOther
            \/ RecordExit \/ DeliverExit \/ DispatchTerminated \/ CancelStop
            \/ ReadError \/ RecoverStop \/ RecoverTerminated
  <2>1. /\ UNCHANGED <<pc, op, pending, rx, failing>>
        /\ reader # "failDrained" /\ reader' # "failDrained"
    BY <1>10 DEF DispatchStopped, DispatchInitialized, DispatchOther, RecordExit,
       DeliverExit, DispatchTerminated, CancelStop, ReadError, RecoverStop,
       RecoverTerminated, Take, callerVars, channelVars, readerVars
  <2>. QED
    BY <2>1 DEF SenderHeld, NoOrphanedEntry
<1>11. CASE \/ EmitEvent \/ EmitMalformed \/ Die \/ UNCHANGED vars
            \/ \E c \in Callers : Respond(c)
  <2>1. UNCHANGED <<pc, op, pending, rx, failing, reader>>
    BY <1>11 DEF EmitEvent, EmitMalformed, Die, Respond, vars, callerVars, channelVars, readerVars
  <2>. QED
    BY <2>1 DEF SenderHeld, NoOrphanedEntry
<1>. QED
  BY <1>1, <1>2, <1>3, <1>4, <1>5, <1>6, <1>7, <1>8, <1>9, <1>10, <1>11
     DEF Next, Call, Read

\* The pending map is empty but for callers still waiting for it.
LEMMA PendingCorrect == Spec => [](SeqUnique /\ PendingInv)
<1>1. Init => CorrelationInv /\ PendingInv
  BY DEF Init, CorrelationInv, SeqUnique, KeysMatch, ResponseMatchesRequest,
     PendingInv, SenderHeld, NoOrphanedEntry, Registered, Empty
<1>2. TypeOK /\ CorrelationInv /\ PendingInv /\ [Next]_vars => (CorrelationInv /\ PendingInv)'
  BY CorrelationStep, PendingStep DEF CorrelationInv
<1>3. CorrelationInv => SeqUnique
  BY DEF CorrelationInv
<1>. QED
  BY <1>1, <1>2, <1>3, TypeCorrect, PTL DEF Spec

\* Cancel-safety: dropping a send at any await point, a failed write, an
\* answer and the recovery all leave no entry without a waiting caller.
THEOREM PendingNeverOrphaned == Spec => []NoOrphanedEntry
<1>1. PendingInv => NoOrphanedEntry
  BY DEF PendingInv
<1>. QED
  BY <1>1, PendingCorrect, PTL

RecoveryInv == EofMeansDown /\ LateUnwritten

\* An EOF is the last thing a dead adapter sends, and what is registered
\* after the drain can no longer be written.
LEMMA RecoveryStep ==
  ASSUME TypeOK, PendingInv, RecoveryInv, [Next]_vars
  PROVE  RecoveryInv'
<1> USE DEF RecoveryInv
<1>1. ASSUME NEW c \in Callers,
             \/ RegisterStop(c) \/ NextSeq(c) \/ RegisterPending(c)
             \/ StartWrite(c) \/ FailWrite(c) \/ ReceiveResult(c)
             \/ ReceiveStop(c) \/ ReceiveBoth(c) \/ Cancel(c)
      PROVE  RecoveryInv'
  <2>1. /\ UNCHANGED <<inbox, log, adapter, reader>>
        /\ pending' \subseteq pending \cup {c}
        /\ pc' = [pc EXCEPT ![c] = pc'[c]]
        /\ pc'[c] \notin {"await", "park", "both"}
    BY <1>1 DEF TypeOK, RegisterStop, NextSeq, RegisterPending, StartWrite, FailWrite,
       ReceiveResult, ReceiveStop, ReceiveBoth, Cancel, DropGuard, RemovePending,
       Goto, channelVars, adapterVars, readerVars
  <2>. QED
    BY <2>1 DEF TypeOK, EofMeansDown, LateUnwritten, EofRead
<1>2. ASSUME NEW c \in Callers, FinishWrite(c) PROVE RecoveryInv'
  BY <1>2 DEF FinishWrite, EofMeansDown, LateUnwritten, EofRead
<1>3. ASSUME NEW c \in Callers, WaitInitialized(c) PROVE RecoveryInv'
  <2>1. /\ UNCHANGED <<inbox, log, adapter, reader, pending>>
        /\ pc[c] = "park" /\ pc' = [pc EXCEPT ![c] = "both"]
    BY <1>3 DEF WaitInitialized, Goto, channelVars, adapterVars, readerVars
  <2>. QED
    BY <2>1 DEF TypeOK, EofMeansDown, LateUnwritten, EofRead
<1>4. CASE \/ DispatchResponse \/ DispatchStopped \/ DispatchInitialized
           \/ DispatchOther \/ RecordExit \/ DispatchTerminated
  <2>1. PICK T : Take(T) /\ "eof" \notin T
    BY <1>4 DEF DispatchResponse, DispatchStopped, DispatchInitialized, DispatchOther,
       RecordExit, DispatchTerminated
  <2>2. /\ UNCHANGED adapter
        /\ reader' \in {"reading", "deliverExit", "cancelStop"}
    BY <1>4 DEF DispatchResponse, DispatchStopped, DispatchInitialized, DispatchOther,
       RecordExit, DispatchTerminated, Take, adapterVars, readerVars
  <2>3. EofRead' => EofRead
    BY <2>1, TakeType, TakeLogs DEF EofRead
  <2>. QED
    BY <2>1, <2>2, <2>3, TakeElements DEF EofMeansDown, LateUnwritten, Drained
<1>5. CASE ReadError
  <2>1. /\ Take({"eof", "malformed"}) /\ UNCHANGED adapter /\ reader' = "drain"
    BY <1>5 DEF ReadError, adapterVars
  <2>2. EofRead' => adapter = "down"
    BY <2>1, TakeElements, TakeLogs DEF EofRead, EofMeansDown
  <2>. QED
    BY <2>1, <2>2, TakeElements DEF EofMeansDown, LateUnwritten, Drained
<1>6. CASE DrainPending
  BY <1>6 DEF DrainPending, EofMeansDown, LateUnwritten, EofRead, adapterVars
<1>7. CASE \/ DeliverExit \/ CancelStop \/ FailDrained \/ RecoverStop
           \/ RecoverTerminated
  <2>1. /\ UNCHANGED <<inbox, log, adapter, pending, pc>>
        /\ reader \in Drained \/ reader' = "reading"
    BY <1>7 DEF DeliverExit, CancelStop, FailDrained, RecoverStop, RecoverTerminated,
       Drained, callerVars, channelVars, adapterVars
  <2>. QED
    BY <2>1 DEF EofMeansDown, LateUnwritten, EofRead, Drained
<1>8. CASE Die
  <2>1. Emit(Plain("eof")) /\ adapter' = "down" /\ UNCHANGED <<log, reader, pending, pc>>
    BY <1>8 DEF Die, callerVars, channelVars, readerVars
  <2>. QED
    BY <2>1 DEF EofMeansDown, LateUnwritten, EofRead
<1>9. CASE \/ EmitEvent \/ EmitMalformed \/ \E c \in Callers : Respond(c)
  <2>1. UNCHANGED <<log, adapter, reader, pending, pc>>
    BY <1>9 DEF EmitEvent, EmitMalformed, Respond, callerVars, channelVars, readerVars
  <2>2. PICK m : Emit(m) /\ m.type # "eof"
    <3>1. CASE EmitEvent
      BY <3>1 DEF EmitEvent, EventMessages, StoppedBy, ExitedWith, Plain
    <3>2. CASE EmitMalformed
      BY <3>2 DEF EmitMalformed, Plain
    <3>3. ASSUME NEW c \in Callers, Respond(c)
          PROVE  Emit(Response(c)) /\ Response(c).type = "response"
      BY <3>3 DEF Respond, Response
    <3>. QED
      BY <1>9, <3>1, <3>2, <3>3
  <2>. QED
    BY <2>1, <2>2, EmitElements DEF EofMeansDown, LateUnwritten, EofRead
<1>10. CASE UNCHANGED vars
  BY <1>10 DEF vars, callerVars, channelVars, adapterVars, readerVars, EofMeansDown, LateUnwritten, EofRead
<1>. QED
  BY <1>1, <1>2, <1>3, <1>4, <1>5, <1>6, <1>7, <1>8, <1>9, <1>10 DEF Next, Call, Read

\* Completeness of the EOF recovery: when the read loop has ended at an EOF,
\* no caller that got its request out is left without a result once the
\* drained senders have been failed, including one that registered late.
THEOREM RecoveryStrandsNobody == Spec => []NoStrandedSend
<1>1. Init => RecoveryInv
  BY DEF Init, RecoveryInv, EofMeansDown, LateUnwritten, EofRead, Drained
<1>2. TypeOK /\ (SeqUnique /\ PendingInv) /\ RecoveryInv /\ [Next]_vars => RecoveryInv'
  BY RecoveryStep
<1>3. (SeqUnique /\ PendingInv) /\ RecoveryInv => NoStrandedSend
  BY DEF PendingInv, RecoveryInv, SenderHeld, LateUnwritten, NoStrandedSend, Registered, Drained
<1>. QED
  BY <1>1, <1>2, <1>3, TypeCorrect, PendingCorrect, PTL DEF Spec

----------------------------------------------------------------------------
(* DapClient implements RequestService, and no wakeup is lost *)

\* The connection has ended: what the refinement mapping substitutes.
Ended == adapter = "down" \/ \E i \in DOMAIN log : log[i].type = "malformed"

\* A client has one dual-await, and only it parks; only resumes register.
OneDualAwait ==
  /\ \A c, d \in Callers : op[c] = "both" /\ op[d] = "both" => c = d
  /\ \A c \in Callers : pc[c] \in {"park", "both"} => op[c] = "both"
SlotIsAResume == slot # None => op[slot] = "resume"

\* A blocked resume is in the stop slot, a parked dual-await in the latch.
WakeInv ==
  /\ \A c \in Callers :
       op[c] = "resume" /\ pc[c] \in {"seq", "register"} \cup Waiting
         /\ stopRx[c] = "empty" => slot = c
  /\ \A c \in Callers : pc[c] = "both" /\ ~initRx[c] => ~fired /\ initWaiter = c

ShapeInv == OneDualAwait /\ SlotIsAResume /\ WakeInv


\* Delivering an outcome empties the slot and fills the channel it held.
LEMMA DeliverWakes ==
  ASSUME TypeOK, ShapeInv, NEW o \in Outcomes \ {"empty"}, DeliverStop(o),
         UNCHANGED <<op, pc, initVars>>
  PROVE  ShapeInv'
<1>1. slot' = None /\ \A c \in Callers : stopRx'[c] = "empty" => stopRx[c] = "empty" /\ c # slot
  BY DEF DeliverStop, TypeOK
<1>. QED
  BY <1>1 DEF ShapeInv, OneDualAwait, SlotIsAResume, WakeInv, initVars

\* The invariant behind the wakeups is inductive.
LEMMA ShapeStep ==
  ASSUME TypeOK, ShapeInv, [Next]_vars
  PROVE  ShapeInv'
<1> USE DEF ShapeInv
<1>1. ASSUME NEW c \in Callers, RegisterStop(c) PROVE ShapeInv'
  <2>1. /\ op[c] = "resume" /\ slot' = c
        /\ pc' = [pc EXCEPT ![c] = "seq"] /\ UNCHANGED <<op, initVars>>
        /\ \A d \in Callers : stopRx'[d] = "empty" => stopRx[d] = "empty" /\ d # slot
    BY <1>1 DEF TypeOK, RegisterStop, Register, Goto
  <2>2. OneDualAwait' /\ SlotIsAResume'
    BY <1>1, <2>1 DEF TypeOK, OneDualAwait, SlotIsAResume
  <2>3. WakeInv'
    BY <2>1 DEF TypeOK, WakeInv, initVars
  <2>. QED
    BY <2>2, <2>3
<1>2. ASSUME NEW c \in Callers,
             \/ NextSeq(c) \/ RegisterPending(c) \/ StartWrite(c) \/ FinishWrite(c)
             \/ FailWrite(c) \/ ReceiveResult(c) \/ ReceiveStop(c)
             \/ ReceiveBoth(c) \/ Cancel(c)
      PROVE  ShapeInv'
  <2>1. /\ UNCHANGED <<op, stopVars, initVars>>
        /\ pc' = [pc EXCEPT ![c] = pc'[c]]
        /\ pc'[c] # "both"
        /\ pc'[c] = "park" => op[c] = "both"
        /\ pc'[c] \in {"seq", "register"} \cup Waiting /\ op[c] = "resume" =>
             pc[c] \in {"seq", "register"} \cup Waiting
    BY <1>2 DEF TypeOK, NextSeq, RegisterPending, StartWrite, FinishWrite, FailWrite,
       ReceiveResult, ReceiveStop, ReceiveBoth, Cancel, Goto, Waiting, Registered
  <2>2. OneDualAwait' /\ SlotIsAResume'
    BY <2>1 DEF TypeOK, OneDualAwait, SlotIsAResume, stopVars
  <2>3. WakeInv'
    BY <2>1 DEF TypeOK, WakeInv, stopVars, initVars
  <2>. QED
    BY <2>2, <2>3
<1>3. ASSUME NEW c \in Callers, WaitInitialized(c) PROVE ShapeInv'
  <2>1. /\ UNCHANGED <<op, stopVars, fired>>
        /\ pc[c] = "park" /\ pc' = [pc EXCEPT ![c] = "both"] /\ op[c] = "both"
    BY <1>3 DEF WaitInitialized, Goto, OneDualAwait
  <2>2. OneDualAwait' /\ SlotIsAResume'
    BY <2>1 DEF TypeOK, OneDualAwait, SlotIsAResume, stopVars
  <2>3. \A d \in Callers \ {c} : pc'[d] # "both"
    BY <2>1 DEF TypeOK, OneDualAwait
  <2>4. ~initRx'[c] => ~fired /\ initWaiter' = c
    BY <1>3 DEF TypeOK, WaitInitialized
  <2>5. WakeInv'
    BY <2>1, <2>3, <2>4 DEF TypeOK, WakeInv, stopVars
  <2>. QED
    BY <2>2, <2>5
<1>4. CASE DispatchStopped \/ DeliverExit \/ CancelStop \/ RecoverStop
  <2>1. UNCHANGED <<op, pc, initVars>> /\ \E o \in Outcomes \ {"empty"} : DeliverStop(o)
    BY <1>4 DEF DispatchStopped, DeliverExit, CancelStop, RecoverStop, Outcomes, callerVars
  <2>. QED
    BY <2>1, DeliverWakes
<1>5. CASE DispatchInitialized
  <2>1. /\ UNCHANGED <<op, pc, stopVars>>
        /\ \A c \in Callers : ~initRx'[c] => ~initRx[c] /\ c # initWaiter
    BY <1>5 DEF TypeOK, DispatchInitialized, callerVars
  <2>. QED
    BY <2>1 DEF OneDualAwait, SlotIsAResume, WakeInv, stopVars
<1>6. CASE \/ DispatchResponse \/ DispatchOther \/ RecordExit \/ DispatchTerminated
           \/ ReadError \/ DrainPending \/ FailDrained \/ RecoverTerminated
           \/ EmitEvent \/ EmitMalformed \/ Die \/ UNCHANGED vars
           \/ \E c \in Callers : Respond(c)
  <2>1. UNCHANGED <<op, pc, stopVars, initVars>>
    BY <1>6 DEF DispatchResponse, DispatchOther, RecordExit, DispatchTerminated,
       ReadError, DrainPending, FailDrained, RecoverTerminated, EmitEvent,
       EmitMalformed, Die, Respond, vars, callerVars
  <2>. QED
    BY <2>1 DEF OneDualAwait, SlotIsAResume, WakeInv, stopVars, initVars
<1>. QED
  BY <1>1, <1>2, <1>3, <1>4, <1>5, <1>6 DEF Next, Call, Read

\* The wakeups, and who may hold a slot, as an invariant of the client.
LEMMA ShapeCorrect == Spec => []ShapeInv
<1>1. Init => ShapeInv
  BY DEF Init, ShapeInv, OneDualAwait, SlotIsAResume, WakeInv, Waiting, Registered
<1>2. TypeOK /\ ShapeInv /\ [Next]_vars => ShapeInv'
  BY ShapeStep
<1>. QED
  BY <1>1, <1>2, TypeCorrect, PTL DEF Spec

\* No lost wakeup: whoever is blocked on an empty channel has its sender
\* where the read loop, the recovery or the next registration will use it.
THEOREM WakeupsAreNotLost == Spec => []NoLostWakeup
<1>1. (SeqUnique /\ PendingInv) /\ ShapeInv => NoLostWakeup
  BY DEF PendingInv, SenderHeld, ShapeInv, WakeInv, NoLostWakeup
<1>. QED
  BY <1>1, PendingCorrect, ShapeCorrect, PTL

----------------------------------------------------------------------------
(* Refinement *)

\* What a step of the service needs to know: only parsed requests are
\* answered, an answer on its way or received was given, and the recovery
\* runs, and channels are closed, only when the connection has ended.
AnswersGiven ==
  /\ \A c \in received : pc[c] \notin NotSent
  /\ \A i \in DOMAIN inbox : inbox[i].type = "response" => inbox[i].of \in answered
  /\ \A c \in Callers : rx[c].kind = "ok" => rx[c].of \in answered
ClosedAtTheEnd ==
  /\ reader \in {"drain"} \cup Drained => Ended
  /\ \A c \in Callers : rx[c] = Closed => Ended

ServiceInv == AnswersGiven /\ ClosedAtTheEnd

\* Taking a message ends the connection only if it is a frame that is
\* rejected, and never restores it.
LEMMA TakeEnds ==
  ASSUME TypeOK, NEW T, Take(T), UNCHANGED adapter
  PROVE  /\ Ended => Ended'
         /\ "malformed" \notin T => (Ended' <=> Ended)
         /\ Head(inbox).type = "malformed" => Ended'
<1>1. Head(inbox) \in Messages /\ Head(inbox).type \in T
  BY TakeType
<1>2. /\ \A i \in DOMAIN log : i \in DOMAIN log' /\ log'[i] = log[i]
      /\ \A i \in DOMAIN log' : (i \in DOMAIN log /\ log'[i] = log[i]) \/ log'[i] = Head(inbox)
  <2>1. log \in Seq(Messages)
    BY DEF TypeOK
  <2>2. log' = log \/ log' = Append(log, Head(inbox))
    BY DEF Take
  <2>3. \A i \in DOMAIN log : i \in DOMAIN log' /\ log'[i] = log[i]
    BY <1>1, <2>1, <2>2
  <2>. QED
    BY <2>3, TakeLogs
<1>3. Head(inbox).type = "malformed" => \E i \in DOMAIN log' : log'[i].type = "malformed"
  <2> SUFFICES ASSUME Head(inbox).type = "malformed"
               PROVE  \E i \in DOMAIN log' : log'[i].type = "malformed"
    OBVIOUS
  <2>1. log' = Append(log, Head(inbox))
    BY DEF Take, Logged
  <2>2. Len(log) + 1 \in DOMAIN log' /\ log'[Len(log) + 1] = Head(inbox)
    BY <2>1, <1>1 DEF TypeOK
  <2>. QED
    BY <2>2
<1>. QED
  BY <1>1, <1>2, <1>3 DEF Ended

\* The facts the service's steps rest on are inductive.
LEMMA ServiceInvStep ==
  ASSUME TypeOK, CorrelationInv, EofMeansDown, ServiceInv, [Next]_vars
  PROVE  ServiceInv'
<1> USE DEF ServiceInv
<1>1. ASSUME NEW c \in Callers, Call(c) \/ Cancel(c)
      PROVE  ServiceInv'
  <2>1. /\ UNCHANGED <<rx, answered, inbox, log, adapter, reader>>
        /\ \A d \in Callers : pc'[d] \in NotSent => pc[d] \in NotSent
        /\ \A d \in received' : d \in received \/ pc'[d] \notin NotSent
    <3>1. CASE RegisterStop(c) \/ NextSeq(c) \/ RegisterPending(c) \/ StartWrite(c)
      BY <3>1 DEF TypeOK, RegisterStop, NextSeq, RegisterPending, StartWrite, Goto,
         NotSent, channelVars, adapterVars, readerVars
    <3>2. CASE FinishWrite(c) \/ FailWrite(c) \/ WaitInitialized(c)
      BY <3>2 DEF TypeOK, FinishWrite, FailWrite, WaitInitialized, Goto, NotSent,
         channelVars, adapterVars, readerVars
    <3>3. CASE ReceiveResult(c) \/ ReceiveStop(c) \/ ReceiveBoth(c) \/ Cancel(c)
      BY <3>3 DEF TypeOK, ReceiveResult, ReceiveStop, ReceiveBoth, Cancel, Goto,
         NotSent, channelVars, adapterVars, readerVars
    <3>. QED
      BY <1>1, <3>1, <3>2, <3>3 DEF Call
  <2>. QED
    BY <2>1 DEF TypeOK, AnswersGiven, ClosedAtTheEnd, Ended
<1>2. CASE DispatchResponse
  <2>1. /\ Take({"response"}) /\ reader = "reading"
        /\ UNCHANGED <<pc, received, answered, adapter, reader>>
    BY <1>2 DEF DispatchResponse, Take, callerVars, adapterVars, readerVars
  <2>2. Ended => Ended'
    BY <2>1, TakeEnds
  <2>3. Head(inbox).of \in answered
    BY <2>1, TakeType, TakeElements DEF AnswersGiven
  <2>4. \A c \in Callers : rx'[c] = rx[c] \/ rx'[c] = Answer(Head(inbox))
    BY <1>2 DEF TypeOK, DispatchResponse, Send, channelVars
  <2>5. /\ Answer(Head(inbox)).of = Head(inbox).of
        /\ Answer(Head(inbox)) # Closed
    BY DEF Answer, Closed
  <2>6. \A i \in DOMAIN inbox' : inbox'[i].type = "response" => inbox'[i].of \in answered
    BY <2>1, TakeElements DEF AnswersGiven
  <2>7. \A c \in Callers : rx'[c].kind = "ok" => rx'[c].of \in answered
    BY <2>3, <2>4, <2>5 DEF AnswersGiven
  <2>. QED
    BY <2>1, <2>2, <2>4, <2>5, <2>6, <2>7 DEF AnswersGiven, ClosedAtTheEnd, Drained
<1>3. CASE \/ DispatchStopped \/ DispatchInitialized \/ DispatchOther
           \/ RecordExit \/ DispatchTerminated
  <2>1. /\ \E T : Take(T)
        /\ UNCHANGED <<pc, rx, received, answered, adapter>>
        /\ reader' \in {"reading", "deliverExit", "cancelStop"}
    BY <1>3 DEF DispatchStopped, DispatchInitialized, DispatchOther, RecordExit,
       DispatchTerminated, Take, callerVars, channelVars, adapterVars, readerVars
  <2>2. Ended => Ended'
    BY <2>1, TakeEnds
  <2>. QED
    BY <2>1, <2>2, TakeElements DEF AnswersGiven, ClosedAtTheEnd, Drained
<1>4. CASE ReadError
  <2>1. /\ Take({"eof", "malformed"})
        /\ UNCHANGED <<pc, rx, received, answered, adapter>>
    BY <1>4 DEF ReadError, callerVars, channelVars, adapterVars
  <2>2. Ended'
    <3>1. CASE Head(inbox).type = "malformed"
      BY <2>1, <3>1, TakeEnds
    <3>2. CASE Head(inbox).type = "eof"
      BY <2>1, <3>2, TakeElements DEF EofMeansDown, Ended
    <3>. QED
      BY <2>1, <3>1, <3>2, TakeType
  <2>. QED
    BY <2>1, <2>2, TakeElements DEF AnswersGiven, ClosedAtTheEnd
<1>5. CASE \/ DeliverExit \/ CancelStop \/ DrainPending \/ FailDrained
           \/ RecoverStop \/ RecoverTerminated
  <2>1. /\ UNCHANGED <<pc, received, answered, adapter, inbox, log>>
        /\ reader' = "reading" \/ reader \in {"drain"} \cup Drained
        /\ \A c \in Callers : rx'[c] = rx[c]
             \/ (rx'[c] = Closed /\ reader = "failDrained")
    BY <1>5 DEF TypeOK, DeliverExit, CancelStop, DrainPending, FailDrained, RecoverStop,
       RecoverTerminated, Drained, callerVars, channelVars, adapterVars
  <2>2. Closed.kind # "ok"
    BY DEF Closed
  <2>. QED
    BY <2>1, <2>2 DEF AnswersGiven, ClosedAtTheEnd, Ended, Drained
<1>6. ASSUME NEW c \in Callers, Respond(c) PROVE ServiceInv'
  <2>1. /\ Emit(Response(c)) /\ answered' = answered \cup {c}
        /\ UNCHANGED <<pc, rx, received, adapter, log, reader>>
    BY <1>6 DEF Respond, callerVars, channelVars, readerVars
  <2>2. Response(c).of = c
    BY DEF Response
  <2>. QED
    BY <2>1, <2>2, EmitElements DEF AnswersGiven, ClosedAtTheEnd, Ended
<1>7. CASE EmitEvent \/ EmitMalformed \/ Die
  <2>1. /\ UNCHANGED <<pc, rx, received, answered, log, reader>>
        /\ adapter' = adapter \/ adapter' = "down"
    BY <1>7 DEF EmitEvent, EmitMalformed, Die, callerVars, channelVars, adapterVars, readerVars
  <2>2. PICK m : Emit(m) /\ m.type # "response"
    BY <1>7 DEF EmitEvent, EmitMalformed, Die, EventMessages, StoppedBy, ExitedWith, Plain
  <2>. QED
    BY <2>1, <2>2, EmitElements DEF AnswersGiven, ClosedAtTheEnd, Ended
<1>8. CASE UNCHANGED vars
  BY <1>8 DEF vars, callerVars, channelVars, adapterVars, readerVars, AnswersGiven, ClosedAtTheEnd, Ended
<1>. QED
  BY <1>1, <1>2, <1>3, <1>4, <1>5, <1>6, <1>7, <1>8 DEF Next, Read

\* All that is used of a reachable state in a step of the service.
SimulationInv == CorrelationInv /\ PendingInv /\ RecoveryInv /\ ShapeInv /\ ServiceInv

\* The simulation's invariant, of every behaviour of the client.
LEMMA SimulationCorrect == Spec => [](TypeOK /\ SimulationInv)
<1>1. Init => SimulationInv
  <2>1. Init => CorrelationInv /\ PendingInv /\ RecoveryInv
    BY DEF Init, CorrelationInv, SeqUnique, KeysMatch, ResponseMatchesRequest,
       PendingInv, SenderHeld, NoOrphanedEntry, RecoveryInv, EofMeansDown,
       LateUnwritten, EofRead, Drained, Registered, Empty
  <2>2. Init => ShapeInv
    BY DEF Init, ShapeInv, OneDualAwait, SlotIsAResume, WakeInv, Waiting, Registered
  <2>3. Init => ServiceInv
    BY DEF Init, ServiceInv, AnswersGiven, ClosedAtTheEnd, Drained, Empty, Closed
  <2>. QED
    BY <2>1, <2>2, <2>3 DEF SimulationInv
<1>2. TypeOK /\ SimulationInv /\ [Next]_vars => SimulationInv'
  BY CorrelationStep, PendingStep, RecoveryStep, ShapeStep, ServiceInvStep
     DEF SimulationInv, CorrelationInv, RecoveryInv
<1>. QED
  BY <1>1, <1>2, TypeCorrect, PTL DEF Spec

\* The variables of the service, as the mapping defines them.
Stages == [c \in Callers |-> Stage(c)]
Resumes == {c \in Callers : op[c] = "resume"}
Outcome == {c \in Callers : stopRx[c] # "empty"}
mapped == <<Resumes, Stages, answered, Outcome, Ended>>

\* The stage a pc stands for.
LEMMA StageOfPc ==
  ASSUME TypeOK, NEW c \in Callers
  PROVE  /\ Stage(c) = "idle" <=> pc[c] \in NotSent
         /\ pc[c] \in Registered => Stage(c) = "open"
         /\ pc[c] = "stopWait" => Stage(c) = "answered"
         /\ pc[c] = "ok" => Stage(c) = "done"
         /\ pc[c] = "failed" => Stage(c) = "failed"
         /\ pc[c] = "cancelled" => Stage(c) = "cancelled"
BY DEF TypeOK, Stage, PCs, NotSent, Waiting, Registered, Returned

\* A caller that changes its stage changes no other's.
LEMMA StageMoves ==
  ASSUME TypeOK, TypeOK', NEW c \in Callers, pc' = [pc EXCEPT ![c] = pc'[c]]
  PROVE  Stages' = [Stages EXCEPT ![c] = Stage(c)']
<1>1. \A d \in Callers \ {c} : pc'[d] = pc[d]
  BY DEF TypeOK
<1>2. \A d \in Callers \ {c} : Stage(d)' = Stage(d)
  BY <1>1 DEF Stage
<1>. QED
  BY <1>2 DEF Stages

\* A delivered outcome wakes the resume in the slot, if there is one.
LEMMA DeliverIsAWake ==
  ASSUME TypeOK, TypeOK', SlotIsAResume, NEW o \in Outcomes \ {"empty"}, DeliverStop(o),
         UNCHANGED <<op, pc, answered, Ended>>
  PROVE  (\E c \in Callers : Service!Wake(c)) \/ UNCHANGED mapped
<1>1. UNCHANGED <<Resumes, Stages>>
  BY DEF Resumes, Stages, Stage
<1>2. CASE slot \in Callers
  <2>1. Outcome' = Outcome \cup {slot}
    BY <1>2 DEF TypeOK, DeliverStop, Outcome
  <2>2. slot \in Resumes
    BY <1>2 DEF SlotIsAResume, TypeOK, Resumes
  <2>. QED
    BY <1>1, <1>2, <2>1, <2>2 DEF Service!Wake, Resumes, Stages, Outcome, Ended
<1>3. CASE slot = None
  <2>1. Outcome' = Outcome
    BY <1>3 DEF TypeOK, DeliverStop, Outcome
  <2>. QED
    BY <1>1, <2>1 DEF mapped
<1>. QED
  BY <1>2, <1>3 DEF TypeOK

\* A step of a caller is a step of its call in the service, or none.
LEMMA CallerRefines ==
  ASSUME TypeOK, TypeOK', SimulationInv, NEW c \in Callers, Call(c) \/ Cancel(c)
  PROVE  Service!Next \/ UNCHANGED mapped
<1> USE DEF SimulationInv
<1>1. UNCHANGED <<Resumes, answered, Ended>>
  <2>1. CASE RegisterStop(c) \/ NextSeq(c) \/ RegisterPending(c) \/ StartWrite(c)
    BY <2>1 DEF RegisterStop, NextSeq, RegisterPending, StartWrite, Resumes, Ended, adapterVars
  <2>2. CASE FinishWrite(c) \/ FailWrite(c) \/ WaitInitialized(c)
    BY <2>2 DEF FinishWrite, FailWrite, WaitInitialized, Resumes, Ended, adapterVars
  <2>3. CASE ReceiveResult(c) \/ ReceiveStop(c) \/ ReceiveBoth(c) \/ Cancel(c)
    BY <2>3 DEF ReceiveResult, ReceiveStop, ReceiveBoth, Cancel, Resumes, Ended, adapterVars
  <2>. QED
    BY <2>1, <2>2, <2>3 DEF Call
<1>2. pc' = [pc EXCEPT ![c] = pc'[c]]
  BY DEF TypeOK, Call, RegisterStop, NextSeq, RegisterPending, StartWrite, FinishWrite,
     FailWrite, ReceiveResult, ReceiveStop, WaitInitialized, ReceiveBoth, Cancel, Goto
<1>3. /\ Stages' = [Stages EXCEPT ![c] = Stage(c)']
      /\ Stages[c] = Stage(c)
      /\ Stages' = Stages <=> Stage(c)' = Stage(c)
  BY <1>2, StageMoves DEF Stages
<1>4. /\ pc'[c] \in NotSent => Stage(c)' = "idle"
      /\ pc'[c] \in Registered => Stage(c)' = "open"
      /\ pc'[c] = "stopWait" => Stage(c)' = "answered"
      /\ pc'[c] = "ok" => Stage(c)' = "done"
      /\ pc'[c] = "failed" => Stage(c)' = "failed"
      /\ pc'[c] = "cancelled" => Stage(c)' = "cancelled"
  <2>1. TypeOK' => (pc'[c] \in PCs)
    BY DEF TypeOK
  <2>. QED
    BY <2>1 DEF Stage, PCs, NotSent, Waiting, Registered, Returned
<1>5. ~RegisterStop(c) => UNCHANGED Outcome
  BY DEF Call, NextSeq, RegisterPending, StartWrite, FinishWrite, FailWrite,
     ReceiveResult, ReceiveStop, WaitInitialized, ReceiveBoth, Cancel, stopVars, Outcome
<1>6. CASE RegisterStop(c)
  <2>1. UNCHANGED Stages
    <3>1. pc[c] \in NotSent /\ pc'[c] \in NotSent
      BY <1>6 DEF TypeOK, RegisterStop, Goto, NotSent
    <3>. QED
      BY <3>1, <1>3, <1>4, StageOfPc
  <2>2. ASSUME NEW d \in Callers, slot = d PROVE Service!Next
    <3>1. Outcome' = Outcome \cup {d}
      BY <1>6, <2>2 DEF TypeOK, RegisterStop, Register, Outcome
    <3>2. d \in Resumes
      BY <2>2 DEF ShapeInv, SlotIsAResume, TypeOK, Resumes
    <3>3. Service!Wake(d)
      BY <1>1, <2>1, <3>1, <3>2 DEF Service!Wake, Resumes, Stages, Outcome, Ended
    <3>. QED
      BY <3>3 DEF Service!Next
  <2>3. CASE slot = None
    <3>1. Outcome' = Outcome
      BY <1>6, <2>3 DEF TypeOK, RegisterStop, Register, Outcome
    <3>. QED
      BY <1>1, <2>1, <3>1 DEF mapped
  <2>. QED
    BY <2>2, <2>3 DEF TypeOK
<1>7. ASSUME NEW from, NEW to, Stage(c) \in from, Stage(c)' = to, ~RegisterStop(c)
      PROVE  Service!Move(c, from, to)
  BY <1>1, <1>3, <1>5, <1>7 DEF Service!Move, Resumes, Stages, Outcome, Ended
<1>8. CASE NextSeq(c)
  <2>1. pc[c] \in NotSent /\ pc'[c] \in NotSent /\ ~RegisterStop(c)
    BY <1>8 DEF TypeOK, NextSeq, RegisterStop, Goto, NotSent
  <2>. QED
    BY <2>1, <1>1, <1>3, <1>4, <1>5, StageOfPc DEF mapped
<1>9. CASE RegisterPending(c)
  <2>1. pc[c] \in NotSent /\ pc'[c] \in Registered /\ ~RegisterStop(c)
    BY <1>9 DEF TypeOK, RegisterPending, RegisterStop, Goto, NotSent, Registered
  <2>2. Service!Issue(c)
    BY <2>1, <1>4, <1>7, StageOfPc DEF Service!Issue
  <2>. QED
    BY <2>2 DEF Service!Next
<1>10. CASE StartWrite(c) \/ FinishWrite(c) \/ WaitInitialized(c)
  <2>1. pc[c] \in Registered /\ pc'[c] \in Registered /\ ~RegisterStop(c)
    BY <1>10 DEF TypeOK, StartWrite, FinishWrite, WaitInitialized, RegisterStop, Goto, Registered
  <2>. QED
    BY <2>1, <1>1, <1>3, <1>4, <1>5, StageOfPc DEF mapped
<1>11. CASE FailWrite(c)
  <2>1. pc[c] \in Registered /\ pc'[c] = "failed" /\ adapter = "down" /\ ~RegisterStop(c)
    BY <1>11 DEF TypeOK, FailWrite, RegisterStop, Goto, Registered
  <2>2. Service!Fail(c)
    BY <2>1, <1>4, <1>7, StageOfPc DEF Service!Fail, Ended
  <2>. QED
    BY <2>2 DEF Service!Next
<1>12. CASE ReceiveResult(c) \/ ReceiveBoth(c)
  <2>1. pc[c] \in Registered /\ rx[c] # Empty /\ ~RegisterStop(c)
    BY <1>12 DEF ReceiveResult, ReceiveBoth, RegisterStop, Goto, Registered
  <2>2. CASE rx[c] = Closed
    <3>1. pc'[c] = "failed" /\ Ended
      BY <1>12, <2>2 DEF TypeOK, ReceiveResult, ReceiveBoth, Goto, ServiceInv, ClosedAtTheEnd
    <3>2. Service!Fail(c)
      BY <2>1, <3>1, <1>4, <1>7, StageOfPc DEF Service!Fail, Ended
    <3>. QED
      BY <3>2 DEF Service!Next
  <2>3. CASE rx[c] # Closed
    <3>1. rx[c].kind = "ok"
      BY <2>1, <2>3 DEF TypeOK, Results
    <3>2. c \in answered
      BY <3>1 DEF CorrelationInv, ResponseMatchesRequest, ServiceInv, AnswersGiven
    <3>3. pc'[c] = IF op[c] = "resume" THEN "stopWait" ELSE "ok"
      BY <1>12, <2>3 DEF TypeOK, ReceiveResult, ReceiveBoth, Goto, ShapeInv, OneDualAwait
    <3>4. Stage(c)' = IF c \in Resumes THEN "answered" ELSE "done"
      BY <3>3, <1>4 DEF Resumes
    <3>5. Service!Complete(c)
      BY <2>1, <3>2, <3>4, <1>7, StageOfPc DEF Service!Complete, Resumes
    <3>. QED
      BY <3>5 DEF Service!Next
  <2>. QED
    BY <2>2, <2>3
<1>13. CASE ReceiveStop(c)
  <2>1. pc[c] = "stopWait" /\ pc'[c] = "ok" /\ c \in Outcome /\ ~RegisterStop(c)
    BY <1>13 DEF TypeOK, ReceiveStop, RegisterStop, Goto, Outcome
  <2>2. Service!Finish(c)
    BY <2>1, <1>4, <1>7, StageOfPc DEF Service!Finish, Outcome
  <2>. QED
    BY <2>2 DEF Service!Next
<1>14. CASE Cancel(c)
  <2>1. pc[c] \in Waiting /\ pc'[c] = "cancelled" /\ ~RegisterStop(c)
    BY <1>14 DEF TypeOK, Cancel, RegisterStop, Goto, Waiting, Registered
  <2>2. Service!Cancel(c)
    BY <2>1, <1>4, <1>7, StageOfPc DEF Service!Cancel, Waiting
  <2>. QED
    BY <2>2 DEF Service!Next
<1>. QED
  BY <1>6, <1>8, <1>9, <1>10, <1>11, <1>12, <1>13, <1>14 DEF Call

\* A step of the read loop wakes a resume or ends the connection, or is
\* invisible to the service.
LEMMA ReaderRefines ==
  ASSUME TypeOK, TypeOK', SimulationInv, Read
  PROVE  Service!Next \/ UNCHANGED mapped
<1> USE DEF SimulationInv
<1>1. UNCHANGED <<op, pc, answered, adapter>>
  BY DEF Read, DispatchResponse, DispatchStopped, DispatchInitialized, DispatchOther,
     RecordExit, DeliverExit, DispatchTerminated, CancelStop, ReadError, DrainPending,
     FailDrained, RecoverStop, RecoverTerminated, callerVars, adapterVars
<1>2. UNCHANGED <<Resumes, Stages>>
  BY <1>1 DEF Resumes, Stages, Stage
<1>3. CASE DispatchStopped \/ DeliverExit \/ CancelStop \/ RecoverStop
  <2>1. \E o \in Outcomes \ {"empty"} : DeliverStop(o)
    BY <1>3 DEF DispatchStopped, DeliverExit, CancelStop, RecoverStop, Outcomes
  <2>2. UNCHANGED Ended
    <3>1. CASE DispatchStopped
      BY <1>1, <3>1, TakeEnds DEF DispatchStopped, Ended
    <3>2. CASE DeliverExit \/ CancelStop \/ RecoverStop
      BY <1>1, <3>2 DEF DeliverExit, CancelStop, RecoverStop, Ended
    <3>. QED
      BY <1>3, <3>1, <3>2
  <2>3. (\E c \in Callers : Service!Wake(c)) \/ UNCHANGED mapped
    BY <1>1, <2>1, <2>2, DeliverIsAWake DEF ShapeInv
  <2>. QED
    BY <2>3 DEF Service!Next
<1>4. CASE \/ DispatchResponse \/ DispatchInitialized \/ DispatchOther
           \/ RecordExit \/ DispatchTerminated
  <2>1. UNCHANGED stopRx /\ \E T : Take(T) /\ "malformed" \notin T
    BY <1>4 DEF DispatchResponse, DispatchInitialized, DispatchOther, RecordExit,
       DispatchTerminated, stopVars
  <2>2. UNCHANGED <<Outcome, Ended>>
    BY <1>1, <2>1, TakeEnds DEF Outcome, Ended
  <2>. QED
    BY <1>1, <1>2, <2>2 DEF mapped
<1>5. CASE ReadError
  <2>1. UNCHANGED Outcome /\ Take({"eof", "malformed"})
    BY <1>5 DEF ReadError, Outcome, stopVars
  <2>2. CASE Head(inbox).type = "malformed"
    <3>1. Ended'
      BY <1>1, <2>1, <2>2, TakeEnds
    <3>2. Service!End
      BY <1>1, <1>2, <2>1, <3>1 DEF Service!End, Resumes, Stages, Outcome, Ended
    <3>. QED
      BY <3>2 DEF Service!Next
  <2>3. CASE Head(inbox).type = "eof"
    <3>1. Ended
      BY <2>1, <2>3, TakeElements DEF RecoveryInv, EofMeansDown, Ended
    <3>2. Ended'
      BY <1>1, <2>1, <3>1, TakeEnds
    <3>3. UNCHANGED Ended
      BY <3>1, <3>2 DEF Ended
    <3>. QED
      BY <1>1, <1>2, <2>1, <3>3 DEF mapped
  <2>. QED
    BY <2>1, <2>2, <2>3, TakeType
<1>6. CASE DrainPending \/ FailDrained \/ RecoverTerminated
  <2>1. UNCHANGED <<Outcome, Ended>>
    BY <1>1, <1>6 DEF DrainPending, FailDrained, RecoverTerminated, Outcome, Ended, stopVars
  <2>. QED
    BY <1>1, <1>2, <2>1 DEF mapped
<1>. QED
  BY <1>3, <1>4, <1>5, <1>6 DEF Read

\* A step of the adapter answers a call, ends the connection, or is not seen.
LEMMA AdapterRefines ==
  ASSUME TypeOK, TypeOK', SimulationInv,
         EmitEvent \/ EmitMalformed \/ Die \/ \E c \in Callers : Respond(c)
  PROVE  Service!Next \/ UNCHANGED mapped
<1> USE DEF SimulationInv
<1>1. UNCHANGED <<Resumes, Stages, Outcome, log>>
  BY DEF EmitEvent, EmitMalformed, Die, Respond, callerVars, stopVars, Resumes,
     Stages, Stage, Outcome
<1>2. CASE EmitEvent \/ EmitMalformed
  BY <1>1, <1>2 DEF EmitEvent, EmitMalformed, Ended, mapped
<1>3. CASE Die
  <2>1. Ended' /\ UNCHANGED answered
    BY <1>3 DEF Die, Ended
  <2>2. Service!End
    BY <1>1, <2>1 DEF Service!End, Resumes, Stages, Outcome, Ended
  <2>. QED
    BY <2>2 DEF Service!Next
<1>4. ASSUME NEW c \in Callers, Respond(c) PROVE Service!Next
  <2>1. /\ c \notin answered /\ answered' = answered \cup {c}
        /\ pc[c] \notin NotSent /\ UNCHANGED adapter
    BY <1>4 DEF Respond, ServiceInv, AnswersGiven
  <2>2. Stages[c] # "idle"
    BY <2>1, StageOfPc DEF Stages
  <2>3. Service!Serve(c)
    BY <1>1, <2>1, <2>2 DEF Service!Serve, Resumes, Stages, Outcome, Ended
  <2>. QED
    BY <2>3 DEF Service!Next
<1>. QED
  BY <1>2, <1>3, <1>4

\* The transport implements the request service: whatever is cancelled,
\* reordered, late or dead, a caller sees only what RequestService allows.
THEOREM ServiceImplemented == Spec => ImplementsService
<1>1. Init => Service!Init
  <2> SUFFICES ASSUME Init PROVE Service!Init
    OBVIOUS
  <2>1. \A c \in Callers : Stage(c) = "idle"
    <3>1. \A c \in Callers : pc[c] = "start"
      BY DEF Init
    <3>. QED
      BY <3>1 DEF Stage, Registered
  <2>2. ~Ended
    BY DEF Init, Ended
  <2>3. answered = {} /\ Outcome = {}
    BY DEF Init, Outcome
  <2>. QED
    BY <2>1, <2>2, <2>3 DEF Service!Init, Outcome, Ended
<1>2. (TypeOK /\ SimulationInv) /\ (TypeOK /\ SimulationInv)' /\ [Next]_vars
        => [Service!Next]_(Service!vars)
  <2> SUFFICES ASSUME TypeOK, SimulationInv, TypeOK', [Next]_vars
               PROVE  Service!Next \/ UNCHANGED mapped
    BY DEF Service!vars, mapped, Resumes, Stages, Outcome, Ended
  <2>1. CASE Next
    BY <2>1, CallerRefines, ReaderRefines, AdapterRefines DEF Next
  <2>2. CASE UNCHANGED vars
    BY <2>2 DEF vars, callerVars, stopVars, adapterVars, mapped, Resumes, Stages,
       Stage, Outcome, Ended
  <2>. QED
    BY <2>1, <2>2
<1>. QED
  BY <1>1, <1>2, SimulationCorrect, PTL DEF Spec, ImplementsService, Service!Spec

----------------------------------------------------------------------------
(* Stops and exit codes *)

\* A stop is caused by a resume whose request was parsed.
Caused(m) == m.type = "stopped" /\ m.cause # None =>
               m.cause \in received /\ op[m.cause] = "resume"

CauseKnown ==
  /\ \A i \in DOMAIN inbox : Caused(inbox[i])
  /\ \A i \in DOMAIN log : Caused(log[i])

StopInv == CauseKnown /\ ResumeNeverMissesItsStop

\* A cause stays a cause: requests are not unparsed.
LEMMA CauseStays ==
  ASSUME NEW m, Caused(m), received \subseteq received', UNCHANGED op
  PROVE  Caused(m)'
BY DEF Caused

\* A step that touches neither the stream nor its history, and turns no
\* sent request into an unsent one.
LEMMA QuietStep ==
  ASSUME TypeOK, StopInv, AnswersGiven,
         received \subseteq received', UNCHANGED <<op, inbox, log>>,
         \A d \in Callers : stopRx'[d] = "empty" => stopRx[d] = "empty",
         \A d \in Callers : pc[d] \notin NotSent /\ pc'[d] \in Waiting => pc[d] \in Waiting
  PROVE  StopInv'
<1>1. CauseKnown'
  BY DEF StopInv, CauseKnown, Caused
<1>2. ResumeNeverMissesItsStop'
  <2> SUFFICES ASSUME NEW i \in DOMAIN log, log[i].type = "stopped", log[i].cause # None,
                      pc'[log[i].cause] \in Waiting
               PROVE  stopRx'[log[i].cause] # "empty"
    BY DEF ResumeNeverMissesItsStop
  <2>1. log[i].cause \in received /\ log[i].cause \in Callers
    BY DEF StopInv, CauseKnown, Caused, TypeOK
  <2>2. pc[log[i].cause] \in Waiting
    BY <2>1 DEF AnswersGiven
  <2>. QED
    BY <2>1, <2>2 DEF StopInv, ResumeNeverMissesItsStop
<1>. QED
  BY <1>1, <1>2 DEF StopInv

\* Taking a message: what it delivers reaches the resume that caused it.
LEMMA TakeStep ==
  ASSUME TypeOK, StopInv, NEW T, Take(T), UNCHANGED <<op, pc, received>>,
         \A d \in Callers : stopRx'[d] = "empty" => stopRx[d] = "empty",
         "stopped" \in T => \A d \in Callers : op[d] = "resume" /\ pc[d] \in Waiting =>
                              stopRx'[d] # "empty"
  PROVE  StopInv'
<1>1. /\ 1 \in DOMAIN inbox /\ Head(inbox) = inbox[1] /\ Head(inbox).type \in T
      /\ \A i \in DOMAIN inbox' : i + 1 \in DOMAIN inbox /\ inbox'[i] = inbox[i + 1]
  BY TakeElements, TakeType
<1>2. \A i \in DOMAIN log' : (i \in DOMAIN log /\ log'[i] = log[i]) \/ log'[i] = Head(inbox)
  BY TakeLogs
<1>3. CauseKnown'
  BY <1>1, <1>2 DEF StopInv, CauseKnown, Caused
<1>4. ResumeNeverMissesItsStop'
  <2> SUFFICES ASSUME NEW i \in DOMAIN log', log'[i].type = "stopped", log'[i].cause # None,
                      pc[log'[i].cause] \in Waiting
               PROVE  stopRx'[log'[i].cause] # "empty"
    BY DEF ResumeNeverMissesItsStop
  <2>1. /\ log'[i].cause \in received /\ log'[i].cause \in Callers
        /\ op[log'[i].cause] = "resume"
    BY <1>3 DEF CauseKnown, Caused, TypeOK
  <2>2. CASE i \in DOMAIN log /\ log'[i] = log[i]
    BY <2>1, <2>2 DEF StopInv, ResumeNeverMissesItsStop
  <2>3. CASE log'[i] = Head(inbox)
    BY <1>1, <2>1, <2>3
  <2>. QED
    BY <1>2, <2>2, <2>3
<1>. QED
  BY <1>3, <1>4 DEF StopInv

\* Emitting a message, with its cause if it is a stop.
LEMMA EmitStep ==
  ASSUME TypeOK, StopInv, NEW m, Emit(m), Caused(m),
         UNCHANGED <<op, pc, received, log, stopRx>>
  PROVE  StopInv'
<1>1. \A i \in DOMAIN inbox' : (i \in DOMAIN inbox /\ inbox'[i] = inbox[i]) \/ inbox'[i] = m
  BY EmitElements
<1>2. CauseKnown'
  BY <1>1 DEF StopInv, CauseKnown, Caused
<1>. QED
  BY <1>2 DEF StopInv, ResumeNeverMissesItsStop

\* Filling channels empties none.
LEMMA DeliverFills ==
  ASSUME TypeOK, NEW o \in Outcomes \ {"empty"}, DeliverStop(o)
  PROVE  \A d \in Callers : stopRx'[d] = "empty" => stopRx[d] = "empty" /\ d # slot
BY DEF TypeOK, DeliverStop

\* No stop goes past the resume that caused it.
LEMMA StopStep ==
  ASSUME TypeOK, StopInv, ShapeInv, AnswersGiven, [Next]_vars
  PROVE  StopInv'
<1>1. ASSUME NEW c \in Callers, RegisterStop(c) PROVE StopInv'
  <2>1. /\ UNCHANGED <<op, inbox, log, received>> /\ pc' = [pc EXCEPT ![c] = "seq"]
        /\ \A d \in Callers : stopRx'[d] = "empty" => stopRx[d] = "empty"
    BY <1>1 DEF RegisterStop, Register, Goto, adapterVars
  <2>2. \A d \in Callers : pc'[d] \in Waiting => pc[d] \in Waiting
    BY <2>1 DEF TypeOK, Waiting, Registered
  <2>. QED
    BY <2>1, <2>2, QuietStep
<1>2. ASSUME NEW c \in Callers,
             \/ NextSeq(c) \/ RegisterPending(c) \/ StartWrite(c) \/ FinishWrite(c)
             \/ FailWrite(c) \/ ReceiveResult(c) \/ ReceiveStop(c)
             \/ WaitInitialized(c) \/ ReceiveBoth(c) \/ Cancel(c)
      PROVE  StopInv'
  <2>1. /\ UNCHANGED <<op, inbox, log, stopRx>> /\ received \subseteq received'
        /\ pc' = [pc EXCEPT ![c] = pc'[c]]
        /\ pc[c] \notin NotSent => pc[c] \in Waiting
    BY <1>2 DEF TypeOK, NextSeq, RegisterPending, StartWrite, FinishWrite, FailWrite,
       ReceiveResult, ReceiveStop, WaitInitialized, ReceiveBoth, Cancel, Goto, NotSent,
       Waiting, Registered, stopVars, adapterVars
  <2>2. \A d \in Callers : pc[d] \notin NotSent /\ pc'[d] \in Waiting => pc[d] \in Waiting
    BY <2>1 DEF TypeOK
  <2>. QED
    BY <2>1, <2>2, QuietStep
<1>3. CASE DispatchStopped
  <2>1. /\ Take({"stopped"}) /\ DeliverStop("stopped")
        /\ UNCHANGED <<op, pc, received>>
    BY <1>3 DEF DispatchStopped, callerVars, adapterVars
  <2>2. \A d \in Callers : stopRx'[d] = "empty" => stopRx[d] = "empty" /\ d # slot
    BY <2>1, DeliverFills DEF Outcomes
  <2>3. \A d \in Callers : op[d] = "resume" /\ pc[d] \in Waiting => stopRx'[d] # "empty"
    BY <2>2 DEF ShapeInv, WakeInv
  <2>. QED
    BY <2>1, <2>2, <2>3, TakeStep
<1>4. CASE \/ DispatchResponse \/ DispatchInitialized \/ DispatchOther
           \/ RecordExit \/ DispatchTerminated \/ ReadError
  <2>1. /\ \E T : Take(T) /\ "stopped" \notin T
        /\ UNCHANGED <<op, pc, received, stopRx>>
    BY <1>4 DEF DispatchResponse, DispatchInitialized, DispatchOther, RecordExit,
       DispatchTerminated, ReadError, callerVars, stopVars, adapterVars
  <2>. QED
    BY <2>1, TakeStep
<1>5. CASE DeliverExit \/ CancelStop \/ RecoverStop
  <2>1. /\ UNCHANGED <<op, pc, received, inbox, log>>
        /\ \E o \in Outcomes \ {"empty"} : DeliverStop(o)
    BY <1>5 DEF DeliverExit, CancelStop, RecoverStop, Outcomes, callerVars, adapterVars
  <2>2. \A d \in Callers : stopRx'[d] = "empty" => stopRx[d] = "empty"
    BY <2>1, DeliverFills
  <2>. QED
    BY <2>1, <2>2, QuietStep
<1>6. CASE DrainPending \/ FailDrained \/ RecoverTerminated \/ UNCHANGED vars
  <2>1. UNCHANGED <<op, pc, received, inbox, log, stopRx>>
    BY <1>6 DEF DrainPending, FailDrained, RecoverTerminated, vars, callerVars, stopVars,
       adapterVars
  <2>. QED
    BY <2>1 DEF StopInv, CauseKnown, Caused, ResumeNeverMissesItsStop
<1>7. CASE EmitEvent \/ EmitMalformed \/ Die \/ \E c \in Callers : Respond(c)
  <2>1. UNCHANGED <<op, pc, received, log, stopRx>>
    BY <1>7 DEF EmitEvent, EmitMalformed, Die, Respond, callerVars, stopVars
  <2>2. \A c \in Callers : Caused(Response(c))
    BY DEF Response, Caused
  <2>3. \A t : t # "stopped" => Caused(Plain(t))
    BY DEF Plain, Caused
  <2>4. \A m \in EventMessages : Caused(m)
    BY <2>3 DEF EventMessages, StoppedBy, ExitedWith, Caused
  <2>5. PICK m : Emit(m) /\ Caused(m)
    BY <1>7, <2>2, <2>3, <2>4 DEF EmitEvent, EmitMalformed, Die, Respond
  <2>. QED
    BY <2>1, <2>5, EmitStep
<1>. QED
  BY <1>1, <1>2, <1>3, <1>4, <1>5, <1>6, <1>7 DEF Next, Call, Read

\* The stop waiter: once the read loop has taken the stop a resume caused,
\* that resume has an outcome, for any number of resumes that replace one
\* another in the slot.
THEOREM ResumesSeeTheirStop == Spec => []ResumeNeverMissesItsStop
<1>1. Init => StopInv
  BY DEF Init, StopInv, CauseKnown, ResumeNeverMissesItsStop
<1>2. TypeOK /\ SimulationInv /\ StopInv /\ [Next]_vars => StopInv'
  BY StopStep DEF SimulationInv, ServiceInv
<1>3. StopInv => ResumeNeverMissesItsStop
  BY DEF StopInv
<1>. QED
  BY <1>1, <1>2, <1>3, SimulationCorrect, PTL DEF Spec

\* A code is that of the last exit among the first n messages taken.
ExitsBefore(n) == {i \in 1..n : log[i].type = "exited"}
IsLastExit(n, code) ==
  IF ExitsBefore(n) = {} THEN code = None
  ELSE \E i \in ExitsBefore(n) : (\A j \in ExitsBefore(n) : j <= i) /\ code = log[i].code

\* The code is recorded with the exit it belongs to. The signal is armed
\* until the session ends: by a terminated event, which fires it in the same
\* step, or by a read error, after which nothing more is read.
Recovering == {"drain", "failDrained", "recoverStop", "recoverTerminated"}
ExitInv ==
  /\ IsLastExit(Len(log), lastExit)
  /\ terminated = "armed" =>
       \/ Ends = {} /\ reader \notin Recovering \cup {"exited"}
       \/ Ends = {Len(log)} /\ reader \in Recovering
  /\ reader \in Recovering \cup {"exited"} => Ends # {}
  /\ ExitCodeCarried

\* The history grows at its end, by what it keeps.
LEMMA TakeExtends ==
  ASSUME TypeOK, NEW T, Take(T)
  PROVE  /\ Len(log) \in Nat /\ Len(log') \in Nat
         /\ Head(inbox).type \notin Logged => log' = log
         /\ Head(inbox).type \in Logged =>
              Len(log') = Len(log) + 1 /\ log'[Len(log) + 1] = Head(inbox)
         /\ \A i \in 1..Len(log) : i \in 1..Len(log') /\ log'[i] = log[i]
<1>1. log \in Seq(Messages) /\ Head(inbox) \in Messages
  BY TakeType DEF TypeOK
<1>. QED
  BY <1>1 DEF Take

\* What is recorded and when the session ends in the messages that were
\* there depends on nothing taken later.
LEMMA TakeKeepsPast ==
  ASSUME TypeOK, NEW T, Take(T)
  PROVE  /\ \A n \in 0..Len(log) : ExitsBefore(n)' = ExitsBefore(n)
         /\ \A n \in 0..Len(log) : \A code : IsLastExit(n, code) => IsLastExit(n, code)'
         /\ Ends \subseteq Ends'
         /\ \A e \in Ends' : e \in Ends \/ e = Len(log) + 1
<1>1. Len(log) \in Nat /\ \A i \in 1..Len(log) : i \in 1..Len(log') /\ log'[i] = log[i]
  BY TakeExtends
<1>2. Len(log') = Len(log) \/ Len(log') = Len(log) + 1
  BY TakeExtends
<1>3. DOMAIN log = 1..Len(log) /\ DOMAIN log' = 1..Len(log')
  BY TakeType DEF TypeOK
<1>4. ASSUME NEW n \in 0..Len(log)
      PROVE  /\ \A i \in 1..n : log'[i] = log[i]
             /\ ExitsBefore(n)' = ExitsBefore(n)
  <2>1. \A i \in 1..n : i \in 1..Len(log)
    BY <1>1
  <2>2. \A i \in 1..n : log'[i] = log[i]
    BY <1>1, <2>1
  <2>. QED
    BY <2>2 DEF ExitsBefore
<1>5. ASSUME NEW n \in 0..Len(log), NEW code, IsLastExit(n, code) PROVE IsLastExit(n, code)'
  <2>1. \A i \in ExitsBefore(n) : log'[i] = log[i]
    BY <1>4 DEF ExitsBefore
  <2>. QED
    BY <1>4, <1>5, <2>1 DEF IsLastExit
<1>6. Ends \subseteq Ends'
  BY <1>1, <1>3 DEF Ends
<1>7. ASSUME NEW e \in Ends' PROVE e \in Ends \/ e = Len(log) + 1
  <2>1. e \in 1..Len(log')
    BY <1>3 DEF Ends
  <2>2. e \in 1..Len(log) \/ e = Len(log) + 1
    BY <1>1, <1>2, <2>1
  <2>. QED
    BY <1>1, <1>3, <2>2 DEF Ends
<1>. QED
  BY <1>4, <1>5, <1>6, <1>7

\* ExitCodeCarried in terms of the first end and what was recorded before it.
FirstEndWith(code) == \E e \in Ends : (\A f \in Ends : e <= f) /\ IsLastExit(e - 1, code)

LEMMA CarriedIsFirstEnd ==
  /\ ExitCodeCarried <=> (terminated # "armed" => FirstEndWith(terminated))
  /\ ExitCodeCarried' <=> (terminated' # "armed" => FirstEndWith(terminated)')
BY DEF ExitCodeCarried, FirstEndWith, IsLastExit, ExitsBefore

\* The first end stays the first, whatever is taken after it.
LEMMA FirstEndStays ==
  ASSUME TypeOK, NEW T, Take(T), NEW code, FirstEndWith(code)
  PROVE  FirstEndWith(code)'
<1>1. PICK e \in Ends : (\A f \in Ends : e <= f) /\ IsLastExit(e - 1, code)
  BY DEF FirstEndWith
<1>2. e \in 1..Len(log) /\ Len(log) \in Nat
  BY TakeExtends DEF Ends, TypeOK
<1>3. e - 1 \in 0..Len(log) /\ e <= Len(log) + 1
  BY <1>2
<1>4. IsLastExit(e - 1, code)'
  BY <1>1, <1>3, TakeKeepsPast
<1>5. e \in Ends' /\ \A f \in Ends' : e <= f
  BY <1>1, <1>3, TakeKeepsPast
<1>. QED
  BY <1>4, <1>5 DEF FirstEndWith

\* A step that leaves the history, the code and the signal alone, and the
\* read loop before, in or after its recovery.
LEMMA QuietExit ==
  ASSUME ExitInv, UNCHANGED <<log, lastExit, terminated>>,
         reader' \in Recovering <=> reader \in Recovering,
         reader' = "exited" <=> reader = "exited"
  PROVE  ExitInv'
<1>1. /\ Ends' = Ends /\ Len(log)' = Len(log)
      /\ \A n, code : IsLastExit(n, code)' <=> IsLastExit(n, code)
  BY DEF Ends, IsLastExit, ExitsBefore
<1>2. ExitCodeCarried'
  BY DEF ExitInv, ExitCodeCarried, Ends
<1>. QED
  BY <1>1, <1>2 DEF ExitInv

\* The n + 1st message is taken and recorded.
LEMMA RecordedStep ==
  ASSUME TypeOK, NEW T, Take(T), Head(inbox).type \in Logged, NEW n, n = Len(log)
  PROVE  /\ n \in Nat /\ Len(log') = n + 1
         /\ Head(inbox).type # "exited" =>
              \A code : IsLastExit(n, code) => IsLastExit(n + 1, code)'
         /\ Head(inbox).type = "exited" =>
              \A code : code = Head(inbox).code => IsLastExit(n + 1, code)'
         /\ Ends' = IF Head(inbox).type \in {"terminated", "eof", "malformed"}
                      THEN Ends \cup {n + 1} ELSE Ends
<1>1. /\ n \in Nat /\ Len(log') = n + 1 /\ log'[n + 1] = Head(inbox)
      /\ \A i \in 1..n : log'[i] = log[i]
  BY TakeExtends
<1>2. 1..(n + 1) = 1..n \cup {n + 1}
  BY <1>1
<1>3. {i \in 1..n : log'[i].type = "exited"} = ExitsBefore(n)
  BY <1>1 DEF ExitsBefore
<1>4. ExitsBefore(n + 1)' = ExitsBefore(n) \cup
          IF Head(inbox).type = "exited" THEN {n + 1} ELSE {}
  BY <1>1, <1>2, <1>3 DEF ExitsBefore
<1>5. \A i \in ExitsBefore(n) : i \in 1..n /\ log'[i] = log[i] /\ i <= n + 1
  BY <1>1 DEF ExitsBefore
<1>6. ASSUME Head(inbox).type # "exited", NEW code, IsLastExit(n, code)
      PROVE  IsLastExit(n + 1, code)'
  <2>1. ExitsBefore(n + 1)' = ExitsBefore(n)
    BY <1>4, <1>6
  <2>. QED
    BY <1>5, <1>6, <2>1 DEF IsLastExit
<1>7. ASSUME Head(inbox).type = "exited", NEW code, code = Head(inbox).code
      PROVE  IsLastExit(n + 1, code)'
  <2>1. n + 1 \in ExitsBefore(n + 1)' /\ \A j \in ExitsBefore(n + 1)' : j <= n + 1
    BY <1>1, <1>4, <1>5, <1>7
  <2>. QED
    BY <1>1, <1>7, <2>1 DEF IsLastExit
<1>8. Ends' = IF Head(inbox).type \in {"terminated", "eof", "malformed"}
                THEN Ends \cup {n + 1} ELSE Ends
  <2>1. DOMAIN log = 1..n /\ DOMAIN log' = 1..n \cup {n + 1}
    BY <1>1, <1>2, TakeType DEF TypeOK
  <2>. QED
    BY <1>1, <2>1 DEF Ends
<1>. QED
  BY <1>1, <1>6, <1>7, <1>8

\* The code with which the session ends is the one recorded by then.
LEMMA ExitStep ==
  ASSUME TypeOK, ExitInv, [Next]_vars
  PROVE  ExitInv'
<1>0. PICK n : n = Len(log)
  OBVIOUS
<1>1. CASE DispatchStopped
  <2>1. /\ Take({"stopped"}) /\ reader = "reading" /\ UNCHANGED <<lastExit, terminated, reader>>
    BY <1>1 DEF DispatchStopped, Take, readerVars, sinkVars
  <2>2. Head(inbox).type = "stopped" /\ Head(inbox).type \in Logged
    BY <2>1 DEF Take, Logged
  <2>3. Len(log') = n + 1 /\ IsLastExit(n + 1, lastExit)' /\ Ends' = Ends
    BY <1>0, <2>1, <2>2, RecordedStep DEF ExitInv
  <2>4. ExitCodeCarried'
    BY <2>1, FirstEndStays, CarriedIsFirstEnd DEF ExitInv
  <2>. QED
    BY <2>1, <2>3, <2>4 DEF ExitInv, Recovering
<1>2. CASE RecordExit
  <2>1. /\ Take({"exited"}) /\ reader = "reading" /\ reader' = "deliverExit"
        /\ lastExit' = Head(inbox).code /\ UNCHANGED terminated
    BY <1>2 DEF RecordExit, Take
  <2>2. Head(inbox).type = "exited" /\ Head(inbox).type \in Logged
    BY <2>1 DEF Take, Logged
  <2>3. Len(log') = n + 1 /\ IsLastExit(n + 1, lastExit)' /\ Ends' = Ends
    BY <1>0, <2>1, <2>2, RecordedStep
  <2>4. ExitCodeCarried'
    BY <2>1, FirstEndStays, CarriedIsFirstEnd DEF ExitInv
  <2>. QED
    BY <2>1, <2>3, <2>4 DEF ExitInv, Recovering
<1>3. CASE DispatchTerminated \/ ReadError
  <2>1. /\ Take({"terminated", "eof", "malformed"}) /\ reader = "reading" /\ UNCHANGED lastExit
        /\ Head(inbox).type \in {"terminated", "eof", "malformed"}
        /\ Head(inbox).type \in Logged /\ Head(inbox).type # "exited"
        /\ terminated # "armed" => UNCHANGED terminated
    BY <1>3 DEF DispatchTerminated, ReadError, FireTerminated, Take, Logged, sinkVars
  <2>2. /\ n \in Nat /\ Len(log') = n + 1 /\ Ends' = Ends \cup {n + 1}
        /\ IsLastExit(n + 1, lastExit)'
    BY <1>0, <2>1, RecordedStep DEF ExitInv
  <2>3. terminated = "armed" => Ends = {}
    BY <2>1 DEF ExitInv, Recovering
  <2>4. terminated = "armed" => FirstEndWith(lastExit)'
    <3>1. IsLastExit(n, lastExit)'
      BY <1>0, <2>1, <2>2, TakeKeepsPast DEF ExitInv
    <3>2. SUFFICES ASSUME Ends = {} PROVE FirstEndWith(lastExit)'
      BY <2>3
    <3>3. Ends' = {n + 1} /\ (n + 1) - 1 = n /\ n + 1 <= n + 1
      BY <2>2, <3>2
    <3>. QED
      BY <3>1, <3>3 DEF FirstEndWith
  <2>5. terminated # "armed" => FirstEndWith(terminated)'
    BY <2>1, FirstEndStays, CarriedIsFirstEnd DEF ExitInv
  <2>6. CASE DispatchTerminated
    <3>1. /\ terminated' = IF terminated = "armed" THEN lastExit ELSE terminated
          /\ reader' = "cancelStop" /\ terminated' # "armed"
      BY <2>6 DEF DispatchTerminated, FireTerminated, TypeOK
    <3>2. FirstEndWith(terminated)'
      BY <2>1, <2>4, <2>5, <3>1 DEF FirstEndWith
    <3>. QED
      BY <2>2, <3>1, <3>2, CarriedIsFirstEnd DEF ExitInv, Recovering
  <2>7. CASE ReadError
    <3>1. UNCHANGED terminated /\ reader' = "drain"
      BY <2>7 DEF ReadError, sinkVars
    <3>2. ExitCodeCarried'
      BY <2>5, <3>1, CarriedIsFirstEnd
    <3>. QED
      BY <2>2, <2>3, <3>1, <3>2 DEF ExitInv, Recovering
  <2>. QED
    BY <1>3, <2>6, <2>7
<1>4. CASE RecoverTerminated
  <2>1. /\ reader = "recoverTerminated" /\ reader' = "exited" /\ UNCHANGED <<log, lastExit>>
        /\ terminated' = IF terminated = "armed" THEN lastExit ELSE terminated
        /\ terminated' # "armed"
    BY <1>4 DEF RecoverTerminated, FireTerminated, TypeOK
  <2>2. Ends' = Ends /\ Ends # {} /\ IsLastExit(Len(log), lastExit)'
    BY <2>1 DEF ExitInv, Recovering, Ends, IsLastExit, ExitsBefore
  <2>3. terminated = "armed" => FirstEndWith(lastExit)
    <3>1. SUFFICES ASSUME terminated = "armed" PROVE FirstEndWith(lastExit)
      OBVIOUS
    <3>2. Ends = {n} /\ n \in DOMAIN log /\ log[n].type # "exited"
      BY <1>0, <2>1, <3>1 DEF ExitInv, Recovering, Ends
    <3>3. n \in Nat /\ n >= 1 /\ 1..n = 1..(n - 1) \cup {n} /\ n <= n
      BY <1>0, <3>2 DEF TypeOK
    <3>4. ExitsBefore(n - 1) = ExitsBefore(n)
      BY <3>2, <3>3 DEF ExitsBefore
    <3>5. IsLastExit(n - 1, lastExit)
      BY <1>0, <3>4 DEF ExitInv, IsLastExit
    <3>. QED
      BY <3>2, <3>3, <3>5 DEF FirstEndWith
  <2>4. FirstEndWith(terminated)'
    <3>1. terminated # "armed" => FirstEndWith(terminated)
      BY CarriedIsFirstEnd DEF ExitInv
    <3>. QED
      BY <2>1, <2>3, <3>1 DEF FirstEndWith, IsLastExit, ExitsBefore, Ends
  <2>. QED
    BY <2>1, <2>2, <2>4, CarriedIsFirstEnd DEF ExitInv, Recovering
<1>5. CASE DispatchResponse \/ DispatchInitialized \/ DispatchOther
  <2>1. UNCHANGED <<log, lastExit, terminated, reader>>
    BY <1>5 DEF DispatchResponse, DispatchInitialized, DispatchOther, Take, Logged,
       readerVars, sinkVars
  <2>. QED
    BY <2>1, QuietExit
<1>6. CASE DeliverExit \/ CancelStop \/ DrainPending \/ FailDrained \/ RecoverStop
  <2>1. /\ UNCHANGED <<log, lastExit, terminated>>
        /\ reader' \in Recovering <=> reader \in Recovering
        /\ reader # "exited" /\ reader' # "exited"
    BY <1>6 DEF DeliverExit, CancelStop, DrainPending, FailDrained, RecoverStop, Recovering,
       sinkVars
  <2>. QED
    BY <2>1, QuietExit
<1>7. CASE \/ EmitEvent \/ EmitMalformed \/ Die \/ UNCHANGED vars
           \/ \E c \in Callers : Call(c) \/ Cancel(c) \/ Respond(c)
  <2>1. UNCHANGED <<log, lastExit, terminated, reader>>
    BY <1>7 DEF EmitEvent, EmitMalformed, Die, Respond, Cancel, Call, RegisterStop, NextSeq,
       RegisterPending, StartWrite, FinishWrite, FailWrite, ReceiveResult, ReceiveStop,
       WaitInitialized, ReceiveBoth, vars, readerVars, sinkVars
  <2>. QED
    BY <2>1, QuietExit
<1>. QED
  BY <1>1, <1>2, <1>3, <1>4, <1>5, <1>6, <1>7 DEF Next, Read

\* The terminated signal carries the code of the last exit before the end
\* of the session, whichever of the terminated event and the end of the
\* stream comes first and whatever follows.
THEOREM ExitCodeIsCarried == Spec => []ExitCodeCarried
<1>1. Init => ExitInv
  BY DEF Init, ExitInv, ExitCodeCarried, IsLastExit, ExitsBefore, Ends, Recovering
<1>2. TypeOK /\ ExitInv /\ [Next]_vars => ExitInv'
  BY ExitStep
<1>3. ExitInv => ExitCodeCarried
  BY DEF ExitInv
<1>. QED
  BY <1>1, <1>2, <1>3, TypeCorrect, PTL DEF Spec
============================================================================
