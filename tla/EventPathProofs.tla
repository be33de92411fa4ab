-------------------------- MODULE EventPathProofs --------------------------
(***************************************************************************)
(* Proofs about OutputBuffer and about EventPath, which shares one buffer  *)
(* between the pumps of any number of connections.                         *)
(*                                                                         *)
(* The buffer: for every cap and every set of chunk sizes.  The inductive  *)
(* invariant says what the size counter is at every step of the eviction   *)
(* loop, not only when the mutex is free, and that the buffer is a         *)
(* contiguous suffix of what was appended.                                 *)
(*                                                                         *)
(* The path: nothing is lost or reordered on the way to the buffer, and    *)
(* the composition uses the buffer as OutputBuffer says, so that what is   *)
(* proved of the buffer alone holds while pumps, handlers and resets of    *)
(* several connections share it.                                           *)
(***************************************************************************)
EXTENDS EventPath, TLAPS

----------------------------------------------------------------------------
(* The buffer *)

USE OutputBufferAssumption

\* The buffer holds the newest chunks, one after the other.
Contiguous ==
  /\ Len(entries) <= appended
  /\ \A i \in 1..Len(entries) : entries[i].id = appended - Len(entries) + i
  /\ \A i \in 1..(Len(entries) - 1) :
       entries[i + 1].end = entries[i].end + entries[i + 1].size
  /\ entries # <<>> => entries[Len(entries)].end = written

\* The size counter is exact at every step.
SizeExact ==
  /\ entries = <<>> => size = 0
  /\ entries # <<>> => size = written - entries[1].end + entries[1].size

\* No chunk ends after the last byte appended.
EndsBounded == \A i \in 1..Len(entries) : entries[i].end <= written

\* Whatever is not buffered was drained or evicted, and not both.
Partition ==
  /\ drained \cup evicted = 1..(appended - Len(entries))
  /\ drained \cap evicted = {}

Inv ==
  /\ TypeOK
  /\ Contiguous
  /\ EndsBounded
  /\ SizeExact
  /\ Partition
  /\ ~appending => size <= MAX_SIZE

\* The numbers of the buffered chunks form an interval.
LEMMA IdsInterval ==
  ASSUME TypeOK, Contiguous
  PROVE  Ids = (appended - Len(entries) + 1)..appended
<1>1. Len(entries) \in Nat /\ appended \in Nat
  BY DEF TypeOK
<1>2. ASSUME NEW x \in (appended - Len(entries) + 1)..appended
      PROVE  x \in Ids
  <2>1. x - (appended - Len(entries)) \in 1..Len(entries)
    BY <1>1, <1>2
  <2>2. entries[x - (appended - Len(entries))].id = x
    BY <1>1, <1>2, <2>1 DEF Contiguous
  <2> QED
    BY <2>1, <2>2 DEF Ids
<1>3. ASSUME NEW x \in Ids
      PROVE  x \in (appended - Len(entries) + 1)..appended
  BY <1>1, <1>3 DEF Ids, Contiguous
<1> QED
  BY <1>2, <1>3

\* append pushes one chunk.
LEMMA PushStep ==
  ASSUME Inv, NEW n \in Sizes, Push(n)
  PROVE  Inv'
<1> USE DEF Inv, Push
<1> DEFINE e == [id |-> appended + 1, size |-> n, end |-> written + n]
<1>1. n \in Nat /\ e \in Chunks
  BY DEF TypeOK, Chunks
<1>2. TypeOK'
  BY <1>1 DEF TypeOK
<1>3. /\ Len(entries') = Len(entries) + 1
      /\ \A i \in 1..Len(entries) : entries'[i] = entries[i]
      /\ entries'[Len(entries) + 1] = e
      /\ entries' # <<>>
      /\ Len(entries) \in Nat
  BY <1>1 DEF TypeOK
<1>4. Contiguous'
  <2>1. Len(entries') <= appended'
    BY <1>3 DEF Contiguous, TypeOK
  <2>2. ASSUME NEW i \in 1..Len(entries')
        PROVE  entries'[i].id = appended' - Len(entries') + i
    <3>1. CASE i = Len(entries) + 1
      BY <1>3, <3>1 DEF TypeOK
    <3>2. CASE i \in 1..Len(entries)
      BY <1>3, <3>2 DEF Contiguous, TypeOK
    <3> QED
      BY <1>3, <2>2, <3>1, <3>2
  <2>3. ASSUME NEW i \in 1..(Len(entries') - 1)
        PROVE  entries'[i + 1].end = entries'[i].end + entries'[i + 1].size
    <3>1. CASE i = Len(entries)
      <4>1. entries # <<>> /\ i \in 1..Len(entries)
        BY <1>3, <2>3, <3>1
      <4> QED
        BY <1>1, <1>3, <3>1, <4>1 DEF Contiguous, TypeOK
    <3>2. CASE i \in 1..(Len(entries) - 1)
      <4>1. i \in 1..Len(entries) /\ i + 1 \in 1..Len(entries)
        BY <1>3, <3>2
      <4> QED
        BY <1>3, <3>2, <4>1 DEF Contiguous, TypeOK
    <3> QED
      BY <1>3, <2>3, <3>1, <3>2
  <2>4. entries'[Len(entries')].end = written'
    BY <1>3
  <2> QED
    BY <2>1, <2>2, <2>3, <2>4 DEF Contiguous
<1>5. SizeExact'
  <2>1. CASE entries = <<>>
    <3>1. entries'[1] = e /\ size = 0
      BY <1>3, <2>1 DEF SizeExact
    <3> QED
      BY <1>1, <1>3, <3>1 DEF SizeExact, TypeOK
  <2>2. CASE entries # <<>>
    <3>1. entries'[1] = entries[1] /\ entries[1] \in Chunks
      BY <1>3, <2>2 DEF TypeOK
    <3>2. entries[1].size \in Nat /\ entries[1].end \in Nat
      BY <3>1 DEF Chunks
    <3>3. size = written - entries[1].end + entries[1].size
      BY <2>2 DEF SizeExact
    <3>4. size' = size + n /\ written' = written + n /\ written \in Nat
      BY DEF TypeOK
    <3> HIDE DEF Push, Inv, e
    <3>5. size' = written' - entries'[1].end + entries'[1].size
      BY <1>1, <3>1, <3>2, <3>3, <3>4
    <3> QED
      BY <1>3, <3>5 DEF SizeExact
  <2> QED
    BY <2>1, <2>2
<1>6. Partition'
  BY <1>3 DEF Partition, TypeOK
<1>7. EndsBounded'
  <2> SUFFICES ASSUME NEW i \in 1..Len(entries')
               PROVE  entries'[i].end <= written'
    BY DEF EndsBounded
  <2>1. CASE i = Len(entries) + 1
    BY <1>1, <1>3, <2>1 DEF TypeOK
  <2>2. CASE i \in 1..Len(entries)
    <3>1. entries[i] \in Chunks
      BY <2>2 DEF TypeOK
    <3>2. entries[i].end \in Nat /\ entries[i].end <= written
      BY <2>2, <3>1 DEF Chunks, EndsBounded
    <3> QED
      BY <1>1, <1>3, <2>2, <3>2 DEF TypeOK
  <2> QED
    BY <1>3, <2>1, <2>2
<1> QED
  BY <1>2, <1>4, <1>5, <1>6, <1>7

\* One iteration of the eviction loop.
LEMMA EvictStep ==
  ASSUME Inv, EvictOldest
  PROVE  Inv'
<1>0. TypeOK /\ Contiguous /\ EndsBounded /\ SizeExact /\ Partition
  BY DEF Inv
<1>1. /\ Len(entries) \in Nat \ {0}
      /\ entries' \in Seq(Chunks)
      /\ Len(entries') = Len(entries) - 1
      /\ \A i \in 1..(Len(entries) - 1) : entries'[i] = entries[i + 1]
      /\ Head(entries) = entries[1]
      /\ entries[1] \in Chunks
      /\ entries # <<>>
  BY <1>0 DEF TypeOK, EvictOldest, OverCap
<1>2. /\ entries[1].size \in Nat /\ entries[1].end \in Nat /\ entries[1].id \in Nat
      /\ size = written - entries[1].end + entries[1].size
  BY <1>0, <1>1 DEF Chunks, SizeExact
<1>3. SizeExact' /\ size' \in Nat
  <2>1. size' = written - entries[1].end /\ written' = written /\ written \in Nat
    <3>1. size' = size - entries[1].size /\ written' = written /\ written \in Nat
      BY <1>0, <1>1 DEF TypeOK, EvictOldest
    <3> QED
      BY <1>2, <3>1
  <2>2. CASE Len(entries) = 1
    <3>1. entries' = <<>>
      BY <1>1, <2>2
    <3>2. entries[1].end = written
      BY <1>0, <1>1, <2>2 DEF Contiguous
    <3> QED
      BY <2>1, <3>1, <3>2 DEF SizeExact
  <2>3. CASE Len(entries) > 1
    <3>1. entries' # <<>> /\ entries'[1] = entries[2]
      BY <1>1, <2>3
    <3>2. entries[2] \in Chunks
      BY <1>0, <1>1, <2>3 DEF TypeOK
    <3>3. entries[2].size \in Nat /\ entries[2].end \in Nat
      BY <3>2 DEF Chunks
    <3>4. entries[2].end = entries[1].end + entries[2].size
      BY <1>0, <1>1, <2>3 DEF Contiguous
    <3>5. size' = written - entries[2].end + entries[2].size
      BY <1>2, <2>1, <3>3, <3>4
    <3>6. entries[1].end <= written
      BY <1>0, <1>1, <2>3 DEF EndsBounded
    <3> QED
      BY <1>2, <2>1, <3>1, <3>5, <3>6 DEF SizeExact
  <2> QED
    BY <1>1, <2>2, <2>3
<1>4. TypeOK'
  BY <1>0, <1>1, <1>2, <1>3 DEF TypeOK, EvictOldest
<1>5. Contiguous'
  <2>1. ASSUME NEW i \in 1..Len(entries')
        PROVE  entries'[i].id = appended' - Len(entries') + i
    <3>1. i + 1 \in 1..Len(entries) /\ i \in 1..(Len(entries) - 1)
      BY <1>1, <2>1
    <3>2. entries[i + 1].id = appended - Len(entries) + (i + 1)
      BY <1>0, <3>1 DEF Contiguous
    <3> QED
      BY <1>0, <1>1, <3>1, <3>2 DEF TypeOK, EvictOldest
  <2>2. ASSUME NEW i \in 1..(Len(entries') - 1)
        PROVE  entries'[i + 1].end = entries'[i].end + entries'[i + 1].size
    <3>1. /\ i \in 1..(Len(entries) - 1) /\ i + 1 \in 1..(Len(entries) - 1)
      BY <1>1, <2>2
    <3>2. entries[i + 2].end = entries[i + 1].end + entries[i + 2].size
      BY <1>0, <1>1, <3>1 DEF Contiguous
    <3>3. entries'[i] = entries[i + 1] /\ entries'[i + 1] = entries[i + 2]
      BY <1>1, <3>1
    <3> QED
      BY <3>2, <3>3
  <2>3. entries' # <<>> => entries'[Len(entries')].end = written'
    BY <1>0, <1>1 DEF Contiguous, EvictOldest
  <2> QED
    BY <1>0, <1>1, <2>1, <2>2, <2>3 DEF Contiguous, TypeOK, EvictOldest
<1>6. Partition'
  <2>1. entries[1].id = appended - Len(entries) + 1
    BY <1>0, <1>1 DEF Contiguous
  <2>2. 1..(appended' - Len(entries')) =
          1..(appended - Len(entries)) \cup {entries[1].id}
    BY <1>0, <1>1, <2>1 DEF TypeOK, Contiguous, EvictOldest
  <2>3. entries[1].id \notin 1..(appended - Len(entries))
    BY <1>0, <1>1, <2>1 DEF TypeOK
  <2> QED
    BY <1>0, <1>1, <2>2, <2>3 DEF Partition, EvictOldest
<1>7. EndsBounded'
  <2> SUFFICES ASSUME NEW i \in 1..Len(entries')
               PROVE  entries'[i].end <= written'
    BY DEF EndsBounded
  <2>1. i \in 1..(Len(entries) - 1) /\ i + 1 \in 1..Len(entries)
    BY <1>1
  <2> QED
    BY <1>0, <1>1, <2>1 DEF EndsBounded, EvictOldest
<1> QED
  BY <1>3, <1>4, <1>5, <1>6, <1>7 DEF Inv, EvictOldest

\* drain empties the buffer.
LEMMA DrainStep ==
  ASSUME Inv, Drain
  PROVE  Inv'
<1> USE DEF Inv, Drain
<1>1. Ids = (appended - Len(entries) + 1)..appended
  BY IdsInterval
<1>2. TypeOK'
  <2>1. Ids \subseteq Nat
    BY <1>1 DEF TypeOK, Contiguous
  <2>2. drained' \subseteq Nat /\ announced' \subseteq Nat
    BY <2>1, Zenon DEF TypeOK
  <2>3. entries' \in Seq(Chunks) /\ size' \in Nat
    OBVIOUS
  <2>4. truncated' \in BOOLEAN /\ appending' \in BOOLEAN
    BY Zenon DEF TypeOK
  <2> QED
    BY <2>2, <2>3, <2>4, Zenon DEF TypeOK
<1>3. Contiguous' /\ SizeExact' /\ EndsBounded'
  BY DEF Contiguous, SizeExact, EndsBounded, TypeOK
<1>4. Partition'
  <2>1. (drained \cup evicted) \cup Ids = 1..appended
    BY <1>1 DEF Partition, TypeOK, Contiguous
  <2>2. Ids \cap evicted = {}
    BY <1>1 DEF Partition, TypeOK
  <2> QED
    BY <2>1, <2>2 DEF Partition, TypeOK
<1> QED
  BY <1>2, <1>3, <1>4

LEMMA InvInductive == Spec => []Inv
<1>1. Init => Inv
  <2> SUFFICES ASSUME Init PROVE Inv
    OBVIOUS
  <2>1. TypeOK
    <3>1. entries \in Seq(Chunks) /\ size \in Nat /\ appended \in Nat /\ written \in Nat
      BY DEF Init
    <3> QED
      BY <3>1, Zenon DEF Init, TypeOK
  <2>2. Contiguous /\ EndsBounded /\ SizeExact
    BY DEF Init, Contiguous, EndsBounded, SizeExact
  <2>3. Partition
    BY DEF Init, Partition
  <2> QED
    BY <2>1, <2>2, <2>3 DEF Inv, Init
<1>2. Inv /\ [Next]_vars => Inv'
  <2> SUFFICES ASSUME Inv, [Next]_vars PROVE Inv'
    OBVIOUS
  <2>1. CASE \E n \in Sizes : Push(n)
    BY <2>1, PushStep
  <2>2. CASE EvictOldest
    BY <2>2, EvictStep
  <2>3. CASE EndAppend
    <3>1. entries = <<>> => size = 0
      BY DEF Inv, SizeExact
    <3>2. TypeOK'
      BY <2>3, Zenon DEF EndAppend, historyVars, Inv, TypeOK
    <3>3. Contiguous' /\ EndsBounded' /\ SizeExact' /\ Partition'
      BY <2>3 DEF EndAppend, historyVars, Inv, Contiguous, EndsBounded, SizeExact,
                  Partition
    <3>4. size' <= MAX_SIZE
      BY <2>3, <3>1 DEF EndAppend, OverCap, Inv, TypeOK
    <3> QED
      BY <3>2, <3>3, <3>4 DEF Inv
  <2>4. CASE Drain
    BY <2>4, DrainStep
  <2>5. CASE UNCHANGED vars
    BY <2>5 DEF vars, historyVars, Inv, TypeOK, Contiguous, EndsBounded, SizeExact,
                Partition
  <2> QED
    BY <2>1, <2>2, <2>3, <2>4, <2>5 DEF Next
<1> QED
  BY <1>1, <1>2, PTL DEF Spec

\* Type correctness: in particular the eviction loop never underflows the
\* usize counter.
THEOREM TypeCorrect == Spec => []TypeOK
BY InvInductive, PTL DEF Inv

\* Whenever append has returned, the buffer is within its cap and its counter
\* is exact, for every cap and all chunk sizes, zero and over-cap included.
THEOREM CapHolds == Spec => []CapRespected
<1>1. Inv => CapRespected
  BY DEF Inv, CapRespected, SizeExact
<1> QED
  BY <1>1, InvInductive, PTL

\* append and drain lose, duplicate and reorder nothing but what is evicted.
THEOREM ChunksOnce == Spec => []EveryChunkOnce
<1>1. ASSUME Inv PROVE EveryChunkOnce
  <2>1. Ids = (appended - Len(entries) + 1)..appended
    BY <1>1, IdsInterval DEF Inv
  <2>2. Len(entries) \in Nat /\ appended \in Nat /\ Len(entries) <= appended
    BY <1>1 DEF Inv, TypeOK, Contiguous
  <2>3. Ids \cup (drained \cup evicted) = 1..appended
    BY <1>1, <2>1, <2>2 DEF Inv, Partition
  <2>4. Ids \cap (drained \cup evicted) = {}
    BY <1>1, <2>1, <2>2 DEF Inv, Partition
  <2> QED
    BY <1>1, <2>3, <2>4 DEF Inv, Partition, Contiguous, EveryChunkOnce
<1> QED
  BY <1>1, InvInductive, PTL

\* An eviction is always announced by the next drain.
THEOREM LossAnnounced == Spec => []NoSilentLoss
<1>1. Init => NoSilentLoss
  BY DEF Init, NoSilentLoss
<1>2. NoSilentLoss /\ [Next]_vars => NoSilentLoss'
  <2> SUFFICES ASSUME NoSilentLoss, [Next]_vars PROVE NoSilentLoss'
    OBVIOUS
  <2> USE DEF NoSilentLoss
  <2>1. CASE \E n \in Sizes : Push(n)
    <3>1. evicted' = evicted /\ announced' = announced /\ truncated' = truncated
      BY <2>1 DEF Push
    <3> QED
      BY <3>1, Zenon
  <2>2. CASE EvictOldest
    BY <2>2, Zenon DEF EvictOldest
  <2>3. CASE EndAppend
    BY <2>3, Zenon DEF EndAppend, historyVars
  <2>4. CASE Drain
    BY <2>4, Zenon DEF Drain
  <2>5. CASE UNCHANGED vars
    BY <2>5, Zenon DEF vars, historyVars
  <2> QED
    BY <2>1, <2>2, <2>3, <2>4, <2>5 DEF Next
<1> QED
  BY <1>1, <1>2, PTL DEF Spec

\* A chunk is only evicted from a buffer whose real content exceeds the cap.
THEOREM EvictionJustified == Spec => EvictsOnlyOverCap
<1>1. Inv /\ [Next]_vars =>
        [evicted' # evicted =>
           written - entries[1].end + entries[1].size > MAX_SIZE]_vars
  BY DEF Inv, SizeExact, Next, vars, historyVars, Push, EvictOldest, OverCap,
         EndAppend, Drain
<1> QED
  BY <1>1, InvInductive, PTL DEF Spec, EvictsOnlyOverCap

----------------------------------------------------------------------------
(* The path *)

USE EventPathAssumption

OutputChunks == [no : Nat, size : Sizes]

PathTypeOK ==
  /\ conns \in 0..Conns
  /\ queue \in [Ks -> Seq(OutputChunks)]
  /\ emitted \in [Ks -> Nat]
  /\ arrived \in [Ks -> Nat]

PathInv == PathTypeOK /\ NothingLostOnTheWay

\* Taking the first chunk out of one channel leaves the others' alone and
\* this one's numbering without a gap.
LEMMA DequeueStep ==
  ASSUME PathInv, NEW k \in Ks, queue[k] # <<>>,
         queue' = [queue EXCEPT ![k] = Tail(@)],
         arrived' = [arrived EXCEPT ![k] = Head(queue[k]).no],
         UNCHANGED <<conns, emitted>>
  PROVE  PathInv'
<1> USE DEF PathInv, PathTypeOK
<1>1. /\ queue[k] \in Seq(OutputChunks) /\ Len(queue[k]) \in Nat \ {0}
      /\ Head(queue[k]) = queue[k][1]
  OBVIOUS
<1>2. Head(queue[k]).no = arrived[k] + 1
  BY <1>1 DEF NothingLostOnTheWay
<1>3. /\ Tail(queue[k]) \in Seq(OutputChunks)
      /\ Len(Tail(queue[k])) = Len(queue[k]) - 1
      /\ \A i \in 1..Len(Tail(queue[k])) : Tail(queue[k])[i] = queue[k][i + 1]
  BY <1>1
<1>4. PathTypeOK'
  BY <1>2, <1>3
<1>5. ASSUME NEW l \in Ks
      PROVE  /\ emitted'[l] = arrived'[l] + Len(queue'[l])
             /\ \A i \in 1..Len(queue'[l]) : queue'[l][i].no = arrived'[l] + i
  <2>1. CASE l # k
    BY <2>1 DEF NothingLostOnTheWay
  <2>2. CASE l = k
    <3>1. arrived'[k] = arrived[k] + 1 /\ queue'[k] = Tail(queue[k])
      BY <1>2
    <3>2. emitted[k] = arrived[k] + Len(queue[k])
      BY DEF NothingLostOnTheWay
    <3>3. emitted'[k] = arrived'[k] + Len(queue'[k])
      BY <1>1, <1>3, <3>1, <3>2
    <3>4. ASSUME NEW i \in 1..Len(queue'[k]) PROVE queue'[k][i].no = arrived'[k] + i
      <4>1. queue'[k][i] = queue[k][i + 1] /\ i + 1 \in 1..Len(queue[k])
        BY <1>1, <1>3, <3>1, <3>4
      <4>2. queue[k][i + 1].no = arrived[k] + (i + 1)
        BY <4>1 DEF NothingLostOnTheWay
      <4>. QED
        BY <3>1, <4>1, <4>2
    <3>. QED
      BY <2>2, <3>3, <3>4
  <2>. QED
    BY <2>1, <2>2
<1>. QED
  BY <1>4, <1>5 DEF NothingLostOnTheWay

\* A chunk sent into the channel is numbered one more than the last.
LEMMA EnqueueStep ==
  ASSUME PathInv, NEW k \in Ks, NEW chunk \in OutputChunks, chunk.no = emitted[k] + 1,
         queue' = [queue EXCEPT ![k] = Append(@, chunk)],
         emitted' = [emitted EXCEPT ![k] = @ + 1],
         UNCHANGED <<conns, arrived>>
  PROVE  PathInv'
<1> USE DEF PathInv, PathTypeOK
<1>1. queue[k] \in Seq(OutputChunks) /\ Len(queue[k]) \in Nat /\ emitted[k] \in Nat /\ arrived[k] \in Nat
  OBVIOUS
<1>2. /\ Append(queue[k], chunk) \in Seq(OutputChunks)
      /\ Len(Append(queue[k], chunk)) = Len(queue[k]) + 1
      /\ \A i \in 1..Len(queue[k]) : Append(queue[k], chunk)[i] = queue[k][i]
      /\ Append(queue[k], chunk)[Len(queue[k]) + 1] = chunk
  BY <1>1
<1>3. PathTypeOK'
  BY <1>2
<1>4. ASSUME NEW l \in Ks
      PROVE  /\ emitted'[l] = arrived'[l] + Len(queue'[l])
             /\ \A i \in 1..Len(queue'[l]) : queue'[l][i].no = arrived'[l] + i
  <2>1. CASE l # k
    BY <2>1 DEF NothingLostOnTheWay
  <2>2. CASE l = k
    <3>1. /\ emitted'[k] = emitted[k] + 1 /\ arrived'[k] = arrived[k]
          /\ queue'[k] = Append(queue[k], chunk)
      OBVIOUS
    <3>2. emitted[k] = arrived[k] + Len(queue[k])
      BY DEF NothingLostOnTheWay
    <3>3. emitted'[k] = arrived'[k] + Len(queue'[k])
      BY <1>1, <1>2, <3>1, <3>2
    <3>4. ASSUME NEW i \in 1..Len(queue'[k]) PROVE queue'[k][i].no = arrived'[k] + i
      <4>1. CASE i \in 1..Len(queue[k])
        BY <1>2, <3>1, <4>1 DEF NothingLostOnTheWay
      <4>2. CASE i = Len(queue[k]) + 1
        BY <1>1, <1>2, <3>1, <3>2, <4>2
      <4>. QED
        BY <1>1, <1>2, <3>1, <3>4, <4>1, <4>2
    <3>. QED
      BY <2>2, <3>3, <3>4
  <2>. QED
    BY <2>1, <2>2
<1>. QED
  BY <1>3, <1>4 DEF NothingLostOnTheWay

\* Every step of the path keeps the channels' accounts.
LEMMA PathStep ==
  ASSUME PathInv, [PathNext]_pathVars
  PROVE  PathInv'
<1>1. ASSUME NEW k \in Open, NEW n \in Sizes, TakeOutput(k, n) PROVE PathInv'
  <2>1. k \in Ks
    BY DEF PathInv, PathTypeOK, Ks, Open
  <2>2. emitted[k] + 1 \in Nat
    BY <2>1 DEF PathInv, PathTypeOK
  <2>3. PICK chunk \in OutputChunks : chunk = [no |-> emitted[k] + 1, size |-> n]
    BY <2>2 DEF OutputChunks
  <2>4. chunk.no = emitted[k] + 1
    BY <2>3
  <2>. QED
    BY <1>1, <2>1, <2>3, <2>4, EnqueueStep DEF TakeOutput, Enqueue, connVars, traceVars
<1>2. ASSUME NEW k \in Open, PumpOutput(k) PROVE PathInv'
  <2>1. k \in Ks
    BY DEF PathInv, PathTypeOK, Ks, Open
  <2>. QED
    BY <1>2, <2>1, DequeueStep DEF PumpOutput, connVars, sourceVars
<1>3. ASSUME NEW k \in Open, TakeTerminated(k) \/ EndLoop(k) \/ PumpTerminated(k) \/ PumpEnds(k)
      PROVE  PathInv'
  <2>1. UNCHANGED <<conns, queue, emitted, arrived>>
    BY <1>3 DEF TakeTerminated, EndLoop, PumpTerminated, PumpEnds, connVars, sourceVars, traceVars
  <2>. QED
    BY <2>1 DEF PathInv, PathTypeOK, NothingLostOnTheWay
<1>4. CASE Connect
  <2>1. conns' \in 0..Conns /\ UNCHANGED <<queue, emitted, arrived>>
    BY <1>4 DEF Connect, PathInv, PathTypeOK, sourceVars, traceVars
  <2>. QED
    BY <2>1 DEF PathInv, PathTypeOK, NothingLostOnTheWay
<1>5. CASE Evict \/ Reset \/ ResetOutput \/ ReadOutput \/ UNCHANGED pathVars
  <2>1. UNCHANGED <<conns, queue, emitted, arrived>>
    BY <1>5 DEF Evict, Reset, ResetOutput, ReadOutput, pathVars, connVars, sourceVars,
                traceVars
  <2>. QED
    BY <2>1 DEF PathInv, PathTypeOK, NothingLostOnTheWay
<1>. QED
  BY <1>1, <1>2, <1>3, <1>4, <1>5 DEF PathNext, Pump

\* The channel's accounts, of every behaviour of the path.
LEMMA PathCorrect == PathSpec => []PathInv
<1>1. PathInit => PathInv
  BY DEF PathInit, PathInv, PathTypeOK, NothingLostOnTheWay
<1>2. PathInv /\ [PathNext]_pathVars => PathInv'
  BY PathStep
<1>. QED
  BY <1>1, <1>2, PTL DEF PathSpec

\* Output reaches the buffer complete and in order, for any number of
\* connections whose pumps overlap.
THEOREM OutputArrivesInOrder == PathSpec => []NothingLostOnTheWay
<1>1. PathInv => NothingLostOnTheWay
  BY DEF PathInv
<1>. QED
  BY <1>1, PathCorrect, PTL

\* Pumps, resets and read_output use the buffer as OutputBuffer specifies.
LEMMA PathStepIsABufferStep ==
  ASSUME PathInv, [PathNext]_pathVars
  PROVE  [Next]_vars
<1>1. ASSUME NEW k \in Open, PumpOutput(k) PROVE Next
  <2>1. k \in Ks /\ queue[k] \in Seq(OutputChunks) /\ queue[k] # <<>>
    BY <1>1 DEF PathInv, PathTypeOK, Ks, Open, PumpOutput
  <2>2. Head(queue[k]).size \in Sizes
    <3>1. Head(queue[k]) \in OutputChunks
      BY <2>1
    <3>. QED
      BY <3>1 DEF OutputChunks
  <2>3. PICK n \in Sizes : Push(n)
    BY <1>1, <2>2 DEF PumpOutput, Push
  <2>. QED
    BY <2>3 DEF Next
<1>2. CASE Evict
  BY <1>2 DEF Evict, Next
<1>3. CASE ResetOutput \/ ReadOutput
  BY <1>3 DEF ResetOutput, ReadOutput, DrainBuffer, Next
<1>4. ASSUME NEW k \in Open,
             \/ \E n \in Sizes : TakeOutput(k, n)
             \/ TakeTerminated(k) \/ EndLoop(k) \/ PumpTerminated(k) \/ PumpEnds(k)
      PROVE  UNCHANGED vars
  BY <1>4 DEF TakeOutput, TakeTerminated, EndLoop, PumpTerminated, PumpEnds
<1>5. CASE Connect \/ Reset \/ UNCHANGED pathVars
  BY <1>5 DEF Connect, Reset, pathVars
<1>. QED
  BY <1>1, <1>2, <1>3, <1>4, <1>5 DEF PathNext, Pump

LEMMA BufferInvOfPath == PathSpec => [](Inv /\ PathInv)
<1>1. PathInit => Init
  BY DEF PathInit
<1>2. PathSpec => Spec
  BY <1>1, PathStepIsABufferStep, PathCorrect, PTL DEF PathSpec, Spec
<1>. QED
  BY <1>2, InvInductive, PathCorrect, PTL

\* What is promised of the buffer holds on the path: the cap, the accounting
\* and the announcement of what was evicted, whoever appends and drains.
THEOREM PathKeepsTheBuffersPromises ==
  PathSpec => [](CapRespected /\ EveryChunkOnce /\ NoSilentLoss)
<1>1. PathInit => Init
  BY DEF PathInit
<1>2. PathSpec => Spec
  BY <1>1, PathStepIsABufferStep, PathCorrect, PTL DEF PathSpec, Spec
<1>. QED
  BY <1>2, CapHolds, ChunksOnce, LossAnnounced, PTL

----------------------------------------------------------------------------
(* Whose output the buffer holds *)

\* The origin of every chunk is on record, and a pump that runs although its
\* session was reset is one that the reset left running.
LateType ==
  /\ origin \in Seq(Open) /\ Len(origin) = appended
  /\ captured \in [Ks -> Int] /\ generation \in Int
  /\ clearing \in BOOLEAN

RunningIsKnown ==
  ~clearing => \A k \in Open :
    pump[k] = "running" => captured[k] = generation \/ k \in late

LateInv == LateType /\ RunningIsKnown /\ OnlyLatePumpsLeak

\* The number of a buffered chunk is the place of its origin.
LEMMA IdsHaveOrigins ==
  ASSUME Inv, LateInv, NEW i \in 1..Len(entries)
  PROVE  /\ entries[i].id \in 1..appended
         /\ origin[entries[i].id] \in Open
<1>1. entries[i].id \in Ids
  BY DEF Ids
<1>2. Ids = (appended - Len(entries) + 1)..appended
  BY IdsInterval DEF Inv
<1>3. appended \in Nat /\ Len(entries) \in Nat /\ Len(entries) <= appended
  BY DEF Inv, TypeOK, Contiguous
<1>4. entries[i].id \in 1..appended
  BY <1>1, <1>2, <1>3
<1>. QED
  BY <1>4 DEF LateInv, LateType

LEMMA PumpOutputKeepsLate ==
  ASSUME Inv, PathInv, LateInv, NEW k \in Open, PumpOutput(k)
  PROVE  LateInv'
<1>1. PICK n : Push(n)
  BY DEF PumpOutput
<1>2. /\ UNCHANGED <<conns, captured, generation, clearing, pump, late>>
      /\ origin' = Append(origin, k) /\ pump[k] = "running"
  BY DEF PumpOutput, connVars, sessionVars
<1>3. appended \in Nat /\ appended' = appended + 1
  BY <1>1 DEF Push, Inv, TypeOK
<1>4. /\ origin \in Seq(Open) /\ Len(origin) = appended
      /\ origin' \in Seq(Open) /\ Len(origin') = appended + 1
      /\ \A i \in 1..appended : origin'[i] = origin[i]
      /\ origin'[appended + 1] = k
  BY <1>2, <1>3 DEF LateInv, LateType
<1>5. LateType'
  BY <1>2, <1>3, <1>4 DEF LateInv, LateType, Open
<1>6. RunningIsKnown'
  BY <1>2 DEF LateInv, RunningIsKnown, Open
<1>7. /\ entries \in Seq(Chunks) /\ Len(entries) \in Nat
      /\ Len(entries') = Len(entries) + 1
      /\ \A i \in 1..Len(entries) : entries'[i] = entries[i]
      /\ entries'[Len(entries) + 1].id = appended + 1
  <2>1. entries \in Seq(Chunks)
    BY DEF Inv, TypeOK
  <2>2. entries' = Append(entries, [id |-> appended + 1, size |-> n, end |-> written + n])
    BY <1>1 DEF Push
  <2>3. Len(entries') = Len(entries) + 1
    BY <2>1, <2>2
  <2>4. entries'[Len(entries) + 1] = [id |-> appended + 1, size |-> n, end |-> written + n]
    BY <2>1, <2>2
  <2>5. \A i \in 1..Len(entries) : entries'[i] = entries[i]
    BY <2>1, <2>2
  <2>. QED
    BY <2>1, <2>3, <2>4, <2>5
<1>8. ASSUME ~clearing, NEW i \in 1..Len(entries')
      PROVE  \/ captured[origin'[entries'[i].id]] = generation
             \/ origin'[entries'[i].id] \in late
  <2>1. CASE i \in 1..Len(entries)
    <3>1. entries'[i] = entries[i] /\ entries[i].id \in 1..appended
      BY <1>7, <2>1, IdsHaveOrigins
    <3>2. origin'[entries'[i].id] = origin[entries[i].id]
      BY <1>4, <3>1
    <3>3. \/ captured[origin[entries[i].id]] = generation
          \/ origin[entries[i].id] \in late
      BY <1>8, <2>1 DEF LateInv, OnlyLatePumpsLeak
    <3>. QED
      BY <3>2, <3>3
  <2>2. CASE i = Len(entries) + 1
    <3>1. origin'[entries'[i].id] = k
      BY <1>4, <1>7, <2>2
    <3>2. captured[k] = generation \/ k \in late
      BY <1>2, <1>8 DEF LateInv, RunningIsKnown
    <3>. QED
      BY <3>1, <3>2
  <2>. QED
    BY <1>7, <1>8, <2>1, <2>2
<1>9. OnlyLatePumpsLeak'
  BY <1>2, <1>8 DEF OnlyLatePumpsLeak
<1>. QED
  BY <1>5, <1>6, <1>9 DEF LateInv

\* Eviction takes chunks away and adds none.
LEMMA EvictKeepsLate ==
  ASSUME Inv, PathInv, LateInv, Evict
  PROVE  LateInv'
<1>1. UNCHANGED <<conns, captured, generation, clearing, pump, late, origin, appended>>
  BY DEF Evict, EvictOldest, EndAppend, connVars, sessionVars, traceVars, historyVars
<1>2. LateType' /\ RunningIsKnown'
  BY <1>1 DEF LateInv, LateType, RunningIsKnown, Open
<1>3. ASSUME NEW i \in 1..Len(entries')
      PROVE  \E j \in 1..Len(entries) : entries'[i] = entries[j]
  <2>1. entries \in Seq(Chunks)
    BY DEF Inv, TypeOK
  <2>2. CASE EvictOldest
    <3>1. entries # <<>> /\ entries' = Tail(entries)
      BY <2>2 DEF EvictOldest, OverCap
    <3>2. i + 1 \in 1..Len(entries) /\ entries'[i] = entries[i + 1]
      BY <1>3, <2>1, <3>1
    <3>. QED
      BY <3>2
  <2>3. CASE EndAppend
    BY <1>3, <2>3 DEF EndAppend
  <2>. QED
    BY <2>2, <2>3 DEF Evict
<1>4. OnlyLatePumpsLeak'
  BY <1>1, <1>3 DEF LateInv, OnlyLatePumpsLeak
<1>. QED
  BY <1>2, <1>4 DEF LateInv

LEMMA LateStep ==
  ASSUME Inv, PathInv, LateInv, [PathNext]_pathVars
  PROVE  LateInv'
<1>0. Open \subseteq Ks /\ conns \in Nat /\ conns' \in Nat
  <2>1. PathInv'
    BY PathStep
  <2>. QED
    BY <2>1 DEF PathInv, PathTypeOK, Open, Ks
<1>1. ASSUME NEW k \in Open,
             \/ \E n \in Sizes : TakeOutput(k, n)
             \/ TakeTerminated(k) \/ EndLoop(k) \/ PumpTerminated(k)
      PROVE  LateInv'
  <2>1. /\ UNCHANGED <<vars, conns, captured, generation, clearing, pump, late, origin>>
    BY <1>1 DEF TakeOutput, TakeTerminated, EndLoop, PumpTerminated, TerminateIfGeneration,
                connVars, sessionVars, traceVars
  <2>2. UNCHANGED <<entries, appended>>
    BY <2>1 DEF vars, historyVars
  <2>. QED
    BY <2>1, <2>2 DEF LateInv, LateType, RunningIsKnown, OnlyLatePumpsLeak, Open
<1>2. ASSUME NEW k \in Open, PumpEnds(k) PROVE LateInv'
  <2>1. /\ UNCHANGED <<vars, conns, captured, generation, clearing, late, origin>>
        /\ pump' = [pump EXCEPT ![k] = "done"]
    BY <1>2 DEF PumpEnds, connVars, sessionVars, traceVars
  <2>2. UNCHANGED <<entries, appended>>
    BY <2>1 DEF vars, historyVars
  <2>3. LateType' /\ OnlyLatePumpsLeak'
    BY <2>1, <2>2 DEF LateInv, LateType, OnlyLatePumpsLeak, Open
  <2>4. \A l : pump'[l] = "running" => pump[l] = "running"
    BY <2>1
  <2>5. RunningIsKnown'
    BY <2>1, <2>4 DEF LateInv, RunningIsKnown, Open
  <2>. QED
    BY <2>3, <2>5 DEF LateInv
<1>3. ASSUME NEW k \in Open, PumpOutput(k) PROVE LateInv'
  BY <1>3, PumpOutputKeepsLate
<1>4. CASE Evict
  BY <1>4, EvictKeepsLate
<1>5. CASE Connect
  <2>1. /\ conns' = conns + 1 /\ captured' = [captured EXCEPT ![conns'] = generation]
        /\ conns' \in Ks
        /\ UNCHANGED <<vars, generation, clearing, pump, late, origin>>
    BY <1>0, <1>5, EventPathAssumption DEF Connect, traceVars, Ks
  <2>2. UNCHANGED <<entries, appended>>
    BY <2>1 DEF vars, historyVars
  <2>3. Open' = Open \cup {conns'} /\ Open \subseteq Open' /\ conns' \notin Open
    BY <1>0, <2>1 DEF Open
  <2>4. captured \in [Ks -> Int] /\ generation \in Int
    BY DEF LateInv, LateType
  <2>5. /\ \A k \in Open : captured'[k] = captured[k]
        /\ captured'[conns'] = generation /\ captured' \in [Ks -> Int]
    BY <1>0, <2>1, <2>3, <2>4
  <2>6. origin' \in Seq(Open')
    <3>1. origin \in Seq(Open)
      BY DEF LateInv, LateType
    <3>. QED
      BY <2>1, <2>3, <3>1
  <2>7. LateType'
    BY <2>1, <2>2, <2>5, <2>6 DEF LateInv, LateType
  <2>8. RunningIsKnown'
    BY <2>1, <2>3, <2>5 DEF LateInv, RunningIsKnown
  <2>9. OnlyLatePumpsLeak'
    BY <2>1, <2>2, <2>5, IdsHaveOrigins DEF LateInv, OnlyLatePumpsLeak
  <2>. QED
    BY <2>7, <2>8, <2>9 DEF LateInv
<1>6. CASE Reset
  <2>1. /\ clearing' = TRUE /\ generation' = generation + 1
        /\ UNCHANGED <<vars, conns, captured, origin>>
    BY <1>6 DEF Reset, connVars, traceVars
  <2>2. UNCHANGED appended
    BY <2>1 DEF vars, historyVars
  <2>3. LateType'
    BY <2>1, <2>2 DEF LateInv, LateType, Open
  <2>. QED
    BY <2>1, <2>3 DEF LateInv, RunningIsKnown, OnlyLatePumpsLeak
<1>7. CASE ResetOutput
  <2>1. /\ clearing' = FALSE /\ late' = {k \in Open : pump[k] = "running"}
        /\ UNCHANGED <<conns, captured, generation, pump, origin>>
    BY <1>7 DEF ResetOutput, connVars
  <2>2. UNCHANGED appended /\ entries' = <<>>
    BY <1>7 DEF ResetOutput, DrainBuffer, Drain, vars, historyVars
  <2>3. LateType'
    BY <2>1, <2>2 DEF LateInv, LateType, Open
  <2>4. RunningIsKnown'
    BY <2>1 DEF RunningIsKnown, Open
  <2>5. OnlyLatePumpsLeak'
    BY <2>2 DEF OnlyLatePumpsLeak
  <2>. QED
    BY <2>3, <2>4, <2>5 DEF LateInv
<1>8. CASE ReadOutput
  <2>1. UNCHANGED <<conns, captured, generation, clearing, pump, late, origin>>
    BY <1>8 DEF ReadOutput, connVars, sessionVars, traceVars
  <2>2. UNCHANGED appended /\ entries' \in {<<>>, entries}
    BY <1>8 DEF ReadOutput, DrainBuffer, Drain, vars, historyVars
  <2>3. LateType' /\ RunningIsKnown'
    BY <2>1, <2>2 DEF LateInv, LateType, RunningIsKnown, Open
  <2>4. OnlyLatePumpsLeak'
    <3>1. CASE entries' = <<>>
      BY <3>1 DEF OnlyLatePumpsLeak
    <3>2. CASE entries' = entries
      BY <2>1, <3>2 DEF LateInv, OnlyLatePumpsLeak
    <3>. QED
      BY <2>2, <3>1, <3>2
  <2>. QED
    BY <2>3, <2>4 DEF LateInv
<1>9. CASE UNCHANGED pathVars
  BY <1>9 DEF pathVars, vars, historyVars, connVars, sessionVars, traceVars, LateInv,
              LateType, RunningIsKnown, OnlyLatePumpsLeak, Open
<1>. QED
  BY <1>1, <1>2, <1>3, <1>4, <1>5, <1>6, <1>7, <1>8, <1>9 DEF PathNext, Pump

\* After a reset the buffer holds nothing of a session before it, but for what
\* the pumps that the reset left running still bring.
THEOREM OnlyLatePumpsEverLeak == PathSpec => []OnlyLatePumpsLeak
<1>1. ASSUME PathInit PROVE LateInv
  <2>1. conns = 0 /\ origin = <<>> /\ appended = 0 /\ entries = <<>>
    BY <1>1 DEF PathInit, Init
  <2>2. captured \in [Ks -> Int] /\ generation \in Int /\ clearing \in BOOLEAN
    <3>1. captured = [k \in Ks |-> 0] /\ generation = 0
      BY <1>1 DEF PathInit
    <3>2. clearing \in BOOLEAN
      BY <1>1, Zenon DEF PathInit
    <3>3. captured \in [Ks -> Int] /\ generation \in Int
      BY <3>1
    <3>. QED
      BY <3>2, <3>3
  <2>3. origin \in Seq(Open) /\ Len(origin) = appended
    BY <2>1
  <2>4. RunningIsKnown /\ OnlyLatePumpsLeak
    BY <2>1 DEF RunningIsKnown, OnlyLatePumpsLeak, Open
  <2>. QED
    BY <2>2, <2>3, <2>4 DEF LateInv, LateType
<1>2. Inv /\ PathInv /\ LateInv /\ [PathNext]_pathVars => LateInv'
  BY LateStep
<1>3. LateInv => OnlyLatePumpsLeak
  BY DEF LateInv
<1>. QED
  BY <1>1, <1>2, <1>3, BufferInvOfPath, PTL DEF PathSpec
=============================================================================
