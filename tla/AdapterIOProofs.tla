-------------------------- MODULE AdapterIOProofs --------------------------
(***************************************************************************)
(* What AdapterIO promises of its two pipes, for every size and length.    *)
(*                                                                         *)
(* The stderr ring: RingKeepsTheTail is inductive by itself once the       *)
(* counters have their types; the work is in WriteRing, and it is done     *)
(* with runs: sequences of consecutive numbers.                            *)
(*                                                                         *)
(* The framed stream: ReadsWhatWasWritten speaks of frames, the reader     *)
(* sees only the items that are in the pipe.  The invariant StreamInv says *)
(* where every frame of the history lies in the stream (start), so that    *)
(* the next item is known to be the next item of the current frame, or     *)
(* what is left of one that was cut; and what read_message has made of the *)
(* frame so far.                                                           *)
(***************************************************************************)
EXTENDS AdapterIO, SequenceTheorems, TLAPS

USE AdapterIOAssumption

\* s holds the l numbers that follow m.
Run(s, m, l) ==
  s \in Seq(Nat) /\ Len(s) = l /\ \A i \in 1..l : s[i] = m + i

\* How many of the first d bytes are kept.
Kept(d) == IF d < Size THEN d ELSE Size

Counters == written \in Nat /\ drained \in Nat /\ drained <= written

Inv == Counters /\ Run(ring, drained - Kept(drained), Kept(drained))

\* A run is a function on its indices.
LEMMA RunOfIndices ==
  ASSUME NEW m \in Nat, NEW l \in Nat
  PROVE  Run([i \in 1..l |-> m + i], m, l)
<1> DEFINE f == [i \in 1..l |-> m + i]
<1>1. f \in [1..l -> Nat]
  OBVIOUS
<1>2. f \in Seq(Nat)
  BY <1>1
<1>3. Len(f) = l
  BY <1>1, <1>2, LenProperties
<1> QED
  BY <1>2, <1>3 DEF Run

\* There is one run of a start and a length.
LEMMA RunIsUnique ==
  ASSUME NEW s, NEW t, NEW m, NEW l, Run(s, m, l), Run(t, m, l)
  PROVE  s = t
<1>1. s \in Seq(Nat) /\ t \in Seq(Nat) /\ Len(s) = Len(t)
  BY DEF Run
<1>2. \A i \in 1..Len(s) : s[i] = t[i]
  BY DEF Run
<1> QED
  BY <1>1, <1>2, SeqEqual

\* A run followed by the next one is a run.
LEMMA RunThenRun ==
  ASSUME NEW s, NEW t, NEW m \in Nat, NEW k \in Nat, NEW n \in Nat,
         NEW next \in Nat, NEW l \in Nat, next = m + k, l = k + n,
         Run(s, m, k), Run(t, next, n)
  PROVE  Run(s \o t, m, l)
<1>1. s \in Seq(Nat) /\ t \in Seq(Nat) /\ Len(s) = k /\ Len(t) = n
  BY DEF Run
<1>2. /\ s \o t \in Seq(Nat)
      /\ Len(s \o t) = Len(s) + Len(t)
      /\ \A i \in 1..(Len(s) + Len(t)) :
           (s \o t)[i] = IF i <= Len(s) THEN s[i] ELSE t[i - Len(s)]
  BY <1>1, ConcatProperties
<1>3. ASSUME NEW i \in 1..l
      PROVE  (s \o t)[i] = m + i
  <2>1. (s \o t)[i] = IF i <= k THEN s[i] ELSE t[i - k]
    BY <1>1, <1>2
  <2>2. CASE i <= k
    <3>1. s[i] = m + i
      BY <2>2 DEF Run
    <3> QED
      BY <2>1, <2>2, <3>1
  <2>3. CASE ~(i <= k)
    <3>1. i - k \in 1..n
      BY <2>3
    <3>2. t[i - k] = next + (i - k)
      BY <3>1 DEF Run
    <3> QED
      BY <2>1, <2>3, <3>2
  <2> QED
    BY <2>2, <2>3
<1> QED
  BY <1>1, <1>2, <1>3 DEF Run

\* The last k elements of a run are a run.
LEMMA RunTail ==
  ASSUME NEW s, NEW m \in Nat, NEW l \in Nat, Run(s, m, l),
         NEW k \in 1..l, NEW lo \in Nat, lo = l - k + 1,
         NEW from \in Nat, from = m + l - k
  PROVE  Run(SubSeq(s, lo, l), from, k)
<1>1. \A i \in lo..l : s[i] \in Nat
  BY DEF Run
<1>2. lo \in Int /\ l \in Int
  OBVIOUS
<1>3. /\ SubSeq(s, lo, l) \in Seq(Nat)
      /\ Len(SubSeq(s, lo, l)) = IF lo <= l THEN l - lo + 1 ELSE 0
      /\ \A i \in 1..(l - lo + 1) : SubSeq(s, lo, l)[i] = s[lo + i - 1]
  BY <1>1, <1>2, SubSeqProperties
<1>4. l - lo + 1 = k /\ lo <= l
  OBVIOUS
<1>5. ASSUME NEW i \in 1..k
      PROVE  SubSeq(s, lo, l)[i] = from + i
  <2>1. lo + i - 1 \in 1..l /\ m + (lo + i - 1) = from + i
    OBVIOUS
  <2>2. s[lo + i - 1] = m + (lo + i - 1)
    BY <2>1 DEF Run
  <2> QED
    BY <1>3, <1>4, <2>1, <2>2
<1> QED
  BY <1>3, <1>4, <1>5 DEF Run

\* StderrBuffer::write keeps the newest bytes, whatever the size of the
\* write: over the capacity alone, with what is there, or not at all.
LEMMA WriteRingKeepsNewest ==
  ASSUME NEW d \in Nat, NEW n \in Nat, n # 0, NEW e \in Nat, e = d + n,
         NEW buf, Run(buf, d - Kept(d), Kept(d)), NEW data, Run(data, d, n)
  PROVE  Run(WriteRing(buf, data), e - Kept(e), Kept(e))
<1>1. PICK k \in Nat, m \in Nat : k = Kept(d) /\ m = d - k /\ k <= d
  <2>1. Kept(d) \in Nat /\ d - Kept(d) \in Nat /\ Kept(d) <= d
    BY DEF Kept
  <2> QED
    BY <2>1
<1>2. PICK l \in Nat : l = k + n
  BY <1>1
<1>3. d = m + k /\ e = m + l
  BY <1>1, <1>2
<1>4. PICK all : all = buf \o data
  OBVIOUS
<1>5. Run(all, m, l)
  <2>1. Run(buf, m, k)
    BY <1>1
  <2> QED
    BY <1>1, <1>2, <1>3, <1>4, <2>1, RunThenRun
<1>6. Len(data) = n /\ Len(all) = l
  BY <1>5 DEF Run
<1>7. Size \in Nat /\ Size # 0
  OBVIOUS
<1>8. CASE n >= Size
  <2>1. PICK lo \in Nat, from \in Nat : lo = n - Size + 1 /\ from = d + n - Size
    <3>1. n - Size + 1 \in Nat /\ d + n - Size \in Nat
      BY <1>7, <1>8
    <3> QED
      BY <3>1
  <2>2. Size \in 1..n
    BY <1>7, <1>8
  <2>3. Run(SubSeq(data, lo, n), from, Size)
    BY <2>1, <2>2, RunTail
  <2>4. WriteRing(buf, data) = SubSeq(data, lo, n)
    BY <1>6, <1>8, <2>1 DEF WriteRing
  <2>5. Kept(e) = Size /\ from = e - Kept(e)
    BY <1>7, <1>8, <2>1 DEF Kept
  <2> QED
    BY <2>3, <2>4, <2>5
<1>9. CASE n < Size /\ l > Size
  <2>1. PICK lo \in Nat, from \in Nat : lo = l - Size + 1 /\ from = m + l - Size
    <3>1. l - Size + 1 \in Nat /\ m + l - Size \in Nat
      BY <1>1, <1>2, <1>7, <1>9
    <3> QED
      BY <3>1
  <2>2. Size \in 1..l
    BY <1>2, <1>7, <1>9
  <2>3. Run(SubSeq(all, lo, l), from, Size)
    BY <1>1, <1>2, <1>5, <2>1, <2>2, RunTail
  <2>4. WriteRing(buf, data) = SubSeq(all, lo, l)
    <3>1. ~(n >= Size)
      BY <1>7, <1>9
    <3> QED
      BY <1>4, <1>6, <1>9, <2>1, <3>1 DEF WriteRing
  <2>5. Kept(e) = Size /\ from = e - Kept(e)
    BY <1>1, <1>2, <1>3, <1>7, <1>9, <2>1 DEF Kept
  <2> QED
    BY <2>3, <2>4, <2>5
<1>10. CASE n < Size /\ ~(l > Size)
  <2>1. WriteRing(buf, data) = all
    <3>1. ~(n >= Size)
      BY <1>7, <1>10
    <3> QED
      BY <1>4, <1>6, <1>10, <3>1 DEF WriteRing
  <2>2. k = d /\ m = 0 /\ l = e
    BY <1>1, <1>2, <1>3, <1>7, <1>10 DEF Kept
  <2>3. Kept(e) = l /\ e - Kept(e) = m
    BY <1>2, <1>7, <1>10, <2>2 DEF Kept
  <2> QED
    BY <1>5, <2>1, <2>3
<1>11. n >= Size \/ (n < Size /\ l > Size) \/ (n < Size /\ ~(l > Size))
  BY <1>7
<1> QED
  BY <1>8, <1>9, <1>10, <1>11

\* The ring is a run of the newest bytes at every step of every behaviour.
LEMMA InvInductive == Spec => []Inv
<1>1. Init => Inv
  <2> SUFFICES ASSUME Init PROVE Inv
    OBVIOUS
  <2>1. Counters /\ drained = 0 /\ ring = <<>>
    BY DEF Init, Counters
  <2>2. Kept(0) = 0
    BY DEF Kept
  <2>3. Run(<<>>, 0, 0)
    BY EmptySeq DEF Run
  <2> QED
    BY <2>1, <2>2, <2>3 DEF Inv
<1>2. Inv /\ [Next]_vars => Inv'
  <2> SUFFICES ASSUME Inv, [Next]_vars PROVE Inv'
    OBVIOUS
  <2>1. CASE UNCHANGED stderrVars
    BY <2>1 DEF Inv, Counters, stderrVars, Run, Kept
  <2>2. CASE WriteStderr
    BY <2>2 DEF Inv, Counters, WriteStderr, Run, Kept
  <2>3. CASE DrainStderr
    <3>1. PICK n \in 1..(written - drained) :
            /\ drained' = drained + n
            /\ ring' = WriteRing(ring, [i \in 1..n |-> drained + i])
            /\ UNCHANGED <<alive, streamVars, readerVars, written>>
      BY <2>3 DEF DrainStderr
    <3>2. n \in Nat /\ n # 0 /\ drained \in Nat /\ drained' \in Nat
      BY <3>1 DEF Inv, Counters
    <3>3. Run([i \in 1..n |-> drained + i], drained, n)
      BY <3>2, RunOfIndices
    <3>4. Run(ring', drained' - Kept(drained'), Kept(drained'))
      <4>1. PICK data : data = [i \in 1..n |-> drained + i]
        OBVIOUS
      <4>2. Run(data, drained, n)
        BY <3>3, <4>1
      <4>3. Run(ring, drained - Kept(drained), Kept(drained))
        BY DEF Inv
      <4>4. ring' = WriteRing(ring, data)
        BY <3>1, <4>1
      <4> QED
        BY <3>1, <3>2, <4>2, <4>3, <4>4, WriteRingKeepsNewest
    <3>5. Counters'
      BY <3>1, <3>2 DEF Inv, Counters
    <3> QED
      BY <3>4, <3>5 DEF Inv, Run, Kept
  <2>4. CASE BeginFrame
    BY <2>1, <2>4 DEF BeginFrame
  <2>5. CASE WriteItem
    BY <2>1, <2>5 DEF WriteItem
  <2>6. CASE Die
    BY <2>1, <2>6 DEF Die
  <2>7. CASE ReadLine
    BY <2>1, <2>7 DEF ReadLine
  <2>8. CASE HeaderEof
    BY <2>1, <2>8 DEF HeaderEof
  <2>9. CASE ReadBody
    BY <2>1, <2>9 DEF ReadBody
  <2>10. CASE BodyEof
    BY <2>1, <2>10 DEF BodyEof
  <2>11. CASE UNCHANGED vars
    BY <2>1, <2>11 DEF vars
  <2> QED
    BY <2>2, <2>3, <2>4, <2>5, <2>6, <2>7, <2>8, <2>9, <2>10, <2>11 DEF Next
<1> QED
  BY <1>1, <1>2, PTL DEF Spec

\* However stderr is written and read, the ring holds the last Size bytes of
\* it (StderrBuffer::write).
THEOREM TheTailIsKept == Spec => []RingKeepsTheTail
<1>1. Inv => RingKeepsTheTail
  <2> SUFFICES ASSUME Inv PROVE RingKeepsTheTail
    OBVIOUS
  <2>1. PICK k \in Nat, m \in Nat : k = Kept(drained) /\ m = drained - k
    BY DEF Inv, Counters, Kept
  <2>2. Run(ring, m, k)
    BY <2>1 DEF Inv
  <2>3. Run([i \in 1..k |-> m + i], m, k)
    BY <2>1, RunOfIndices
  <2>4. ring = [i \in 1..k |-> m + i]
    BY <2>2, <2>3, RunIsUnique
  <2> QED
    BY <2>1, <2>4 DEF RingKeepsTheTail, Kept
<1> QED
  BY <1>1, InvInductive, PTL

----------------------------------------------------------------------------
(* The items of a frame *)

ItemKinds == {"length", "unparsable", "notUtf8", "other", "blank", "byte"}
ItemType == [kind : ItemKinds, value : Nat]

\* How many items a frame is written as.
Count(f) == Len(f.header) + 1 + f.length

LEMMA HeaderFacts ==
  ASSUME NEW n \in Nat, NEW h \in Headers(n)
  PROVE  /\ h \in Seq(ItemType) /\ Len(h) \in Nat /\ Len(h) # 0
         /\ \A o \in 1..Len(h) : h[o] \in {Length(n), Unparsable, NotUtf8, Other}
         /\ \A o \in 1..Len(h) : h[o] \in {Unparsable, NotUtf8} => Length(n) \notin ToSet(h)
<1>1. {Length(n), Unparsable, NotUtf8, Other} \subseteq ItemType
  BY DEF Length, Unparsable, NotUtf8, Other, Line, ItemType, ItemKinds
<1>2. /\ Length(n) # Unparsable /\ Length(n) # NotUtf8 /\ Length(n) # Other
      /\ Unparsable # Other /\ NotUtf8 # Other
  BY DEF Length, Unparsable, NotUtf8, Other, Line
<1> HIDE DEF Length, Unparsable, NotUtf8, Other
<1>3. ASSUME NEW a \in {Length(n), Unparsable, NotUtf8, Other}, h = <<a>>
      PROVE  /\ h \in Seq(ItemType) /\ Len(h) = 1 /\ h[1] = a /\ ToSet(h) = {a}
  <2>1. a \in ItemType
    BY <1>1
  <2>2. h \in Seq(ItemType) /\ Len(h) = 1 /\ h[1] = a /\ DOMAIN h = {1}
    BY <1>3, <2>1
  <2> QED
    BY <2>2 DEF ToSet
<1>4. ASSUME NEW a \in {Length(n), Other}, NEW b \in {Length(n), Other}, h = <<a, b>>
      PROVE  /\ h \in Seq(ItemType) /\ Len(h) = 2 /\ h[1] = a /\ h[2] = b
  <2>1. a \in ItemType /\ b \in ItemType
    BY <1>1
  <2> QED
    BY <1>4, <2>1
<1>5. CASE \E a \in {Length(n), Unparsable, NotUtf8, Other} : h = <<a>>
  BY <1>2, <1>3, <1>5
<1>6. CASE \E a, b \in {Length(n), Other} : h = <<a, b>>
  <2>1. PICK a \in {Length(n), Other}, b \in {Length(n), Other} : h = <<a, b>>
    BY <1>6
  <2>2. h \in Seq(ItemType) /\ Len(h) = 2 /\ h[1] = a /\ h[2] = b
    BY <1>4, <2>1
  <2>3. \A o \in 1..Len(h) : h[o] \in {Length(n), Other}
    BY <2>2
  <2> QED
    BY <1>2, <2>2, <2>3
<1>7. \/ \E a \in {Length(n), Unparsable, NotUtf8, Other} : h = <<a>>
      \/ \E a, b \in {Length(n), Other} : h = <<a, b>>
  BY DEF Headers
<1> QED
  BY <1>5, <1>6, <1>7

LEMMA ItemAt ==
  ASSUME NEW f, f.length \in Nat, f.header \in Headers(f.length), NEW i \in Nat
  PROVE  /\ Items(f, i) \in Seq(ItemType) /\ Len(Items(f, i)) = Count(f)
         /\ Count(f) \in Nat /\ Count(f) # 0
         /\ \A o \in 1..Len(f.header) : Items(f, i)[o] = f.header[o]
         /\ Items(f, i)[Len(f.header) + 1] = Blank
         /\ \A b \in 1..f.length : Items(f, i)[Len(f.header) + 1 + b] = Line("byte", i)
<1> DEFINE h == f.header
           body == [b \in 1..f.length |-> Line("byte", i)]
           front == h \o <<Blank>>
<1>1. h \in Seq(ItemType) /\ Len(h) \in Nat /\ Len(h) # 0
  BY HeaderFacts
<1>2. <<Blank>> \in Seq(ItemType) /\ Len(<<Blank>>) = 1 /\ <<Blank>>[1] = Blank
  BY DEF Blank, Line, ItemType, ItemKinds
<1>3. /\ body \in Seq(ItemType) /\ Len(body) = f.length
      /\ \A b \in 1..f.length : body[b] = Line("byte", i)
  <2>1. body \in [1..f.length -> ItemType]
    BY DEF Line, ItemType, ItemKinds
  <2>2. body \in Seq(ItemType)
    BY <2>1
  <2> QED
    BY <2>1, <2>2, LenProperties
<1>4. Items(f, i) = front \o body
  BY DEF Items
<1> HIDE DEF body
<1>5. /\ front \in Seq(ItemType) /\ Len(front) = Len(h) + 1
      /\ \A o \in 1..Len(h) : front[o] = h[o]
      /\ front[Len(h) + 1] = Blank
  <2>1. /\ front \in Seq(ItemType)
        /\ Len(front) = Len(h) + Len(<<Blank>>)
        /\ \A o \in 1..(Len(h) + Len(<<Blank>>)) :
             front[o] = IF o <= Len(h) THEN h[o] ELSE <<Blank>>[o - Len(h)]
    BY <1>1, <1>2, ConcatProperties
  <2>2. \A o \in 1..Len(h) : front[o] = h[o]
    BY <1>1, <1>2, <2>1
  <2>3. front[Len(h) + 1] = <<Blank>>[1]
    <3>1. Len(h) + 1 \in 1..(Len(h) + 1) /\ ~(Len(h) + 1 <= Len(h)) /\ Len(h) + 1 - Len(h) = 1
      BY <1>1
    <3> QED
      BY <1>2, <2>1, <3>1
  <2> QED
    BY <1>1, <1>2, <2>1, <2>2, <2>3
<1> HIDE DEF front
<1>6. /\ front \o body \in Seq(ItemType) /\ Len(front \o body) = Len(front) + Len(body)
      /\ \A o \in 1..(Len(front) + Len(body)) :
           (front \o body)[o] = IF o <= Len(front) THEN front[o] ELSE body[o - Len(front)]
  BY <1>3, <1>5, ConcatProperties
<1>7. ASSUME NEW o \in 1..Len(h) PROVE Items(f, i)[o] = h[o]
  <2>1. o \in 1..(Len(front) + Len(body)) /\ o <= Len(front)
    BY <1>1, <1>3, <1>5
  <2> QED
    BY <1>4, <1>5, <1>6, <2>1
<1>8. Items(f, i)[Len(h) + 1] = Blank
  <2>1. Len(h) + 1 \in 1..(Len(front) + Len(body)) /\ Len(h) + 1 <= Len(front)
    BY <1>1, <1>3, <1>5
  <2> QED
    BY <1>4, <1>5, <1>6, <2>1
<1>9. ASSUME NEW b \in 1..f.length PROVE Items(f, i)[Len(h) + 1 + b] = Line("byte", i)
  <2>1. PICK o \in Nat : o = Len(h) + 1 + b
    BY <1>1
  <2>2. o \in 1..(Len(front) + Len(body)) /\ ~(o <= Len(front)) /\ o - Len(front) = b
    BY <1>1, <1>3, <1>5, <2>1
  <2>3. Items(f, i)[o] = body[b]
    BY <1>4, <1>6, <2>2
  <2> QED
    BY <1>3, <2>1, <2>3
<1>10. Count(f) = Len(front) + Len(body) /\ Count(f) \in Nat /\ Count(f) # 0
  BY <1>1, <1>3, <1>5 DEF Count
<1> QED
  BY <1>4, <1>6, <1>7, <1>8, <1>9, <1>10

StreamType ==
  /\ alive \in BOOLEAN
  /\ frames \in Seq(Frames)
  /\ \A f \in 1..Len(frames) : frames[f].header \in Headers(frames[f].length)
  /\ unwritten \in Seq(ItemType)
  /\ unwritten # <<>> => Len(frames) # 0
  /\ pipe \in Seq(ItemType)
  /\ phase \in {"header", "body"} \cup Errors
  /\ firstLine \in BOOLEAN
  /\ contentLength \in Nat \cup {None}
  /\ received \in Seq(Nat)

\* A frame of the history, and what its place says.
LEMMA FrameFacts ==
  ASSUME StreamType, NEW k \in 1..Len(frames)
  PROVE  /\ frames[k].length \in Nat
         /\ Len(frames[k].header) \in Nat /\ Len(frames[k].header) # 0
         /\ Count(frames[k]) = Len(frames[k].header) + 1 + frames[k].length
         /\ Items(frames[k], k) \in Seq(ItemType) /\ Len(Items(frames[k], k)) = Count(frames[k])
         /\ \A o \in 1..Len(frames[k].header) :
              /\ Items(frames[k], k)[o] = frames[k].header[o]
              /\ frames[k].header[o] \in {Length(frames[k].length), Unparsable, NotUtf8, Other}
              /\ frames[k].header[o] \in {Unparsable, NotUtf8} =>
                   Length(frames[k].length) \notin ToSet(frames[k].header)
         /\ Items(frames[k], k)[Len(frames[k].header) + 1] = Blank
         /\ \A b \in 1..frames[k].length :
              Items(frames[k], k)[Len(frames[k].header) + 1 + b] = Line("byte", k)
<1>1. frames[k] \in Frames /\ frames[k].header \in Headers(frames[k].length) /\ k \in Nat
  BY DEF StreamType
<1>2. frames[k].length \in Nat
  BY <1>1 DEF Frames
<1>3. /\ Len(frames[k].header) \in Nat /\ Len(frames[k].header) # 0
      /\ \A o \in 1..Len(frames[k].header) :
           /\ frames[k].header[o] \in {Length(frames[k].length), Unparsable, NotUtf8, Other}
           /\ frames[k].header[o] \in {Unparsable, NotUtf8} =>
                Length(frames[k].length) \notin ToSet(frames[k].header)
  BY <1>1, <1>2, HeaderFacts
<1>4. Count(frames[k]) = Len(frames[k].header) + 1 + frames[k].length
  BY DEF Count
<1>5. /\ Items(frames[k], k) \in Seq(ItemType) /\ Len(Items(frames[k], k)) = Count(frames[k])
      /\ \A o \in 1..Len(frames[k].header) : Items(frames[k], k)[o] = frames[k].header[o]
      /\ Items(frames[k], k)[Len(frames[k].header) + 1] = Blank
      /\ \A b \in 1..frames[k].length :
           Items(frames[k], k)[Len(frames[k].header) + 1 + b] = Line("byte", k)
  BY <1>1, <1>2, ItemAt
<1> QED
  BY <1>2, <1>3, <1>4, <1>5

----------------------------------------------------------------------------
(* The stream: the inductive invariant *)

\* The last whole item of the stream, counted like the items of pipe.
End(start) == start[Len(frames) + 1] - Len(unwritten)

\* start[f] + o is the place in pipe of item o of frame f, and places that are
\* not positive have been read.
Places(start) ==
  /\ start \in [1..(Len(frames) + 1) -> Int]
  /\ \A f \in 1..Len(frames) : start[f + 1] = start[f] + Count(frames[f])
  /\ \A f, g \in 1..(Len(frames) + 1) : f <= g => start[f] <= start[g]

Contents(start) ==
  \A f \in 1..Len(frames) : \A o \in 1..Count(frames[f]) : \A p \in 1..Len(pipe) :
    p = start[f] + o /\ p <= End(start) => pipe[p] = Items(frames[f], f)[o]

\* The stream ends with a whole item, or with what is left of one that was cut.
Ending(start) ==
  \/ Len(pipe) = End(start)
  \/ /\ Cut /\ Len(pipe) = End(start) + 1
     /\ Len(pipe) # 0 => <<pipe[Len(pipe)]>> \in Cuts(unwritten[1])

Layout(start) == Places(start) /\ Contents(start) /\ Ending(start)

\* What is not written yet is the end of the last frame, and a process that
\* ended inside a frame has left something of it.
Unwritten(start) ==
  unwritten # <<>> =>
    LET n == Len(frames) IN
    /\ Len(unwritten) <= Count(frames[n])
    /\ \A j \in 1..Len(unwritten) :
         unwritten[j] = Items(frames[n], n)[Count(frames[n]) - Len(unwritten) + j]
    /\ ~alive /\ Len(unwritten) = Count(frames[n]) => Len(pipe) = End(start) + 1

\* The frame that read_message is reading, or the one after the last.
Current == Len(received) + 1

\* k is that frame, o the number of its items that are read, e the end.
At(start, k, o, e) ==
  /\ k = Current /\ k <= Len(frames) + 1
  /\ start[k] + o = 0
  /\ e = End(start)

AfterTheLast(k, o) ==
  /\ k = Len(frames) + 1 /\ o = 0 /\ unwritten = <<>>
  /\ phase = "header" /\ firstLine /\ contentLength = None

\* read_header: what it has made of the lines it has read.  After a line that
\* was cut there is nothing left to read.
InHeader(k, f, o, e) ==
  /\ k <= Len(frames) /\ f = frames[k]
  /\ phase = "header" /\ o <= Len(f.header)
  /\ firstLine <=> o = 0
  /\ firstLine => contentLength = None
  /\ e >= 0 /\ contentLength = None => \A i \in 1..o : f.header[i] = Other
  /\ e >= 0 /\ contentLength # None =>
       /\ contentLength = f.length /\ f.length <= MaxLength
       /\ Length(f.length) \in ToSet(f.header)

\* read_exact_body: the header said how long the body is.
InBody(k, f, o) ==
  /\ k <= Len(frames) /\ f = frames[k]
  /\ phase = "body" /\ o = Len(f.header) + 1
  /\ contentLength = f.length /\ f.length <= MaxLength
  /\ Length(f.length) \in ToSet(f.header)

Position(start) ==
  \E k \in Nat, o \in Nat, e \in Int :
    /\ At(start, k, o, e)
    /\ \/ AfterTheLast(k, o)
       \/ \E f : InHeader(k, f, o, e) \/ InBody(k, f, o)

ReceivedInv ==
  /\ received = [i \in 1..Len(received) |-> i]
  /\ Len(received) <= Len(frames)
  /\ \A f \in 1..Len(received) : Sound(frames[f])

\* Why read_message has failed: the frame does not deserve better and part of
\* it has been written, or it was cut, or the stream ended after a frame.
FailedInv ==
  phase \in Errors =>
    \/ /\ phase \notin {"Eof", "UnexpectedEof"} /\ Current <= Len(frames) /\ ~Sound(frames[Current])
       /\ Current = Len(frames) => Len(unwritten) < Count(frames[Current])
    \/ phase # "Eof" /\ Cut /\ Current = Len(frames)
    \/ phase = "Eof" /\ ~alive /\ ~Cut /\ Current = Len(frames) + 1

ReadingInv ==
  phase \notin Errors =>
    \E start : Layout(start) /\ Unwritten(start) /\ Position(start)

StreamInv == StreamType /\ ReceivedInv /\ FailedInv /\ ReadingInv

----------------------------------------------------------------------------
(* Places in the stream *)

\* What can be left of an item that was being written.
LEMMA CutFacts ==
  ASSUME NEW item \in ItemType, NEW x, <<x>> \in Cuts(item)
  PROVE  /\ x \in ItemType
         /\ \/ item.kind = "length" /\ (x = Other \/ x = Unparsable \/ \E v \in Nat : x = Length(v))
            \/ item.kind = "notUtf8" /\ (x = Other \/ x = item)
            \/ item.kind \notin {"length", "notUtf8", "byte"} /\ x = item
<1>1. {Unparsable, NotUtf8, Other} \subseteq ItemType /\ \A v \in Nat : Length(v) \in ItemType
  BY DEF Length, Unparsable, NotUtf8, Other, Line, ItemType, ItemKinds
<1>2. \A y : <<x>> = <<y>> => x = y
  <2> SUFFICES ASSUME NEW y, <<x>> = <<y>> PROVE x = y
    OBVIOUS
  <2>1. <<x>>[1] = <<y>>[1]
    OBVIOUS
  <2> QED
    BY <2>1
<1>3. <<x>> # <<>>
  OBVIOUS
<1>4. item.value \in Nat
  BY DEF ItemType
<1> HIDE DEF Length, Unparsable, NotUtf8, Other
<1>5. CASE item.kind = "length"
  <2>1. <<x>> \in {<<>>} \cup ({<<Other>>, <<Unparsable>>} \cup {<<Length(v)>> : v \in 0..item.value})
    BY <1>5 DEF Cuts
  <2>2. \/ <<x>> = <<Other>> \/ <<x>> = <<Unparsable>>
        \/ \E v \in 0..item.value : <<x>> = <<Length(v)>>
    BY <1>3, <2>1
  <2>3. x = Other \/ x = Unparsable \/ \E v \in Nat : x = Length(v)
    BY <1>2, <1>4, <2>2
  <2> QED
    BY <1>1, <1>5, <2>3
<1>6. CASE item.kind = "byte"
  BY <1>3, <1>6 DEF Cuts
<1>7. CASE item.kind \notin {"length", "notUtf8", "byte"}
  <2>1. <<x>> \in {<<>>} \cup {<<item>>}
    BY <1>7 DEF Cuts
  <2> QED
    BY <1>2, <1>3, <1>7, <2>1
<1>8. CASE item.kind = "notUtf8"
  <2>1. <<x>> \in {<<>>} \cup {<<Other>>, <<item>>}
    BY <1>8 DEF Cuts
  <2>2. x = Other \/ x = item
    BY <1>2, <1>3, <2>1
  <2> QED
    BY <1>1, <1>8, <2>2
<1> QED
  BY <1>5, <1>6, <1>7, <1>8

\* The places are numbers, and the last whole item is before the end.
LEMMA PlaceFacts ==
  ASSUME StreamType, NEW start, Places(start)
  PROVE  /\ Len(frames) \in Nat /\ Len(pipe) \in Nat /\ Len(unwritten) \in Nat
         /\ start \in [1..(Len(frames) + 1) -> Int]
         /\ End(start) \in Int /\ End(start) = start[Len(frames) + 1] - Len(unwritten)
         /\ \A f \in 1..Len(frames) :
              /\ f \in Nat /\ f + 1 \in 1..(Len(frames) + 1) /\ f \in 1..(Len(frames) + 1)
              /\ Count(frames[f]) \in Nat
              /\ start[f] \in Int /\ start[f + 1] \in Int
              /\ start[f + 1] = start[f] + Count(frames[f])
<1>1. Len(frames) \in Nat /\ Len(pipe) \in Nat /\ Len(unwritten) \in Nat
  BY DEF StreamType
<1>2. start \in [1..(Len(frames) + 1) -> Int]
  BY DEF Places
<1>3. Len(frames) + 1 \in 1..(Len(frames) + 1)
  BY <1>1
<1>4. \A f \in 1..Len(frames) :
        f \in Nat /\ f + 1 \in 1..(Len(frames) + 1) /\ f \in 1..(Len(frames) + 1)
  BY <1>1
<1>5. \A f \in 1..Len(frames) : Count(frames[f]) \in Nat
  <2> SUFFICES ASSUME NEW f \in 1..Len(frames) PROVE Count(frames[f]) \in Nat
    OBVIOUS
  <2>1. /\ frames[f].length \in Nat /\ Len(frames[f].header) \in Nat
        /\ Count(frames[f]) = Len(frames[f].header) + 1 + frames[f].length
    BY FrameFacts
  <2> QED
    BY <2>1
<1>6. \A f \in 1..Len(frames) : start[f + 1] = start[f] + Count(frames[f])
  BY DEF Places
<1>7. start[Len(frames) + 1] \in Int
  BY <1>2, <1>3
<1>8. End(start) = start[Len(frames) + 1] - Len(unwritten)
  BY DEF End
<1>9. End(start) \in Int
  BY <1>1, <1>7, <1>8
<1>10. \A f \in 1..Len(frames) : start[f] \in Int /\ start[f + 1] \in Int
  BY <1>2, <1>4
<1> QED
  BY <1>1, <1>2, <1>4, <1>5, <1>6, <1>8, <1>9, <1>10

\* What is read is taken off every place.
LEMMA Consumed ==
  ASSUME StreamType, NEW start, Layout(start), Unwritten(start),
         NEW m \in Nat, m <= Len(pipe),
         pipe' = SubSeq(pipe, m + 1, Len(pipe)), UNCHANGED <<alive, frames, unwritten>>,
         NEW next, next = [f \in 1..(Len(frames) + 1) |-> start[f] - m]
  PROVE  Layout(next)' /\ Unwritten(next)' /\ End(next)' = End(start) - m
<1>0. Places(start) /\ Contents(start) /\ Ending(start)
  BY DEF Layout
<1>1. PICK n \in Nat, l \in Nat, u \in Nat, e \in Int :
        /\ n = Len(frames) /\ l = Len(pipe) /\ u = Len(unwritten) /\ e = End(start)
        /\ e = start[n + 1] - u
  BY <1>0, PlaceFacts
<1>2. start \in [1..(n + 1) -> Int] /\ n + 1 \in 1..(n + 1)
  BY <1>0, <1>1, PlaceFacts
<1>3. /\ pipe' \in Seq(ItemType) /\ Len(pipe') = l - m
      /\ \A i \in 1..(l - m) : pipe'[i] = pipe[m + i]
  <2>1. \A i \in (m + 1)..l : pipe[i] \in ItemType
    BY <1>1 DEF StreamType
  <2>2. m + 1 \in Int /\ l \in Int
    OBVIOUS
  <2>3. /\ SubSeq(pipe, m + 1, l) \in Seq(ItemType)
        /\ Len(SubSeq(pipe, m + 1, l)) = IF m + 1 <= l THEN l - (m + 1) + 1 ELSE 0
        /\ \A i \in 1..(l - (m + 1) + 1) : SubSeq(pipe, m + 1, l)[i] = pipe[(m + 1) + i - 1]
    BY <2>1, <2>2, SubSeqProperties
  <2>4. PICK q : q = SubSeq(pipe, m + 1, l) /\ pipe' = q
    BY <1>1
  <2>5. Len(q) = l - m
    BY <1>1, <2>3, <2>4
  <2>6. \A i \in 1..(l - m) : q[i] = pipe[m + i]
    <3> SUFFICES ASSUME NEW i \in 1..(l - m) PROVE q[i] = pipe[m + i]
      OBVIOUS
    <3>1. i \in 1..(l - (m + 1) + 1) /\ (m + 1) + i - 1 = m + i
      OBVIOUS
    <3> QED
      BY <2>3, <2>4, <3>1
  <2> QED
    BY <2>3, <2>4, <2>5, <2>6
<1>4. next \in [1..(n + 1) -> Int] /\ \A f \in 1..(n + 1) : next[f] = start[f] - m
  BY <1>1, <1>2
<1>5. UNCHANGED <<alive, frames, unwritten>> /\ Len(frames)' = n /\ Len(unwritten)' = u
  BY <1>1
<1>6. End(next)' = e - m
  <2>1. End(next)' = next[n + 1] - u
    BY <1>5 DEF End
  <2>2. next[n + 1] = start[n + 1] - m /\ start[n + 1] \in Int
    BY <1>2, <1>4
  <2> QED
    BY <1>1, <2>1, <2>2
<1>7. Places(next)'
  <2>1. ASSUME NEW f \in 1..n PROVE next[f + 1] = next[f] + Count(frames[f])
    <3>1. f \in 1..(n + 1) /\ f + 1 \in 1..(n + 1) /\ Count(frames[f]) \in Nat
          /\ start[f + 1] = start[f] + Count(frames[f]) /\ start[f] \in Int
      BY <1>0, <1>1, PlaceFacts
    <3> QED
      BY <1>4, <3>1
  <2>2. ASSUME NEW f \in 1..(n + 1), NEW g \in 1..(n + 1), f <= g
        PROVE  next[f] <= next[g]
    <3>1. start[f] <= start[g] /\ start[f] \in Int /\ start[g] \in Int
      BY <1>0, <1>1, <1>2, <2>2 DEF Places
    <3> QED
      BY <1>4, <3>1
  <2> QED
    BY <1>4, <1>5, <2>1, <2>2 DEF Places
<1>8. Contents(next)'
  <2>1. ASSUME NEW f \in 1..n, NEW o \in 1..Count(frames[f]), NEW p \in 1..(l - m),
               p = next[f] + o, p <= e - m
        PROVE  pipe'[p] = Items(frames[f], f)[o]
    <3>1. f \in 1..(n + 1) /\ start[f] \in Int /\ Count(frames[f]) \in Nat
      BY <1>0, <1>1, PlaceFacts
    <3>2. next[f] = start[f] - m
      BY <1>4, <3>1
    <3>3. PICK q \in 1..l : q = m + p
      BY <1>1
    <3>4. q = start[f] + o /\ q <= e
      <4>1. PICK s \in Int : s = start[f]
        BY <3>1
      <4>2. next[f] = s - m
        BY <3>2, <4>1
      <4>3. o \in Int
        BY <3>1
      <4>4. p = (s - m) + o /\ p <= e - m
        BY <2>1, <4>2
      <4>5. q = s + o
        BY <3>3, <4>3, <4>4
      <4>6. q <= e
        BY <3>3, <4>3, <4>4
      <4> QED
        BY <4>1, <4>5, <4>6
    <3>5. pipe[q] = Items(frames[f], f)[o]
      <4>1. \A i \in 1..Len(frames) : \A j \in 1..Count(frames[i]) : \A r \in 1..Len(pipe) :
              r = start[i] + j /\ r <= End(start) => pipe[r] = Items(frames[i], i)[j]
        BY <1>0 DEF Contents
      <4>2. f \in 1..Len(frames) /\ q \in 1..Len(pipe) /\ q <= End(start)
        BY <1>1, <3>3, <3>4
      <4> HIDE DEF Items, Count
      <4> QED
        BY <3>4, <4>1, <4>2
    <3> QED
      BY <1>3, <3>3, <3>5
  <2>2. \A f \in 1..Len(frames') : \A o \in 1..Count(frames'[f]) : \A p \in 1..Len(pipe') :
          p = next[f] + o /\ p <= next[Len(frames') + 1] - Len(unwritten') =>
            pipe'[p] = Items(frames'[f], f)[o]
    <3> TAKE f \in 1..Len(frames')
    <3> TAKE o \in 1..Count(frames'[f])
    <3> TAKE p \in 1..Len(pipe')
    <3> HAVE p = next[f] + o /\ p <= next[Len(frames') + 1] - Len(unwritten')
    <3>0. End(next)' = next[Len(frames') + 1] - Len(unwritten')
      BY DEF End
    <3>1. f \in 1..n /\ o \in 1..Count(frames[f]) /\ p \in 1..(l - m) /\ p <= e - m
      BY <1>1, <1>3, <1>5, <1>6, <3>0
    <3>2. pipe'[p] = Items(frames[f], f)[o]
      BY <2>1, <3>1
    <3> QED
      BY <1>5, <3>2
  <2>3. Contents(next)' <=>
          \A f \in 1..Len(frames') : \A o \in 1..Count(frames'[f]) : \A p \in 1..Len(pipe') :
            p = next[f] + o /\ p <= next[Len(frames') + 1] - Len(unwritten') =>
              pipe'[p] = Items(frames'[f], f)[o]
    BY DEF Contents, End
  <2> QED
    BY <2>2, <2>3
<1>9. Ending(next)'
  <2>1. CASE l = e
    <3>1. Len(pipe') = End(next)'
      BY <1>3, <1>6, <2>1
    <3> QED
      BY <3>1 DEF Ending
  <2>2. CASE l # e
    <3>1. Cut /\ l = e + 1 /\ (l # 0 => <<pipe[l]>> \in Cuts(unwritten[1]))
      BY <1>0, <1>1, <2>2 DEF Ending
    <3>2. Cut'
      BY <1>5, <3>1 DEF Cut
    <3>3. Len(pipe') = End(next)' + 1
      BY <1>3, <1>6, <3>1
    <3>4. ASSUME Len(pipe') # 0 PROVE pipe'[Len(pipe')] = pipe[l] /\ l # 0
      <4>1. l - m \in 1..(l - m) /\ m + (l - m) = l
        BY <1>1, <1>3, <3>4
      <4>2. pipe'[l - m] = pipe[m + (l - m)]
        BY <1>3, <4>1
      <4>3. m + (l - m) = l /\ l # 0
        BY <1>1, <1>3, <3>4
      <4> QED
        BY <1>3, <4>2, <4>3
    <3>5. Len(pipe') # 0 => <<pipe'[Len(pipe')]>> \in Cuts(unwritten'[1])
      BY <1>5, <3>1, <3>4
    <3> QED
      BY <3>2, <3>3, <3>5 DEF Ending
  <2> QED
    BY <2>1, <2>2
<1>10. Unwritten(next)'
  <2>1. Len(pipe) = End(start) + 1 => Len(pipe') = End(next)' + 1
    <3>1. Len(pipe') = l - m
      BY <1>3
    <3>2. l = e + 1 => l - m = (e - m) + 1
      OBVIOUS
    <3> QED
      BY <1>1, <1>6, <3>1, <3>2
  <2> DEFINE c == Count(frames[n])
  <2>2. ASSUME unwritten # <<>>
        PROVE  /\ u <= c
               /\ \A j \in 1..u : unwritten[j] = Items(frames[n], n)[c - u + j]
               /\ ~alive /\ u = c => Len(pipe') = End(next)' + 1
    BY <1>1, <2>1, <2>2 DEF Unwritten
  <2> QED
    BY <1>5, <2>2 DEF Unwritten
<1> QED
  BY <1>1, <1>6, <1>7, <1>8, <1>9, <1>10 DEF Layout

\* The last whole item belongs to the last frame or to none after it.
LEMMA InTheLast ==
  ASSUME StreamType, NEW start, Layout(start), Unwritten(start),
         NEW k \in 1..Len(frames), End(start) < start[k + 1]
  PROVE  k = Len(frames)
<1> SUFFICES ASSUME k # Len(frames) PROVE FALSE
  OBVIOUS
<1>0. Places(start)
  BY DEF Layout
<1>1. PICK n \in Nat, u \in Nat : n = Len(frames) /\ u = Len(unwritten) /\ End(start) = start[n + 1] - u
  BY <1>0, PlaceFacts
<1>3. n \in 1..n /\ k + 1 \in 1..(n + 1) /\ n \in 1..(n + 1) /\ k + 1 <= n
  BY <1>1
<1>4. start[k + 1] <= start[n]
  BY <1>0, <1>1, <1>3 DEF Places
<1>5. /\ start[n + 1] = start[n] + Count(frames[n]) /\ start[n] \in Int
      /\ start[k + 1] \in Int /\ Count(frames[n]) \in Nat
  BY <1>0, <1>1, <1>3, PlaceFacts
<1>6. u <= Count(frames[n])
  <2>1. CASE unwritten = <<>>
    BY <1>1, <1>5, <2>1
  <2>2. CASE unwritten # <<>>
    BY <1>1, <2>2 DEF Unwritten
  <2> QED
    BY <2>1, <2>2
<1> QED
  BY <1>1, <1>4, <1>5, <1>6

\* What is read at the place of an item is the item, or what a cut left of it.
LEMMA ItemRead ==
  ASSUME StreamType, NEW start, Layout(start), Unwritten(start),
         NEW k \in 1..Len(frames), NEW o \in 1..Count(frames[k]),
         NEW p \in 1..Len(pipe), p = start[k] + o
  PROVE  \/ p <= End(start) /\ pipe[p] = Items(frames[k], k)[o]
         \/ /\ Cut /\ k = Len(frames) /\ p = End(start) + 1 /\ p = Len(pipe)
            /\ <<pipe[p]>> \in Cuts(Items(frames[k], k)[o])
<1>0. Places(start) /\ Contents(start) /\ Ending(start)
  BY DEF Layout
<1>1. PICK n \in Nat, u \in Nat, c \in Nat, e \in Int, l \in Nat :
        /\ n = Len(frames) /\ u = Len(unwritten) /\ c = Count(frames[k])
        /\ e = End(start) /\ l = Len(pipe)
  BY <1>0, PlaceFacts
<1>2. /\ start[k] \in Int /\ start[k + 1] = start[k] + c /\ start[k + 1] \in Int
      /\ e = start[n + 1] - u
  BY <1>0, <1>1, PlaceFacts
<1>3. CASE p <= e
  BY <1>0, <1>1, <1>3 DEF Contents
<1>4. CASE ~(p <= e)
  <2>1. p \in Int /\ p <= l
    BY <1>1
  <2>2. l # e
    BY <1>4, <2>1
  <2>3. Cut /\ l = e + 1 /\ <<pipe[l]>> \in Cuts(unwritten[1])
    BY <1>0, <1>1, <2>1, <2>2 DEF Ending
  <2>4. p = e + 1 /\ p = l
    BY <1>4, <2>1, <2>3
  <2>5. e < start[k + 1]
    BY <1>1, <1>2, <2>4
  <2>6. k = n
    BY <1>1, <2>5, InTheLast
  <2>7. unwritten # <<>> /\ u # 0
    BY <1>1, <2>3 DEF Cut, StreamType
  <2>8. \A j \in 1..u : unwritten[j] = Items(frames[k], k)[c - u + j]
    BY <1>1, <2>6, <2>7 DEF Unwritten
  <2>9. o = c - u + 1
    <3>1. start[n + 1] = start[k] + c
      BY <1>2, <2>6
    <3>2. PICK s \in Int : s = start[k]
      BY <1>2
    <3>3. o \in Int
      BY <1>1
    <3>4. e = s + c - u
      BY <1>2, <3>1, <3>2
    <3>5. s + o = e + 1
      BY <2>4, <3>2
    <3> QED
      BY <3>3, <3>4, <3>5
  <2>10. unwritten[1] = Items(frames[k], k)[o]
    <3>1. 1 \in 1..u
      BY <2>7
    <3> QED
      BY <2>8, <2>9, <3>1
  <2> QED
    BY <1>1, <2>3, <2>4, <2>6, <2>10
<1> QED
  BY <1>3, <1>4

----------------------------------------------------------------------------
(* The invariant and the property *)

LEMMA StartsReadable == Init => StreamInv
<1> SUFFICES ASSUME Init PROVE StreamInv
  OBVIOUS
<1>1. /\ alive = TRUE /\ frames = <<>> /\ unwritten = <<>> /\ pipe = <<>> /\ phase = "header"
      /\ firstLine = TRUE /\ contentLength = None /\ received = <<>>
  BY DEF Init
<1>2. Len(frames) = 0 /\ Len(unwritten) = 0 /\ Len(pipe) = 0 /\ Len(received) = 0
  BY <1>1
<1>3. StreamType
  <2>1. frames \in Seq(Frames) /\ unwritten \in Seq(ItemType) /\ pipe \in Seq(ItemType)
        /\ received \in Seq(Nat)
    BY <1>1
  <2>2. \A f \in 1..Len(frames) : frames[f].header \in Headers(frames[f].length)
    BY <1>2
  <2> QED
    BY <1>1, <2>1, <2>2 DEF StreamType
<1>4. ReceivedInv
  <2>1. received = [i \in 1..0 |-> i]
    BY <1>1
  <2> QED
    BY <1>2, <2>1 DEF ReceivedInv
<1>5. FailedInv
  BY <1>1 DEF FailedInv, Errors
<1>6. ReadingInv
  <2>1. PICK start : start = [g \in 1..1 |-> 0]
    OBVIOUS
  <2>2. start \in [1..1 -> Int] /\ start[1] = 0
    BY <2>1
  <2>3. End(start) = 0
    BY <1>2, <2>2 DEF End
  <2>4. Places(start)
    BY <1>2, <2>2 DEF Places
  <2>5. Contents(start) /\ Ending(start)
    BY <1>2, <2>3 DEF Contents, Ending
  <2>6. Unwritten(start)
    BY <1>1 DEF Unwritten
  <2>7. At(start, 1, 0, 0)
    <3>1. 1 = Current /\ 1 <= Len(frames) + 1
      BY <1>2 DEF Current
    <3>2. start[1] + 0 = 0
      BY <2>2
    <3> QED
      BY <2>3, <3>1, <3>2 DEF At
  <2>8. AfterTheLast(1, 0)
    BY <1>1, <1>2 DEF AfterTheLast
  <2>9. Position(start)
    BY <2>7, <2>8 DEF Position
  <2> QED
    BY <2>4, <2>5, <2>6, <2>9 DEF ReadingInv, Layout
<1> QED
  BY <1>3, <1>4, <1>5, <1>6 DEF StreamInv

\* When every frame has been read, nothing is left unwritten.
LEMMA AllReadIsWritten ==
  ASSUME StreamInv, unwritten # <<>>
  PROVE  Current <= Len(frames)
<1>1. Len(frames) \in Nat /\ Len(received) \in Nat /\ Current \in Nat /\ Current <= Len(frames) + 1
  BY DEF StreamInv, StreamType, ReceivedInv, Current
<1>2. CASE phase \in Errors
  BY <1>1, <1>2 DEF StreamInv, FailedInv, Cut
<1>3. CASE phase \notin Errors
  <2>1. PICK start : Position(start)
    BY <1>3 DEF StreamInv, ReadingInv
  <2>2. PICK k \in Nat, o \in Nat, e \in Int :
          /\ At(start, k, o, e)
          /\ AfterTheLast(k, o) \/ \E f : InHeader(k, f, o, e) \/ InBody(k, f, o)
    BY <2>1 DEF Position
  <2>3. k = Current
    BY <2>2 DEF At
  <2>4. k <= Len(frames)
    BY <2>2 DEF AfterTheLast, InHeader, InBody
  <2> QED
    BY <2>3, <2>4
<1> QED
  BY <1>2, <1>3

LEMMA StreamInvImplies == StreamInv => ReadsWhatWasWritten
<1> SUFFICES ASSUME StreamInv PROVE ReadsWhatWasWritten
  OBVIOUS
<1>1. PICK n \in Nat, r \in Nat :
        n = Len(frames) /\ r = Len(received) /\ r <= n /\ Current = r + 1
  <2>1. Len(frames) \in Nat /\ Len(received) \in Nat
    BY DEF StreamInv, StreamType
  <2>2. Len(received) <= Len(frames)
    BY DEF StreamInv, ReceivedInv
  <2> QED
    BY <2>1, <2>2 DEF Current
<1>2. received = [i \in 1..r |-> i] /\ \A f \in 1..r : Sound(frames[f])
  BY <1>1 DEF StreamInv, ReceivedInv
<1>3. ToSet(received) = 1..r
  <2>1. DOMAIN received = 1..r /\ \A i \in 1..r : received[i] = i
    BY <1>2
  <2> QED
    BY <2>1 DEF ToSet
<1>4. DOMAIN frames = 1..n
  BY <1>1 DEF StreamInv, StreamType
<1>5. r = n => unwritten = <<>>
  BY <1>1, AllReadIsWritten
<1>6. ToSet(received) \subseteq Readable
  <2> SUFFICES ASSUME NEW i \in 1..r PROVE i \in Readable
    BY <1>3
  <2>1. i \in DOMAIN frames
    BY <1>1, <1>4
  <2>2. \A j \in 1..i : Sound(frames[j])
    BY <1>2
  <2>3. i = Len(frames) => unwritten = <<>>
    BY <1>1, <1>5
  <2> QED
    BY <2>1, <2>2, <2>3 DEF Readable
<1>7. ASSUME phase \in Errors
      PROVE  \/ phase \notin {"Eof", "UnexpectedEof"} /\ r + 1 <= n /\ ~Sound(frames[r + 1])
             \/ phase # "Eof" /\ Cut /\ r + 1 = n
             \/ phase = "Eof" /\ ~alive /\ r = n
  BY <1>1, <1>7 DEF StreamInv, FailedInv
<1>8. ASSUME phase \in Errors, NEW i \in Readable PROVE i \in 1..r
  <2>1. i \in 1..n /\ (\A j \in 1..i : Sound(frames[j])) /\ (i = n => unwritten = <<>>)
    BY <1>1, <1>4 DEF Readable
  <2>2. CASE r + 1 <= n /\ ~Sound(frames[r + 1])
    <3>1. r + 1 \notin 1..i
      BY <2>1, <2>2
    <3> QED
      BY <2>1, <3>1
  <2>3. CASE Cut /\ r + 1 = n
    <3>1. i # n
      BY <2>1, <2>3 DEF Cut
    <3> QED
      BY <2>1, <2>3, <3>1
  <2>4. CASE r = n
    BY <2>1, <2>4
  <2> QED
    BY <1>7, <1>8, <2>2, <2>3, <2>4
<1>9. phase \in Errors => ToSet(received) = Readable
  BY <1>3, <1>6, <1>8
<1>10. phase = "Eof" => ~alive /\ r = n
  BY <1>7 DEF Errors
<1>11. phase = "UnexpectedEof" => Cut
  BY <1>7 DEF Errors
<1>12. ASSUME phase \in Errors, phase \notin {"Eof", "UnexpectedEof"}
       PROVE  ~Sound(frames[r + 1]) \/ (Cut /\ r + 1 = n)
  <2>1. phase # "Eof"
    BY <1>12
  <2> QED
    BY <1>7, <1>12, <2>1
<1>13. phase \in Errors \ {"Eof", "UnexpectedEof"} => ~Sound(frames[r + 1]) \/ (Cut /\ n = r + 1)
  BY <1>12
<1> QED
  BY <1>1, <1>2, <1>6, <1>9, <1>10, <1>11, <1>13 DEF ReadsWhatWasWritten

\* A step of neither pipe's stream.
LEMMA ElsewhereKeeps ==
  ASSUME StreamInv, UNCHANGED <<alive, streamVars, readerVars>>
  PROVE  StreamInv'
<1>1. UNCHANGED <<alive, frames, unwritten, pipe, phase, firstLine, contentLength, received>>
  BY DEF streamVars, readerVars
<1>2. StreamType' /\ ReceivedInv' /\ FailedInv'
  BY <1>1 DEF StreamInv, StreamType, ReceivedInv, FailedInv, Current, Cut
<1>3. ASSUME NEW start, Layout(start), Unwritten(start), Position(start)
      PROVE  Layout(start)' /\ Unwritten(start)' /\ Position(start)'
  <2>1. Layout(start)'
    BY <1>1, <1>3 DEF Layout, Places, Contents, Ending, End, Cut
  <2>2. Unwritten(start)'
    BY <1>1, <1>3 DEF Unwritten, End
  <2>3. ASSUME NEW k \in Nat, NEW o \in Nat, NEW e \in Int
        PROVE  /\ At(start, k, o, e)' <=> At(start, k, o, e)
               /\ AfterTheLast(k, o)' <=> AfterTheLast(k, o)
               /\ \A f : InHeader(k, f, o, e)' <=> InHeader(k, f, o, e)
               /\ \A f : InBody(k, f, o)' <=> InBody(k, f, o)
    BY <1>1 DEF At, Current, End, AfterTheLast, InHeader, InBody
  <2>4. Position(start)'
    BY <1>3, <2>3 DEF Position
  <2> QED
    BY <2>1, <2>2, <2>4
<1>4. ReadingInv'
  BY <1>1, <1>3 DEF StreamInv, ReadingInv
<1> QED
  BY <1>2, <1>4 DEF StreamInv

----------------------------------------------------------------------------
(* The steps of the adapter *)

\* What the numbers of a state are.
LEMMA Sizes ==
  ASSUME StreamInv
  PROVE  /\ Len(frames) \in Nat /\ Len(unwritten) \in Nat /\ Len(pipe) \in Nat
         /\ Len(received) \in Nat /\ Len(received) <= Len(frames)
         /\ Current = Len(received) + 1
<1>1. Len(frames) \in Nat /\ Len(unwritten) \in Nat /\ Len(pipe) \in Nat /\ Len(received) \in Nat
  BY DEF StreamInv, StreamType
<1>2. Len(received) <= Len(frames)
  BY DEF StreamInv, ReceivedInv
<1> QED
  BY <1>1, <1>2 DEF Current

LEMMA BeginFrameKeeps ==
  ASSUME StreamInv, BeginFrame
  PROVE  StreamInv'
<1>1. PICK f \in Frames :
        /\ f.header \in Headers(f.length)
        /\ frames' = Append(frames, f)
        /\ unwritten' = Items(f, Len(frames) + 1)
  BY DEF BeginFrame
<1>2. /\ alive /\ unwritten = <<>>
      /\ UNCHANGED <<alive, pipe, phase, firstLine, contentLength, received>>
  BY DEF BeginFrame, readerVars
<1>3. PICK n \in Nat, r \in Nat :
        n = Len(frames) /\ r = Len(received) /\ r <= n /\ Current = r + 1
  BY Sizes
<1>4. f.length \in Nat
  BY DEF Frames
<1>5. PICK c \in Nat : c = Count(f) /\ c # 0
  BY <1>1, <1>4, ItemAt
<1>6. /\ frames' \in Seq(Frames) /\ Len(frames') = n + 1
      /\ \A i \in 1..n : frames'[i] = frames[i]
      /\ frames'[n + 1] = f
  <2>1. frames \in Seq(Frames)
    BY DEF StreamInv, StreamType
  <2> QED
    BY <1>1, <1>3, <2>1, AppendProperties
<1>7. unwritten' \in Seq(ItemType) /\ Len(unwritten') = c
  <2>1. n + 1 \in Nat
    OBVIOUS
  <2> QED
    BY <1>1, <1>3, <1>4, <1>5, <2>1, ItemAt
<1>8. StreamType'
  <2>1. \A i \in 1..Len(frames') : frames'[i].header \in Headers(frames'[i].length)
    <3> SUFFICES ASSUME NEW i \in 1..(n + 1)
                 PROVE  frames'[i].header \in Headers(frames'[i].length)
      BY <1>6
    <3>1. CASE i = n + 1
      BY <1>1, <1>6, <3>1
    <3>2. CASE i # n + 1
      <4>1. i \in 1..n
        BY <3>2
      <4>2. frames[i].header \in Headers(frames[i].length)
        BY <1>3, <4>1 DEF StreamInv, StreamType
      <4> QED
        BY <1>6, <4>1, <4>2
    <3> QED
      BY <3>1, <3>2
  <2>2. Len(frames') # 0
    BY <1>6
  <2> QED
    BY <1>2, <1>6, <1>7, <2>1, <2>2 DEF StreamInv, StreamType
<1>9. ReceivedInv'
  <2>1. \A i \in 1..r : Sound(frames'[i])
    <3> SUFFICES ASSUME NEW i \in 1..r PROVE Sound(frames'[i])
      OBVIOUS
    <3>1. i \in 1..n
      BY <1>3
    <3>2. Sound(frames[i])
      BY <1>3 DEF StreamInv, ReceivedInv
    <3> QED
      BY <1>6, <3>1, <3>2
  <2>2. r <= Len(frames')
    BY <1>3, <1>6
  <2> QED
    BY <1>2, <1>3, <2>1, <2>2 DEF StreamInv, ReceivedInv
<1>10. FailedInv'
  <2> SUFFICES ASSUME phase \in Errors PROVE FailedInv'
    BY <1>2 DEF FailedInv
  <2>1. phase \notin {"Eof", "UnexpectedEof"} /\ Current <= n /\ ~Sound(frames[Current])
    BY <1>2, <1>3 DEF StreamInv, FailedInv, Cut
  <2>2. Current \in 1..n
    BY <1>3, <2>1
  <2>3. ~Sound(frames'[Current]) /\ Current <= Len(frames') /\ Current # Len(frames')
    BY <1>3, <1>6, <2>1, <2>2
  <2>4. Current' = Current
    BY <1>2 DEF Current
  <2> QED
    BY <1>2, <2>1, <2>3, <2>4 DEF FailedInv
<1>11. ASSUME NEW start, Layout(start), Unwritten(start), Position(start)
       PROVE  \E next : Layout(next)' /\ Unwritten(next)' /\ Position(next)'
  <2>1. Places(start) /\ Contents(start) /\ Ending(start)
    BY <1>11 DEF Layout
  <2>2. PICK e \in Int :
          /\ start \in [1..(n + 1) -> Int] /\ n + 1 \in 1..(n + 1)
          /\ e = End(start) /\ e = start[n + 1]
    <3>1. Len(unwritten) = 0
      BY <1>2
    <3> QED
      BY <1>3, <1>11, <2>1, <3>1, PlaceFacts DEF StreamInv
  <2>3. Len(pipe) = e
    BY <1>2, <2>1, <2>2 DEF Ending, Cut
  <2>4. PICK next : next = [g \in 1..(n + 2) |-> IF g <= n + 1 THEN start[g] ELSE e + c]
    OBVIOUS
  <2>5. /\ next \in [1..(n + 2) -> Int]
        /\ \A g \in 1..(n + 1) : next[g] = start[g]
        /\ next[n + 2] = e + c
    <3>1. \A g \in 1..(n + 2) : (IF g <= n + 1 THEN start[g] ELSE e + c) \in Int
      BY <2>2
    <3>2. next \in [1..(n + 2) -> Int]
      BY <2>4, <3>1
    <3>3. \A g \in 1..(n + 1) : g \in 1..(n + 2) /\ g <= n + 1
      OBVIOUS
    <3>4. n + 2 \in 1..(n + 2) /\ ~(n + 2 <= n + 1)
      OBVIOUS
    <3> QED
      BY <2>4, <3>2, <3>3, <3>4
  <2>6. End(next)' = e
    <3>1. End(next)' = next[Len(frames') + 1] - Len(unwritten')
      BY DEF End
    <3>2. Len(frames') + 1 = n + 2
      BY <1>6
    <3>3. End(next)' = (e + c) - c
      BY <1>7, <2>5, <3>1, <3>2
    <3> QED
      BY <3>3
  <2>7. Places(next)'
    <3>1. ASSUME NEW g \in 1..(n + 1) PROVE next[g + 1] = next[g] + Count(frames'[g])
      <4>1. CASE g = n + 1
        <5>1. g + 1 = n + 2 /\ frames'[g] = f
          BY <1>6, <4>1
        <5> QED
          BY <1>5, <2>2, <2>5, <4>1, <5>1
      <4>2. CASE g # n + 1
        <5>1. g \in 1..n /\ g + 1 \in 1..(n + 1)
          BY <4>2
        <5>2. start[g + 1] = start[g] + Count(frames[g])
          BY <1>3, <2>1, <5>1 DEF Places
        <5> QED
          BY <1>6, <2>5, <5>1, <5>2
      <4> QED
        BY <4>1, <4>2
    <3>2. ASSUME NEW g \in 1..(n + 2), NEW h \in 1..(n + 2), g <= h
          PROVE  next[g] <= next[h]
      <4>1. \A i, j \in 1..(n + 1) : i <= j => start[i] <= start[j]
        BY <1>3, <2>1 DEF Places
      <4>2. CASE h <= n + 1
        <5>1. g \in 1..(n + 1) /\ h \in 1..(n + 1)
          BY <3>2, <4>2
        <5> QED
          BY <2>5, <3>2, <4>1, <5>1
      <4>3. CASE h = n + 2 /\ g = n + 2
        BY <2>2, <2>5, <4>3
      <4>4. CASE h = n + 2 /\ g # n + 2
        <5>1. g \in 1..(n + 1) /\ g <= n + 1
          BY <4>4
        <5>2. start[g] <= e /\ start[g] \in Int
          BY <2>2, <4>1, <5>1
        <5>3. start[g] <= e + c
          BY <5>2
        <5> QED
          BY <2>5, <4>4, <5>1, <5>3
      <4> QED
        BY <4>2, <4>3, <4>4
    <3>3. Len(frames') + 1 = n + 2
      BY <1>6
    <3> QED
      BY <1>6, <2>5, <3>1, <3>2, <3>3 DEF Places
  <2>8. Contents(next)'
    <3>1. \A g \in 1..Len(frames') : \A o \in 1..Count(frames'[g]) : \A p \in 1..Len(pipe') :
            p = next[g] + o /\ p <= next[Len(frames') + 1] - Len(unwritten') =>
              pipe'[p] = Items(frames'[g], g)[o]
      <4> TAKE g \in 1..Len(frames')
      <4> TAKE o \in 1..Count(frames'[g])
      <4> TAKE p \in 1..Len(pipe')
      <4> HAVE p = next[g] + o /\ p <= next[Len(frames') + 1] - Len(unwritten')
      <4>1. p <= e
        BY <2>6 DEF End
      <4>2. g \in 1..(n + 1) /\ p \in 1..Len(pipe) /\ p = start[g] + o
        BY <1>2, <1>6, <2>5
      <4>3. CASE g = n + 1
        <5>1. o \in Int /\ o >= 1 /\ p \in Int /\ p = e + o
          BY <1>5, <1>6, <2>2, <4>2, <4>3
        <5> QED
          BY <4>1, <5>1
      <4>4. CASE g # n + 1
        <5>1. g \in 1..n /\ frames'[g] = frames[g]
          BY <1>6, <4>2, <4>4
        <5>2. g \in 1..Len(frames) /\ o \in 1..Count(frames[g]) /\ p <= End(start)
          BY <1>3, <2>2, <4>1, <5>1
        <5>3. pipe[p] = Items(frames[g], g)[o]
          BY <2>1, <4>2, <5>2 DEF Contents
        <5> QED
          BY <1>2, <5>1, <5>3
      <4> QED
        BY <4>3, <4>4
    <3> QED
      BY <3>1 DEF Contents, End
  <2>9. Ending(next)'
    BY <1>2, <2>3, <2>6 DEF Ending
  <2>10. Unwritten(next)'
    <3>1. frames'[Len(frames')] = f /\ Len(unwritten') = c /\ c - c = 0
      BY <1>6, <1>7
    <3>2. \A j \in 1..c : unwritten'[j] = Items(f, n + 1)[c - c + j]
      <4>1. \A j \in 1..c : c - c + j = j
        OBVIOUS
      <4> QED
        BY <1>1, <1>3, <4>1
    <3>3. c <= c
      OBVIOUS
    <3> QED
      BY <1>2, <1>5, <1>6, <3>1, <3>2, <3>3 DEF Unwritten
  <2>11. Position(next)'
    <3>0. Position(start)
      BY <1>11
    <3>1. PICK k \in Nat, o \in Nat, d \in Int :
            /\ At(start, k, o, d)
            /\ \/ AfterTheLast(k, o)
               \/ \E g : InHeader(k, g, o, d) \/ InBody(k, g, o)
      BY ONLY <3>0 DEF Position
    <3>2. k = Current /\ k = r + 1 /\ k \in 1..(n + 1) /\ start[k] + o = 0 /\ d = e
      <4>1. k = Current /\ start[k] + o = 0 /\ d = End(start)
        BY <3>1 DEF At
      <4>2. k = r + 1 /\ k \in 1..(n + 1)
        BY <1>3, <4>1
      <4> QED
        BY <2>2, <4>1, <4>2
    <3>3. At(next, k, o, d)'
      <4>1. Current' = k
        BY <1>2, <3>2 DEF Current
      <4>2. k <= Len(frames') + 1
        BY <1>6, <3>2
      <4>3. next[k] + o = 0
        BY <2>5, <3>2
      <4> QED
        BY <2>6, <3>2, <4>1, <4>2, <4>3 DEF At
    <3>4. CASE AfterTheLast(k, o)
      <4>1. k = n + 1 /\ o = 0 /\ phase = "header" /\ firstLine /\ contentLength = None
        BY <1>3, <3>4 DEF AfterTheLast
      <4>2. k <= Len(frames') /\ f = frames'[k]
        BY <1>6, <4>1
      <4>3. o <= Len(f.header)
        BY <1>1, <1>4, <4>1, HeaderFacts
      <4>4. \A i \in 1..o : f.header[i] = Other
        BY <4>1
      <4>5. InHeader(k, f, o, d)'
        BY <1>2, <4>1, <4>2, <4>3, <4>4 DEF InHeader
      <4> QED
        BY <3>3, <4>5 DEF Position
    <3>5. ASSUME NEW g, InHeader(k, g, o, d) \/ InBody(k, g, o)
          PROVE  InHeader(k, g, o, d)' \/ InBody(k, g, o)'
      <4>1. k <= n /\ g = frames[k]
        BY <1>3, <3>5 DEF InHeader, InBody
      <4>2. k \in 1..n
        BY <3>2, <4>1
      <4>3. k <= Len(frames') /\ g = frames'[k]
        BY <1>6, <4>1, <4>2
      <4> QED
        BY <1>2, <3>5, <4>3 DEF InHeader, InBody
    <3> QED
      BY <3>1, <3>3, <3>4, <3>5 DEF Position
  <2> QED
    BY <2>7, <2>8, <2>9, <2>10, <2>11 DEF Layout
<1>12. ReadingInv'
  BY <1>2, <1>11 DEF StreamInv, ReadingInv
<1> QED
  BY <1>8, <1>9, <1>10, <1>12 DEF StreamInv

LEMMA WriteItemKeeps ==
  ASSUME StreamInv, WriteItem
  PROVE  StreamInv'
<1>1. /\ alive /\ unwritten # <<>>
      /\ pipe' = Append(pipe, Head(unwritten)) /\ unwritten' = Tail(unwritten)
      /\ UNCHANGED <<alive, frames, phase, firstLine, contentLength, received>>
  BY DEF WriteItem, readerVars
<1>2. PICK n \in Nat, l \in Nat, u \in Nat :
        n = Len(frames) /\ l = Len(pipe) /\ u = Len(unwritten)
  BY Sizes
<1>3. /\ unwritten \in Seq(ItemType) /\ pipe \in Seq(ItemType)
      /\ n # 0
  BY <1>1, <1>2 DEF StreamInv, StreamType
<1>4. /\ u # 0 /\ 1 \in 1..u
      /\ Head(unwritten) = unwritten[1] /\ unwritten[1] \in ItemType
  <2>1. u # 0
    BY <1>1, <1>2, <1>3, EmptySeq
  <2>2. 1 \in 1..u
    BY <2>1
  <2>3. unwritten[1] \in ItemType
    BY <1>2, <1>3, <2>2, LenProperties
  <2>4. Head(unwritten) = unwritten[1]
    BY <1>1, <1>3
  <2> QED
    BY <2>1, <2>2, <2>3, <2>4
<1>5. /\ unwritten' \in Seq(ItemType) /\ Len(unwritten') = u - 1
      /\ \A j \in 1..(u - 1) : unwritten'[j] = unwritten[j + 1]
  BY <1>1, <1>2, <1>3, HeadTailProperties
<1>6. /\ pipe' \in Seq(ItemType) /\ Len(pipe') = l + 1
      /\ \A p \in 1..l : pipe'[p] = pipe[p]
      /\ pipe'[l + 1] = unwritten[1]
  BY <1>1, <1>2, <1>3, <1>4, AppendProperties
<1>7. StreamType' /\ ReceivedInv'
  BY <1>1, <1>2, <1>3, <1>5, <1>6 DEF StreamInv, StreamType, ReceivedInv
<1>8. FailedInv'
  <2> SUFFICES ASSUME phase \in Errors PROVE FailedInv'
    BY <1>1 DEF FailedInv
  <2>1. /\ phase \notin {"Eof", "UnexpectedEof"} /\ Current <= n /\ ~Sound(frames[Current])
        /\ Current = n => u < Count(frames[Current])
    BY <1>1, <1>2 DEF StreamInv, FailedInv, Cut
  <2>2. Current = n => u - 1 < Count(frames[Current])
    <3> SUFFICES ASSUME Current = n PROVE u - 1 < Count(frames[Current])
      OBVIOUS
    <3>1. Current \in 1..Len(frames)
      BY <1>2, <1>3
    <3>2. /\ frames[Current].length \in Nat /\ Len(frames[Current].header) \in Nat
          /\ Count(frames[Current]) = Len(frames[Current].header) + 1 + frames[Current].length
      BY <3>1, FrameFacts DEF StreamInv
    <3>3. PICK c \in Nat : c = Count(frames[Current])
      BY <3>2
    <3> QED
      BY <2>1, <3>3
  <2>3. Current' = Current
    BY <1>1 DEF Current
  <2> QED
    BY <1>1, <1>2, <1>5, <2>1, <2>2, <2>3 DEF FailedInv
<1>9. ASSUME NEW start, Layout(start), Unwritten(start), Position(start)
      PROVE  Layout(start)' /\ Unwritten(start)' /\ Position(start)'
  <2>1. Places(start) /\ Contents(start) /\ Ending(start)
    BY <1>9 DEF Layout
  <2>2. PICK e \in Int :
          /\ start \in [1..(n + 1) -> Int]
          /\ e = End(start) /\ e = start[n + 1] - u
    BY <1>2, <2>1, PlaceFacts DEF StreamInv
  <2>3. l = e
    BY <1>1, <1>2, <2>1, <2>2 DEF Ending, Cut
  <2>4. End(start)' = e + 1
    <3>1. End(start)' = start[n + 1] - (u - 1)
      BY <1>1, <1>2, <1>5 DEF End
    <3>2. start[n + 1] \in Int
      BY <2>2
    <3> QED
      BY <2>2, <3>1, <3>2
  <2>5. Places(start)'
    BY <1>1, <2>1 DEF Places
  <2>6. Contents(start)'
    <3>1. \A g \in 1..Len(frames') : \A o \in 1..Count(frames'[g]) : \A p \in 1..Len(pipe') :
            p = start[g] + o /\ p <= start[Len(frames') + 1] - Len(unwritten') =>
              pipe'[p] = Items(frames'[g], g)[o]
      <4> TAKE g \in 1..Len(frames')
      <4> TAKE o \in 1..Count(frames'[g])
      <4> TAKE p \in 1..Len(pipe')
      <4> HAVE p = start[g] + o /\ p <= start[Len(frames') + 1] - Len(unwritten')
      <4>1. g \in 1..Len(frames) /\ o \in 1..Count(frames[g]) /\ frames'[g] = frames[g]
        BY <1>1
      <4>2. p \in 1..(l + 1)
        BY <1>6
      <4>3. CASE p \in 1..l
        <5>1. p \in 1..Len(pipe) /\ p <= End(start) /\ p = start[g] + o
          BY <1>2, <2>2, <2>3, <4>3
        <5>2. pipe[p] = Items(frames[g], g)[o]
          BY <2>1, <4>1, <5>1 DEF Contents
        <5> QED
          BY <1>6, <4>1, <4>3, <5>2
      <4>4. CASE p \notin 1..l
        <5>1. p = l + 1
          BY <4>2, <4>4
        <5>2. /\ start[g] \in Int /\ start[g + 1] = start[g] + Count(frames[g])
              /\ Count(frames[g]) \in Nat
          BY <2>1, <4>1, PlaceFacts DEF StreamInv
        <5>3. PICK s \in Int, c \in Nat : s = start[g] /\ c = Count(frames[g])
          BY <5>2
        <5>4. o \in 1..c /\ s + o = e + 1 /\ start[g + 1] = s + c
          BY <2>3, <4>1, <5>1, <5>2, <5>3
        <5>5. e < start[g + 1]
          BY <5>4
        <5>6. g = n
          BY <1>2, <1>9, <2>2, <4>1, <5>5, InTheLast DEF StreamInv
        <5>7. e = (s + c) - u
          BY <2>2, <5>4, <5>6
        <5>8. o = c - u + 1
          BY <5>4, <5>7
        <5>9. unwritten[1] = Items(frames[n], n)[c - u + 1]
          BY <1>1, <1>2, <1>4, <1>9, <5>3, <5>6 DEF Unwritten
        <5> QED
          BY <1>6, <4>1, <5>1, <5>6, <5>8, <5>9
      <4> QED
        BY <4>3, <4>4
    <3> QED
      BY <3>1 DEF Contents, End
  <2>7. Ending(start)'
    BY <1>6, <2>3, <2>4 DEF Ending
  <2>8. Unwritten(start)'
    <3>1. n \in 1..Len(frames)
      BY <1>2, <1>3
    <3>2. PICK c \in Nat : c = Count(frames[n])
      BY <2>1, <3>1, PlaceFacts DEF StreamInv
    <3>3. u <= c /\ \A j \in 1..u : unwritten[j] = Items(frames[n], n)[c - u + j]
      BY <1>1, <1>2, <1>9, <3>2 DEF Unwritten
    <3>4. u - 1 <= c
      BY <3>3
    <3>5. \A j \in 1..(u - 1) : unwritten'[j] = Items(frames[n], n)[c - (u - 1) + j]
      <4> SUFFICES ASSUME NEW j \in 1..(u - 1)
                   PROVE  unwritten'[j] = Items(frames[n], n)[c - (u - 1) + j]
        OBVIOUS
      <4>1. j + 1 \in 1..u /\ c - u + (j + 1) = c - (u - 1) + j
        OBVIOUS
      <4>2. unwritten'[j] = unwritten[j + 1]
        BY <1>5
      <4>3. unwritten[j + 1] = Items(frames[n], n)[c - u + (j + 1)]
        BY <3>3, <4>1
      <4> QED
        BY <4>1, <4>2, <4>3
    <3> QED
      BY <1>1, <1>2, <1>5, <3>2, <3>4, <3>5 DEF Unwritten
  <2>9. Position(start)'
    <3>0. Position(start)
      BY <1>9
    <3>1. PICK k \in Nat, o \in Nat, d \in Int :
            /\ At(start, k, o, d)
            /\ \/ AfterTheLast(k, o)
               \/ \E g : InHeader(k, g, o, d) \/ InBody(k, g, o)
      BY ONLY <3>0 DEF Position
    <3>2. d >= 0 /\ d + 1 \in Int
      <4>1. d = End(start)
        BY <3>1 DEF At
      <4>2. d = l
        BY <2>2, <2>3, <4>1
      <4> QED
        BY <4>2
    <3>3. At(start, k, o, d + 1)'
      <4>1. k = Current /\ start[k] + o = 0 /\ k <= Len(frames) + 1 /\ d = End(start)
        BY <3>1 DEF At
      <4>2. Current' = Current
        BY <1>1 DEF Current
      <4> QED
        BY <1>1, <2>2, <2>4, <4>1, <4>2 DEF At
    <3>4. ~AfterTheLast(k, o)
      BY <1>1 DEF AfterTheLast
    <3>5. PICK g : InHeader(k, g, o, d) \/ InBody(k, g, o)
      BY <3>1, <3>4
    <3>6. InHeader(k, g, o, d) => InHeader(k, g, o, d + 1)'
      BY <1>1, <3>2 DEF InHeader
    <3>7. InBody(k, g, o) => InBody(k, g, o)'
      BY <1>1 DEF InBody
    <3> QED
      BY <3>2, <3>3, <3>5, <3>6, <3>7 DEF Position
  <2> QED
    BY <2>5, <2>6, <2>7, <2>8, <2>9 DEF Layout
<1>10. ReadingInv'
  BY <1>1, <1>9 DEF StreamInv, ReadingInv
<1> QED
  BY <1>7, <1>8, <1>10 DEF StreamInv

LEMMA CutShape ==
  ASSUME NEW item \in ItemType, NEW c \in Cuts(item)
  PROVE  c = <<>> \/ \E x : c = <<x>>
<1>1. CASE item.kind = "length"
  BY <1>1 DEF Cuts
<1>2. CASE item.kind = "byte"
  BY <1>2 DEF Cuts
<1>3. CASE item.kind \notin {"length", "byte"}
  BY <1>3 DEF Cuts
<1> QED
  BY <1>1, <1>2, <1>3

\* The process ends inside a frame of which something has been written, or
\* between two frames.
LEMMA DieInAFrameKeeps ==
  ASSUME StreamInv, alive, alive' = FALSE, NEW cut, pipe' = pipe \o cut,
         cut \in (IF unwritten = <<>> THEN {<<>>} ELSE Cuts(Head(unwritten))),
         cut = <<>> => ~Unbegun,
         UNCHANGED <<frames, unwritten, phase, firstLine, contentLength, received>>
  PROVE  StreamInv'
<1>1. UNCHANGED <<frames, unwritten, phase, firstLine, contentLength, received>>
  OBVIOUS
<1>2. PICK n \in Nat, l \in Nat, u \in Nat :
        n = Len(frames) /\ l = Len(pipe) /\ u = Len(unwritten)
  BY Sizes
<1>3. unwritten \in Seq(ItemType) /\ pipe \in Seq(ItemType) /\ alive \in BOOLEAN
  BY DEF StreamInv, StreamType
<1>4. ASSUME unwritten # <<>>
      PROVE  u # 0 /\ n # 0 /\ Head(unwritten) = unwritten[1] /\ unwritten[1] \in ItemType
  <2>1. u # 0 /\ n # 0
    BY <1>2, <1>3, <1>4, EmptySeq DEF StreamInv, StreamType
  <2>2. 1 \in 1..u
    BY <2>1
  <2>3. unwritten[1] \in ItemType
    BY <1>2, <1>3, <2>2, LenProperties
  <2>4. Head(unwritten) = unwritten[1]
    BY <1>3, <1>4
  <2> QED
    BY <2>1, <2>3, <2>4
<1>5. \/ cut = <<>>
      \/ unwritten # <<>> /\ \E x : cut = <<x>> /\ <<x>> \in Cuts(unwritten[1])
  <2>1. CASE unwritten = <<>>
    BY <2>1
  <2>2. CASE unwritten # <<>>
    <3>1. cut \in Cuts(unwritten[1]) /\ unwritten[1] \in ItemType
      BY <1>4, <2>2
    <3>2. cut = <<>> \/ \E x : cut = <<x>>
      BY <3>1, CutShape
    <3> QED
      BY <2>2, <3>1, <3>2
  <2> QED
    BY <2>1, <2>2
<1>6. /\ pipe' \in Seq(ItemType)
      /\ \A p \in 1..l : pipe'[p] = pipe[p]
      /\ \/ cut = <<>> /\ Len(pipe') = l
         \/ /\ unwritten # <<>> /\ Len(pipe') = l + 1
            /\ <<pipe'[l + 1]>> \in Cuts(unwritten[1])
  <2>1. CASE cut = <<>>
    <3>1. pipe' = pipe
      BY <1>3, <2>1, ConcatEmptySeq
    <3> QED
      BY <1>2, <1>3, <2>1, <3>1
  <2>2. CASE cut # <<>>
    <3>1. unwritten # <<>>
      BY <1>5, <2>2
    <3>2. PICK x : cut = <<x>> /\ <<x>> \in Cuts(unwritten[1])
      BY <1>5, <2>2
    <3>3. x \in ItemType
      BY <1>4, <3>1, <3>2, CutFacts
    <3>4. <<x>> \in Seq(ItemType) /\ Len(<<x>>) = 1 /\ <<x>>[1] = x
      BY <3>3
    <3>5. /\ pipe' \in Seq(ItemType) /\ Len(pipe') = l + 1
          /\ \A i \in 1..(l + 1) : pipe'[i] = IF i <= l THEN pipe[i] ELSE <<x>>[i - l]
      BY <1>2, <1>3, <3>2, <3>4, ConcatProperties
    <3>6. \A p \in 1..l : pipe'[p] = pipe[p]
      BY <3>5
    <3>7. pipe'[l + 1] = x
      <4>1. l + 1 \in 1..(l + 1) /\ ~(l + 1 <= l) /\ (l + 1) - l = 1
        OBVIOUS
      <4> QED
        BY <3>4, <3>5, <4>1
    <3> QED
      BY <3>1, <3>2, <3>5, <3>6, <3>7
  <2> QED
    BY <2>1, <2>2
<1>7. StreamType' /\ ReceivedInv'
  <2>1. alive' \in BOOLEAN
    OBVIOUS
  <2> QED
    BY <1>1, <1>6, <2>1 DEF StreamInv, StreamType, ReceivedInv
<1>8. FailedInv'
  BY <1>1 DEF StreamInv, FailedInv, Current, Cut
<1>9. ASSUME NEW start, Layout(start), Unwritten(start), Position(start)
      PROVE  Layout(start)' /\ Unwritten(start)' /\ Position(start)'
  <2>1. Places(start) /\ Contents(start) /\ Ending(start)
    BY <1>9 DEF Layout
  <2>2. PICK e \in Int : e = End(start) /\ e = start[n + 1] - u
    BY <1>2, <2>1, PlaceFacts DEF StreamInv
  <2>3. l = e
    BY <1>2, <2>1, <2>2 DEF Ending, Cut
  <2>4. End(start)' = e
    BY <1>1, <2>2 DEF End
  <2>5. Places(start)'
    BY <1>1, <2>1 DEF Places
  <2>6. Contents(start)'
    <3>1. \A g \in 1..Len(frames') : \A o \in 1..Count(frames'[g]) : \A p \in 1..Len(pipe') :
            p = start[g] + o /\ p <= start[Len(frames') + 1] - Len(unwritten') =>
              pipe'[p] = Items(frames'[g], g)[o]
      <4> TAKE g \in 1..Len(frames')
      <4> TAKE o \in 1..Count(frames'[g])
      <4> TAKE p \in 1..Len(pipe')
      <4> HAVE p = start[g] + o /\ p <= start[Len(frames') + 1] - Len(unwritten')
      <4>1. g \in 1..Len(frames) /\ o \in 1..Count(frames[g]) /\ frames'[g] = frames[g]
        BY <1>1
      <4>2. p <= e
        BY <1>1, <1>2, <2>2
      <4>3. p \in 1..l
        BY <1>6, <2>3, <4>2
      <4>4. p \in 1..Len(pipe) /\ p <= End(start)
        BY <1>2, <2>2, <4>2, <4>3
      <4>5. pipe[p] = Items(frames[g], g)[o]
        BY <2>1, <4>1, <4>4 DEF Contents
      <4> QED
        BY <1>6, <4>1, <4>3, <4>5
    <3> QED
      BY <3>1 DEF Contents, End
  <2>7. Ending(start)'
    <3>1. CASE Len(pipe') = l
      BY <2>3, <2>4, <3>1 DEF Ending
    <3>2. CASE Len(pipe') = l + 1 /\ unwritten # <<>> /\ <<pipe'[l + 1]>> \in Cuts(unwritten[1])
      <4>1. Cut'
        BY <1>1, <3>2 DEF Cut
      <4>2. <<pipe'[Len(pipe')]>> \in Cuts(unwritten'[1])
        BY <1>1, <3>2
      <4> QED
        BY <2>3, <2>4, <3>2, <4>1, <4>2 DEF Ending
    <3> QED
      BY <1>6, <3>1, <3>2
  <2>8. Unwritten(start)'
    <3>1. ASSUME unwritten # <<>>, u = Count(frames[n]) PROVE Len(pipe') = e + 1
      <4>1. n \in 1..Len(frames)
        BY <1>2, <1>4, <3>1
      <4>2. /\ Items(frames[n], n) \in Seq(ItemType)
            /\ Len(Items(frames[n], n)) = Count(frames[n])
        BY <4>1, FrameFacts DEF StreamInv
      <4>3. \A j \in 1..u : unwritten[j] = Items(frames[n], n)[u - u + j]
        BY <1>2, <1>9, <3>1 DEF Unwritten
      <4>4. \A j \in 1..u : unwritten[j] = Items(frames[n], n)[j]
        <5>1. \A j \in 1..u : u - u + j = j
          OBVIOUS
        <5> QED
          BY <4>3, <5>1
      <4>5. unwritten = Items(frames[n], n)
        BY <1>2, <1>3, <3>1, <4>2, <4>4, SeqEqual
      <4>6. Unbegun
        BY <1>2, <3>1, <4>5 DEF Unbegun, Last
      <4>7. cut # <<>>
        BY <4>6
      <4> QED
        BY <1>6, <2>3, <4>7
    <3> QED
      BY <1>1, <1>2, <1>9, <2>4, <3>1 DEF Unwritten
  <2>9. Position(start)'
    <3>0. Position(start)
      BY <1>9
    <3>1. PICK k \in Nat, o \in Nat, d \in Int :
            /\ At(start, k, o, d)
            /\ \/ AfterTheLast(k, o)
               \/ \E g : InHeader(k, g, o, d) \/ InBody(k, g, o)
      BY ONLY <3>0 DEF Position
    <3>2. At(start, k, o, d)'
      <4>1. d = e
        BY <2>2, <3>1 DEF At
      <4> QED
        BY <1>1, <2>4, <3>1, <4>1 DEF At, Current
    <3>3. /\ AfterTheLast(k, o) => AfterTheLast(k, o)'
          /\ \A g : InHeader(k, g, o, d) => InHeader(k, g, o, d)'
          /\ \A g : InBody(k, g, o) => InBody(k, g, o)'
      BY <1>1 DEF AfterTheLast, InHeader, InBody
    <3> QED
      BY <3>1, <3>2, <3>3 DEF Position
  <2> QED
    BY <2>5, <2>6, <2>7, <2>8, <2>9 DEF Layout
<1>10. ReadingInv'
  BY <1>1, <1>9 DEF StreamInv, ReadingInv
<1> QED
  BY <1>7, <1>8, <1>10 DEF StreamInv

\* The process ends when it has begun a frame and written nothing of it.
LEMMA DieBeforeAFrameKeeps ==
  ASSUME StreamInv, alive, alive' = FALSE, Unbegun,
         pipe' = pipe \o <<>>, frames' = Front(frames), unwritten' = <<>>,
         UNCHANGED <<phase, firstLine, contentLength, received>>
  PROVE  StreamInv'
<1>1. UNCHANGED <<phase, firstLine, contentLength, received>>
  OBVIOUS
<1>2. PICK n \in Nat, l \in Nat, u \in Nat, r \in Nat :
        n = Len(frames) /\ l = Len(pipe) /\ u = Len(unwritten) /\ r = Len(received)
  BY Sizes
<1>3. unwritten # <<>> /\ n # 0
  BY <1>2 DEF Unbegun, StreamInv, StreamType
<1>4. Current = r + 1 /\ r + 1 <= n
  BY <1>2, <1>3, AllReadIsWritten, Sizes
<1>5. n \in 1..Len(frames) /\ n \in 1..n
  BY <1>2, <1>3
<1>6. PICK c \in Nat : c = Count(frames[n]) /\ u = c
  <2>1. /\ frames[n].length \in Nat /\ Len(frames[n].header) \in Nat
        /\ Count(frames[n]) = Len(frames[n].header) + 1 + frames[n].length
        /\ Len(Items(frames[n], n)) = Count(frames[n])
    BY <1>5, FrameFacts DEF StreamInv
  <2>2. unwritten = Items(frames[n], n)
    BY <1>2 DEF Unbegun, Last
  <2>3. Count(frames[n]) \in Nat
    BY <2>1
  <2> QED
    BY <1>2, <2>1, <2>2, <2>3
<1>7. pipe' = pipe
  <2>1. pipe \in Seq(ItemType)
    BY DEF StreamInv, StreamType
  <2> QED
    BY <2>1, ConcatEmptySeq
<1>8. /\ frames' \in Seq(Frames) /\ Len(frames') = n - 1
      /\ \A i \in 1..(n - 1) : frames'[i] = frames[i]
  <2>1. \A i \in 1..n : frames[i] \in Frames
    <3>1. frames \in Seq(Frames)
      BY DEF StreamInv, StreamType
    <3> QED
      BY <1>2, <3>1, LenProperties
  <2>2. frames' = SubSeq(frames, 1, n - 1)
    BY <1>2 DEF Front
  <2>3. \A i \in 1..(n - 1) : frames[i] \in Frames
    BY <2>1
  <2>4. 1 \in Int /\ n - 1 \in Int
    OBVIOUS
  <2>5. /\ SubSeq(frames, 1, n - 1) \in Seq(Frames)
        /\ Len(SubSeq(frames, 1, n - 1)) = IF 1 <= n - 1 THEN (n - 1) - 1 + 1 ELSE 0
        /\ \A i \in 1..((n - 1) - 1 + 1) : SubSeq(frames, 1, n - 1)[i] = frames[1 + i - 1]
    BY <2>3, <2>4, SubSeqProperties
  <2>6. PICK q : q = SubSeq(frames, 1, n - 1) /\ frames' = q
    BY <2>2
  <2>7. Len(q) = n - 1
    BY <1>3, <2>5, <2>6
  <2>8. ASSUME NEW i \in 1..(n - 1) PROVE q[i] = frames[i]
    <3>1. i \in 1..((n - 1) - 1 + 1) /\ 1 + i - 1 = i
      OBVIOUS
    <3> QED
      BY <2>5, <2>6, <3>1
  <2> QED
    BY <2>5, <2>6, <2>7, <2>8
<1>9. unwritten' \in Seq(ItemType) /\ Len(unwritten') = 0
  OBVIOUS
<1>10. StreamType'
  <2>1. ASSUME NEW i \in 1..Len(frames')
        PROVE  frames'[i].header \in Headers(frames'[i].length)
    <3>1. i \in 1..(n - 1) /\ i \in 1..Len(frames)
      BY <1>2, <1>8
    <3>2. frames[i].header \in Headers(frames[i].length)
      BY <3>1 DEF StreamInv, StreamType
    <3> QED
      BY <1>8, <3>1, <3>2
  <2> QED
    BY <1>1, <1>7, <1>8, <1>9, <2>1 DEF StreamInv, StreamType
<1>11. ReceivedInv'
  <2>1. ASSUME NEW i \in 1..r PROVE Sound(frames'[i])
    <3>1. i \in 1..(n - 1)
      BY <1>4
    <3>2. Sound(frames[i])
      BY <1>2 DEF StreamInv, ReceivedInv
    <3> QED
      BY <1>8, <3>1, <3>2
  <2>2. r <= Len(frames')
    BY <1>4, <1>8
  <2>3. received = [i \in 1..Len(received) |-> i]
    BY DEF StreamInv, ReceivedInv
  <2> QED
    BY <1>1, <1>2, <2>1, <2>2, <2>3 DEF ReceivedInv
<1>12. FailedInv'
  <2> SUFFICES ASSUME phase \in Errors PROVE FailedInv'
    BY <1>1 DEF FailedInv
  <2>1. /\ phase \notin {"Eof", "UnexpectedEof"} /\ ~Sound(frames[Current])
        /\ Current = n => u < Count(frames[Current])
    BY <1>2 DEF StreamInv, FailedInv, Cut
  <2>2. Current # n
    BY <1>6, <2>1
  <2>3. Current \in 1..(n - 1)
    BY <1>4, <2>2
  <2>4. ~Sound(frames'[Current]) /\ Current <= Len(frames')
    BY <1>8, <2>1, <2>3
  <2>5. Current' = Current
    BY <1>1 DEF Current
  <2>6. 0 < Count(frames'[Current])
    <3>1. Current \in 1..Len(frames)
      BY <1>2, <2>3
    <3>2. /\ frames[Current].length \in Nat /\ Len(frames[Current].header) \in Nat
          /\ Count(frames[Current]) = Len(frames[Current].header) + 1 + frames[Current].length
      BY <3>1, FrameFacts DEF StreamInv
    <3>3. 0 < Count(frames[Current])
      BY <3>2
    <3> QED
      BY <1>8, <2>3, <3>3
  <2> QED
    BY <1>1, <1>9, <2>1, <2>4, <2>5, <2>6 DEF FailedInv
<1>13. ASSUME NEW start, Layout(start), Unwritten(start), Position(start)
       PROVE  \E next : Layout(next)' /\ Unwritten(next)' /\ Position(next)'
  <2>1. Places(start) /\ Contents(start) /\ Ending(start)
    BY <1>13 DEF Layout
  <2>2. PICK e \in Int : e = End(start) /\ e = start[n + 1] - u
    BY <1>2, <2>1, PlaceFacts DEF StreamInv
  <2>3. l = e
    BY <1>2, <2>1, <2>2 DEF Ending, Cut
  <2>4. /\ start \in [1..(n + 1) -> Int] /\ start[n] = e
        /\ n \in 1..(n + 1)
    <3>1. /\ start \in [1..(n + 1) -> Int] /\ start[n + 1] = start[n] + c
          /\ start[n] \in Int
      BY <1>2, <1>5, <1>6, <2>1, PlaceFacts DEF StreamInv
    <3>2. PICK s \in Int : s = start[n]
      BY <3>1
    <3>3. e = (s + c) - c
      BY <1>6, <2>2, <3>1, <3>2
    <3>4. e = s
      BY <3>3
    <3>5. n \in 1..(n + 1)
      BY <1>3
    <3> QED
      BY <3>1, <3>2, <3>4, <3>5
  <2>5. PICK next : next = [g \in 1..n |-> start[g]]
    OBVIOUS
  <2>6. next \in [1..n -> Int] /\ \A g \in 1..n : next[g] = start[g]
    <3>1. \A g \in 1..n : g \in 1..(n + 1)
      OBVIOUS
    <3>2. \A g \in 1..n : start[g] \in Int
      BY <2>4, <3>1
    <3> QED
      BY <2>5, <3>2
  <2>7. Len(frames') + 1 = n
    BY <1>8
  <2>8. End(next)' = e
    <3>1. End(next)' = next[n] - 0
      BY <1>9, <2>7 DEF End
    <3>2. next[n] = e
      BY <1>5, <2>4, <2>6
    <3> QED
      BY <3>1, <3>2
  <2>9. Places(next)'
    <3>1. ASSUME NEW g \in 1..(n - 1) PROVE next[g + 1] = next[g] + Count(frames'[g])
      <4>1. g \in 1..n /\ g + 1 \in 1..n /\ g \in 1..Len(frames)
        BY <1>2
      <4>2. start[g + 1] = start[g] + Count(frames[g])
        BY <2>1, <4>1 DEF Places
      <4> QED
        BY <1>8, <2>6, <4>1, <4>2
    <3>2. ASSUME NEW g \in 1..n, NEW h \in 1..n, g <= h
          PROVE  next[g] <= next[h]
      <4>1. g \in 1..(Len(frames) + 1) /\ h \in 1..(Len(frames) + 1)
        BY <1>2
      <4>2. start[g] <= start[h]
        BY <2>1, <3>2, <4>1 DEF Places
      <4> QED
        BY <2>6, <4>2
    <3> QED
      BY <1>8, <2>6, <2>7, <3>1, <3>2 DEF Places
  <2>10. Contents(next)'
    <3>1. \A g \in 1..Len(frames') : \A o \in 1..Count(frames'[g]) : \A p \in 1..Len(pipe') :
            p = next[g] + o /\ p <= next[Len(frames') + 1] - Len(unwritten') =>
              pipe'[p] = Items(frames'[g], g)[o]
      <4> TAKE g \in 1..Len(frames')
      <4> TAKE o \in 1..Count(frames'[g])
      <4> TAKE p \in 1..Len(pipe')
      <4> HAVE p = next[g] + o /\ p <= next[Len(frames') + 1] - Len(unwritten')
      <4>1. g \in 1..(n - 1) /\ g \in 1..n /\ g \in 1..Len(frames)
        BY <1>2, <1>8
      <4>2. frames'[g] = frames[g] /\ p = start[g] + o /\ p \in 1..Len(pipe)
        BY <1>7, <1>8, <2>6, <4>1
      <4>3. p <= End(start)
        BY <2>2, <2>8 DEF End
      <4>4. o \in 1..Count(frames[g])
        BY <4>2
      <4>5. pipe[p] = Items(frames[g], g)[o]
        BY <2>1, <4>1, <4>2, <4>3, <4>4 DEF Contents
      <4> QED
        BY <1>7, <4>2, <4>5
    <3> QED
      BY <3>1 DEF Contents, End
  <2>11. Ending(next)'
    BY <1>2, <1>7, <2>3, <2>8 DEF Ending
  <2>12. Unwritten(next)'
    BY DEF Unwritten
  <2>13. Position(next)'
    <3>0. Position(start)
      BY <1>13
    <3>1. PICK k \in Nat, o \in Nat, d \in Int :
            /\ At(start, k, o, d)
            /\ \/ AfterTheLast(k, o)
               \/ \E g : InHeader(k, g, o, d) \/ InBody(k, g, o)
      BY ONLY <3>0 DEF Position
    <3>2. k = Current /\ start[k] + o = 0 /\ d = e
      BY <2>2, <3>1 DEF At
    <3>3. k \in 1..n
      BY <1>4, <3>2
    <3>4. At(next, k, o, d)'
      <4>1. Current' = k
        BY <1>1, <3>2 DEF Current
      <4>2. next[k] + o = 0
        BY <2>6, <3>2, <3>3
      <4>3. k <= Len(frames') + 1
        BY <2>7, <3>3
      <4> QED
        BY <2>8, <3>2, <4>1, <4>2, <4>3 DEF At
    <3>5. PICK g : InHeader(k, g, o, d) \/ InBody(k, g, o)
      BY <1>3, <3>1 DEF AfterTheLast
    <3>6. CASE k # n
      <4>1. k \in 1..(n - 1) /\ k <= Len(frames') /\ frames'[k] = frames[k]
        BY <1>8, <3>3, <3>6
      <4>2. InHeader(k, g, o, d) => InHeader(k, g, o, d)'
        BY <1>1, <4>1 DEF InHeader
      <4>3. InBody(k, g, o) => InBody(k, g, o)'
        BY <1>1, <4>1 DEF InBody
      <4> QED
        BY <3>4, <3>5, <4>2, <4>3 DEF Position
    <3>7. CASE k = n
      <4>1. o = 0
        <5>1. e + o = 0
          BY <2>4, <3>2, <3>7
        <5> QED
          BY <2>3, <5>1
      <4>2. ~InBody(k, g, o)
        <5> SUFFICES ASSUME InBody(k, g, o) PROVE FALSE
          OBVIOUS
        <5>1. o = Len(frames[n].header) + 1
          BY <3>7 DEF InBody
        <5>2. Len(frames[n].header) \in Nat
          BY <1>5, FrameFacts DEF StreamInv
        <5> QED
          BY <4>1, <5>1, <5>2
      <4>3. phase = "header" /\ firstLine /\ contentLength = None
        BY <3>5, <4>1, <4>2 DEF InHeader
      <4>4. k = Len(frames') + 1
        BY <2>7, <3>7
      <4>5. AfterTheLast(k, o)'
        BY <1>1, <4>1, <4>3, <4>4 DEF AfterTheLast
      <4> QED
        BY <3>4, <4>5 DEF Position
    <3> QED
      BY <3>6, <3>7
  <2> QED
    BY <2>9, <2>10, <2>11, <2>12, <2>13 DEF Layout
<1>14. ReadingInv'
  BY <1>1, <1>13 DEF StreamInv, ReadingInv
<1> QED
  BY <1>10, <1>11, <1>12, <1>14 DEF StreamInv

LEMMA DieKeeps ==
  ASSUME StreamInv, Die
  PROVE  StreamInv'
<1>1. alive /\ alive' = FALSE /\ UNCHANGED <<phase, firstLine, contentLength, received>>
  BY DEF Die, readerVars
<1>2. PICK cut \in (IF unwritten = <<>> THEN {<<>>} ELSE Cuts(Head(unwritten))) :
        /\ pipe' = pipe \o cut
        /\ IF Unbegun /\ cut = <<>>
             THEN frames' = Front(frames) /\ unwritten' = <<>>
             ELSE UNCHANGED <<frames, unwritten>>
  BY DEF Die
<1>3. CASE Unbegun /\ cut = <<>>
  <2>1. frames' = Front(frames) /\ unwritten' = <<>> /\ pipe' = pipe \o <<>>
    BY <1>2, <1>3
  <2> QED
    BY <1>1, <1>3, <2>1, DieBeforeAFrameKeeps
<1>4. CASE ~(Unbegun /\ cut = <<>>)
  <2>1. /\ UNCHANGED <<frames, unwritten, phase, firstLine, contentLength, received>>
        /\ cut = <<>> => ~Unbegun
    BY <1>1, <1>2, <1>4
  <2> QED
    BY <1>1, <1>2, <2>1, DieInAFrameKeeps
<1> QED
  BY <1>3, <1>4

----------------------------------------------------------------------------
(* The steps of read_message *)

LEMMA LineFacts ==
  /\ Blank \notin {Unparsable, NotUtf8, Other} /\ Other \notin {Unparsable, NotUtf8}
  /\ \A v : /\ Length(v) \notin {Blank, Unparsable, NotUtf8, Other}
            /\ Length(v).kind = "length" /\ Length(v).value = v
            /\ \A w : Length(v) = Length(w) => v = w
  /\ Blank.kind = "blank" /\ Unparsable.kind = "unparsable"
  /\ NotUtf8.kind = "notUtf8" /\ Other.kind = "other"
  /\ \A i : Line("byte", i).kind = "byte" /\ Line("byte", i).value = i
<1>1. \A v : Length(v).kind = "length" /\ Length(v).value = v
  BY DEF Length, Line
<1>2. /\ Blank.kind = "blank" /\ Unparsable.kind = "unparsable"
      /\ NotUtf8.kind = "notUtf8" /\ Other.kind = "other"
  BY DEF Blank, Unparsable, NotUtf8, Other, Line
<1>3. \A i : Line("byte", i).kind = "byte" /\ Line("byte", i).value = i
  BY DEF Line
<1> HIDE DEF Length, Blank, Unparsable, NotUtf8, Other, Line
<1>4. \A v : Length(v) \notin {Blank, Unparsable, NotUtf8, Other}
  BY <1>1, <1>2
<1>5. Blank \notin {Unparsable, NotUtf8, Other} /\ Other \notin {Unparsable, NotUtf8}
  BY <1>2
<1>6. \A v : \A w : Length(v) = Length(w) => v = w
  BY <1>1
<1> QED
  BY <1>1, <1>2, <1>3, <1>4, <1>5, <1>6

\* The next line of a header, or of what is left of one.
WholeLine(k, f, o, e) ==
  /\ e >= 1
  /\ k = Len(frames) => Len(unwritten) < Count(f)
  /\ \/ o < Len(f.header) /\ pipe[1] = f.header[o + 1]
     \/ o = Len(f.header) /\ pipe[1] = Blank

CutLine(k, f, o, e) ==
  /\ Cut /\ k = Len(frames) /\ e = 0
  /\ \/ o < Len(f.header) /\ pipe[1] # Blank
     \/ o = Len(f.header) /\ pipe[1] = Blank

LEMMA NextLine ==
  ASSUME StreamInv, phase = "header", pipe # <<>>,
         NEW start, Layout(start), Unwritten(start), Position(start)
  PROVE  \E k \in 1..Len(frames), o \in Nat, e \in Int :
           /\ At(start, k, o, e) /\ InHeader(k, frames[k], o, e)
           /\ WholeLine(k, frames[k], o, e) \/ CutLine(k, frames[k], o, e)
<1>1. PICK n \in Nat, l \in Nat, u \in Nat :
        n = Len(frames) /\ l = Len(pipe) /\ u = Len(unwritten)
  BY Sizes
<1>2. Places(start) /\ Contents(start) /\ Ending(start)
  BY DEF Layout
<1>3. l # 0
  <2>1. pipe \in Seq(ItemType)
    BY DEF StreamInv, StreamType
  <2> QED
    BY <1>1, <2>1, EmptySeq
<1>4. PICK k \in Nat, o \in Nat, e \in Int :
        /\ At(start, k, o, e)
        /\ \/ AfterTheLast(k, o)
           \/ \E f : InHeader(k, f, o, e) \/ InBody(k, f, o)
  BY DEF Position
<1>5. /\ k = Current /\ start[k] + o = 0 /\ e = End(start) /\ k <= n + 1 /\ k # 0
      /\ e = start[n + 1] - u
  <2>1. k = Current /\ start[k] + o = 0 /\ e = End(start) /\ k <= n + 1
    BY <1>1, <1>4 DEF At
  <2>2. k # 0
    BY <2>1, Sizes
  <2>3. End(start) = start[n + 1] - u
    BY <1>1 DEF End
  <2> QED
    BY <2>1, <2>2, <2>3
<1>6. start \in [1..(n + 1) -> Int]
  BY <1>1, <1>2, PlaceFacts DEF StreamInv
<1>7. ~AfterTheLast(k, o)
  <2> SUFFICES ASSUME AfterTheLast(k, o) PROVE FALSE
    OBVIOUS
  <2>1. k = n + 1 /\ o = 0 /\ unwritten = <<>>
    BY <1>1 DEF AfterTheLast
  <2>2. u = 0
    BY <1>1, <2>1
  <2>3. start[n + 1] \in Int /\ start[n + 1] + 0 = 0
    BY <1>5, <1>6, <2>1
  <2>4. e = 0
    BY <1>5, <2>2, <2>3
  <2>5. l = e
    BY <1>1, <1>2, <1>5, <2>1 DEF Ending, Cut
  <2> QED
    BY <1>3, <2>4, <2>5
<1>8. InHeader(k, frames[k], o, e)
  BY <1>4, <1>7 DEF InHeader, InBody
<1>9. k \in 1..n /\ k \in 1..Len(frames)
  BY <1>1, <1>5, <1>8 DEF InHeader
<1>10. PICK h \in Nat, c \in Nat, b \in Nat :
         /\ h = Len(frames[k].header) /\ h # 0 /\ b = frames[k].length
         /\ c = Count(frames[k]) /\ c = h + 1 + b
  <2>1. /\ frames[k].length \in Nat /\ Len(frames[k].header) \in Nat
        /\ Len(frames[k].header) # 0
        /\ Count(frames[k]) = Len(frames[k].header) + 1 + frames[k].length
    BY <1>9, FrameFacts DEF StreamInv
  <2>2. PICK h \in Nat, b \in Nat : h = Len(frames[k].header) /\ b = frames[k].length
    BY <2>1
  <2>3. h # 0 /\ Count(frames[k]) = h + 1 + b /\ h + 1 + b \in Nat
    BY <2>1, <2>2
  <2> QED
    BY <2>2, <2>3
<1>11. o <= h
  BY <1>8, <1>10 DEF InHeader
<1>12. o + 1 \in 1..Count(frames[k]) /\ 1 \in 1..Len(pipe) /\ 1 = start[k] + (o + 1)
  <2>1. k \in 1..(n + 1)
    BY <1>9
  <2>2. start[k] \in Int
    BY <1>6, <2>1
  <2>3. 1 = start[k] + (o + 1)
    BY <1>5, <2>2
  <2>4. o + 1 \in 1..c
    BY <1>10, <1>11
  <2>5. 1 \in 1..l
    BY <1>3
  <2> QED
    BY <1>1, <1>10, <2>3, <2>4, <2>5
<1>13. \/ 1 <= e /\ pipe[1] = Items(frames[k], k)[o + 1]
       \/ /\ Cut /\ k = n /\ 1 = e + 1 /\ 1 = Len(pipe)
          /\ <<pipe[1]>> \in Cuts(Items(frames[k], k)[o + 1])
  <2>1. PICK p \in 1..Len(pipe), q \in 1..Count(frames[k]) : p = 1 /\ q = o + 1 /\ p = start[k] + q
    <3>1. PICK q \in 1..Count(frames[k]) : q = o + 1
      BY <1>12
    <3>2. PICK p \in 1..Len(pipe) : p = 1
      BY <1>12
    <3>3. p = start[k] + q
      BY <1>12, <3>1, <3>2
    <3> QED
      BY <3>1, <3>2, <3>3
  <2>2. \/ p <= End(start) /\ pipe[p] = Items(frames[k], k)[q]
        \/ /\ Cut /\ k = Len(frames) /\ p = End(start) + 1 /\ p = Len(pipe)
           /\ <<pipe[p]>> \in Cuts(Items(frames[k], k)[q])
    <3>1. StreamType /\ k \in 1..Len(frames)
      BY <1>9 DEF StreamInv
    <3>2. p = start[k] + q
      BY <2>1
    <3> QED
      BY <3>1, <3>2, ItemRead
  <2>3. /\ pipe[p] = pipe[1] /\ Items(frames[k], k)[q] = Items(frames[k], k)[o + 1]
        /\ End(start) = e /\ Len(frames) = n
    BY <1>1, <1>5, <2>1
  <2>4. CASE p <= End(start) /\ pipe[p] = Items(frames[k], k)[q]
    <3>1. 1 <= e
      BY <2>1, <2>3, <2>4
    <3> QED
      BY <2>3, <2>4, <3>1
  <2>5. CASE /\ Cut /\ k = Len(frames) /\ p = End(start) + 1 /\ p = Len(pipe)
             /\ <<pipe[p]>> \in Cuts(Items(frames[k], k)[q])
    <3>1. 1 = e + 1 /\ 1 = Len(pipe)
      BY <2>1, <2>3, <2>5
    <3> QED
      BY <2>3, <2>5, <3>1
  <2> QED
    BY <2>2, <2>4, <2>5
<1>14. /\ o < h => Items(frames[k], k)[o + 1] = frames[k].header[o + 1]
       /\ o = h => Items(frames[k], k)[o + 1] = Blank
       /\ o < h => frames[k].header[o + 1] \in {Length(b), Unparsable, NotUtf8, Other}
  <2>1. /\ \A i \in 1..h : /\ Items(frames[k], k)[i] = frames[k].header[i]
                           /\ frames[k].header[i] \in {Length(b), Unparsable, NotUtf8, Other}
        /\ Items(frames[k], k)[h + 1] = Blank
    BY <1>9, <1>10, FrameFacts DEF StreamInv
  <2>2. o < h => o + 1 \in 1..h
    BY <1>10
  <2> QED
    BY <2>1, <2>2
<1>15. o < h \/ o = h
  BY <1>10, <1>11
<1>16. ASSUME 1 <= e, pipe[1] = Items(frames[k], k)[o + 1]
       PROVE  WholeLine(k, frames[k], o, e)
  <2>1. k = n => u < c
    <3> SUFFICES ASSUME k = n PROVE u < c
      OBVIOUS
    <3>1. start[n + 1] = start[n] + c /\ start[n] \in Int
      BY <1>1, <1>2, <1>9, <1>10, PlaceFacts DEF StreamInv
    <3>2. PICK s \in Int : s = start[n]
      BY <3>1
    <3>3. e = (s + c) - u /\ s + o = 0
      BY <1>5, <3>1, <3>2
    <3> QED
      BY <1>16, <3>3
  <2>2. e >= 1
    BY <1>16
  <2>3. \/ o < h /\ pipe[1] = frames[k].header[o + 1]
        \/ o = h /\ pipe[1] = Blank
    BY <1>14, <1>15, <1>16
  <2> QED
    BY <1>1, <1>10, <2>1, <2>2, <2>3 DEF WholeLine
<1>17. ASSUME Cut, k = n, 1 = e + 1, <<pipe[1]>> \in Cuts(Items(frames[k], k)[o + 1])
       PROVE  CutLine(k, frames[k], o, e)
  <2>1. PICK item \in ItemType : item = Items(frames[k], k)[o + 1]
    <3>1. /\ Items(frames[k], k) \in Seq(ItemType)
          /\ Len(Items(frames[k], k)) = Count(frames[k])
      BY <1>9, FrameFacts DEF StreamInv
    <3>2. Items(frames[k], k)[o + 1] \in ItemType
      BY <1>12, <3>1, LenProperties
    <3> QED
      BY <3>2
  <2>2. \/ /\ item.kind = "length"
           /\ pipe[1] = Other \/ pipe[1] = Unparsable \/ \E v \in Nat : pipe[1] = Length(v)
        \/ item.kind = "notUtf8" /\ (pipe[1] = Other \/ pipe[1] = item)
        \/ item.kind \notin {"length", "notUtf8", "byte"} /\ pipe[1] = item
    BY <1>17, <2>1, CutFacts
  <2>3. CASE o < h
    <3>1. item \in {Length(b), Unparsable, NotUtf8, Other}
      BY <1>14, <2>1, <2>3
    <3>2. item # Blank
      BY <3>1, LineFacts
    <3>3. pipe[1] # Blank
      BY <2>2, <3>2, LineFacts
    <3>4. e = 0
      BY <1>17
    <3> QED
      BY <1>1, <1>10, <1>17, <2>3, <3>3, <3>4 DEF CutLine
  <2>4. CASE o = h
    <3>1. item = Blank
      BY <1>14, <2>1, <2>4
    <3>2. pipe[1] = Blank
      BY <2>2, <3>1, LineFacts
    <3>3. e = 0
      BY <1>17
    <3> QED
      BY <1>1, <1>10, <1>17, <2>4, <3>2, <3>3 DEF CutLine
  <2> QED
    BY <1>15, <2>3, <2>4
<1>18. WholeLine(k, frames[k], o, e) \/ CutLine(k, frames[k], o, e)
  BY <1>13, <1>16, <1>17
<1> QED
  BY <1>4, <1>8, <1>9, <1>18

\* One line is taken off the stream.
LEMMA LineTaken ==
  ASSUME StreamInv, pipe # <<>>, pipe' = Tail(pipe), UNCHANGED <<alive, frames, unwritten, received>>,
         NEW start, Layout(start), Unwritten(start),
         NEW k \in 1..Len(frames), NEW o \in Nat, NEW e \in Int, At(start, k, o, e)
  PROVE  \E next : Layout(next)' /\ Unwritten(next)' /\ At(next, k, o + 1, e - 1)'
<1>1. PICK n \in Nat, l \in Nat : n = Len(frames) /\ l = Len(pipe)
  BY Sizes
<1>2. pipe \in Seq(ItemType) /\ StreamType
  BY DEF StreamInv, StreamType
<1>3. l # 0
  BY <1>1, <1>2, EmptySeq
<1>4. pipe' = SubSeq(pipe, 1 + 1, Len(pipe))
  BY <1>2, TailIsSubSeq
<1>5. PICK next : next = [f \in 1..(n + 1) |-> start[f] - 1]
  OBVIOUS
<1>6. 1 \in Nat /\ 1 <= Len(pipe)
  BY <1>1, <1>3
<1>7. Layout(next)' /\ Unwritten(next)' /\ End(next)' = End(start) - 1
  BY <1>1, <1>2, <1>4, <1>5, <1>6, Consumed
<1>8. k = Current /\ start[k] + o = 0 /\ e = End(start) /\ start \in [1..(n + 1) -> Int]
  BY <1>1 DEF At, Layout, Places
<1>9. k \in 1..(n + 1)
  BY <1>1
<1>10. next[k] + (o + 1) = 0
  <2>1. PICK s \in Int : s = start[k]
    BY <1>8, <1>9
  <2>2. next[k] = s - 1
    BY <1>5, <1>9, <2>1
  <2>3. s + o = 0
    BY <1>8, <2>1
  <2> QED
    BY <2>2, <2>3
<1>11. Current' = k
  BY <1>8 DEF Current
<1>12. k <= Len(frames') + 1
  BY <1>1
<1>13. At(next, k, o + 1, e - 1)'
  BY <1>7, <1>8, <1>10, <1>11, <1>12 DEF At
<1> QED
  BY <1>7, <1>13

\* Whether the stream has reached the current frame decides who is at fault.
LEMMA FailsAtTheFrame ==
  ASSUME StreamInv, NEW k \in 1..Len(frames), k = Current,
         UNCHANGED <<alive, frames, unwritten, received>>, phase' \notin {"Eof", "UnexpectedEof"},
         \/ ~Sound(frames[k]) /\ (k = Len(frames) => Len(unwritten) < Count(frames[k]))
         \/ Cut /\ k = Len(frames)
  PROVE  FailedInv'
<1>1. Current' = k /\ Cut' = Cut /\ k <= Len(frames)
  <2>1. Len(frames) \in Nat
    BY Sizes
  <2> QED
    BY <2>1 DEF Current, Cut
<1>2. phase' # "Eof"
  OBVIOUS
<1> QED
  BY <1>1, <1>2 DEF FailedInv

\* f has a header of h lines and says, or should say, that its body has b bytes.
HeaderOf(f, h, b) ==
  /\ h = Len(f.header) /\ b = f.length /\ DOMAIN f.header = 1..h
  /\ \A i \in 1..h : /\ f.header[i] \in {Length(b), Unparsable, NotUtf8, Other}
                     /\ f.header[i] \in {Unparsable, NotUtf8} => Length(b) \notin ToSet(f.header)

LEMMA ReadLineKeeps ==
  ASSUME StreamInv, ReadLine
  PROVE  StreamInv'
<1> DEFINE line == Head(pipe)
<1>1. /\ phase = "header" /\ pipe # <<>> /\ pipe' = Tail(pipe)
      /\ UNCHANGED <<alive, frames, unwritten>>
  BY DEF ReadLine
<1>2. /\ pipe \in Seq(ItemType) /\ line = pipe[1] /\ line \in ItemType
      /\ pipe' \in Seq(ItemType)
  <2>1. pipe \in Seq(ItemType)
    BY DEF StreamInv, StreamType
  <2>2. line \in ItemType /\ pipe' \in Seq(ItemType)
    BY <1>1, <2>1, HeadTailProperties
  <2>3. line = pipe[1]
    BY <1>1, <2>1
  <2> QED
    BY <2>1, <2>2, <2>3
<1>3. phase \notin Errors
  BY <1>1 DEF Errors
<1>4. PICK start : Layout(start) /\ Unwritten(start) /\ Position(start)
  BY <1>3 DEF StreamInv, ReadingInv
<1>5. PICK k \in 1..Len(frames), o \in Nat, e \in Int :
        /\ At(start, k, o, e) /\ InHeader(k, frames[k], o, e)
        /\ WholeLine(k, frames[k], o, e) \/ CutLine(k, frames[k], o, e)
  BY <1>1, <1>4, NextLine
<1>6. k = Current
  BY <1>5 DEF At
<1>6a. PICK f \in Frames, h \in Nat, b \in Nat : f = frames[k] /\ HeaderOf(f, h, b)
  <2>1. PICK f \in Frames : f = frames[k]
    BY DEF StreamInv, StreamType
  <2>2. /\ f.length \in Nat /\ Len(f.header) \in Nat
        /\ \A i \in 1..Len(f.header) :
             /\ f.header[i] \in {Length(f.length), Unparsable, NotUtf8, Other}
             /\ f.header[i] \in {Unparsable, NotUtf8} => Length(f.length) \notin ToSet(f.header)
    BY <2>1, FrameFacts DEF StreamInv
  <2>3. DOMAIN f.header = 1..Len(f.header)
    <3>1. f.header \in Headers(f.length)
      BY <2>1 DEF StreamInv, StreamType
    <3>2. f.header \in Seq(ItemType)
      BY <2>2, <3>1, HeaderFacts
    <3> QED
      BY <3>2
  <2>4. PICK h \in Nat, b \in Nat : h = Len(f.header) /\ b = f.length
    BY <2>2
  <2>5. HeaderOf(f, h, b)
    BY <2>2, <2>3, <2>4 DEF HeaderOf
  <2> QED
    BY <2>1, <2>4, <2>5
<1>7. /\ f = frames[k] /\ h = Len(f.header) /\ b = f.length /\ DOMAIN f.header = 1..h
      /\ \A i \in 1..h : /\ f.header[i] \in {Length(b), Unparsable, NotUtf8, Other}
                         /\ f.header[i] \in {Unparsable, NotUtf8} => Length(b) \notin ToSet(f.header)
  BY <1>6a DEF HeaderOf
<1>8. InHeader(k, f, o, e) /\ (WholeLine(k, f, o, e) \/ CutLine(k, f, o, e))
  BY <1>5, <1>7
<1>9. o <= h
  BY <1>7, <1>8 DEF InHeader
<1>10. ASSUME WholeLine(k, f, o, e)
       PROVE  /\ e >= 1 /\ (k = Len(frames) => Len(unwritten) < Count(f))
              /\ \/ o < h /\ line = f.header[o + 1] /\ o + 1 \in 1..h
                 \/ o = h /\ line = Blank
  <2>1. o < h => o + 1 \in 1..h
    OBVIOUS
  <2> QED
    BY <1>2, <1>7, <1>10, <2>1 DEF WholeLine
<1>11. ASSUME CutLine(k, f, o, e)
       PROVE  /\ Cut /\ k = Len(frames) /\ e = 0
              /\ \/ o < h /\ line # Blank
                 \/ o = h /\ line = Blank
  BY <1>2, <1>7, <1>11 DEF CutLine
<1>12. PICK next : Layout(next)' /\ Unwritten(next)' /\ At(next, k, o + 1, e - 1)'
  <2>1. \E next : Layout(next)' /\ Unwritten(next)' /\ At(next, k, o + 1, e - 1)'
    <3>1. UNCHANGED <<alive, frames, unwritten, received>>
      BY DEF ReadLine, Fail
    <3> QED
      BY <1>1, <1>4, <1>5, <3>1, LineTaken
  <2> QED
    BY <2>1
<1>13. UNCHANGED received /\ ReceivedInv'
  <2>1. UNCHANGED received
    BY DEF ReadLine, Fail
  <2> QED
    BY <1>1, <2>1 DEF StreamInv, ReceivedInv
<1>14. o + 1 \in Nat /\ e - 1 \in Int
  OBVIOUS
<1>15. ASSUME /\ phase' \in Errors \ {"Eof", "UnexpectedEof"}
              /\ UNCHANGED <<firstLine, contentLength>>,
              WholeLine(k, f, o, e) => ~Sound(f)
       PROVE  StreamInv'
  <2>1. StreamType'
    BY <1>1, <1>2, <1>13, <1>15 DEF StreamInv, StreamType
  <2>2. \/ ~Sound(frames[k]) /\ (k = Len(frames) => Len(unwritten) < Count(frames[k]))
        \/ Cut /\ k = Len(frames)
    BY <1>7, <1>8, <1>10, <1>11, <1>15
  <2>3. FailedInv'
    BY <1>1, <1>6, <1>13, <1>15, <2>2, FailsAtTheFrame
  <2>4. ReadingInv'
    BY <1>15 DEF ReadingInv
  <2> QED
    BY <1>13, <2>1, <2>3, <2>4 DEF StreamInv
<1>16. ASSUME /\ phase' \in {"header", "body"}
              /\ firstLine' \in BOOLEAN /\ contentLength' \in Nat \cup {None},
              InHeader(k, f, o + 1, e - 1)' \/ InBody(k, f, o + 1)'
       PROVE  StreamInv'
  <2>1. StreamType'
    BY <1>1, <1>2, <1>13, <1>16 DEF StreamInv, StreamType
  <2>2. Position(next)'
    BY <1>12, <1>14, <1>16 DEF Position
  <2>3. ReadingInv'
    BY <1>12, <2>2 DEF ReadingInv
  <2>4. FailedInv'
    BY <1>16 DEF FailedInv, Errors
  <2> QED
    BY <1>13, <2>1, <2>3, <2>4 DEF StreamInv
<1>17. CASE line = Blank /\ contentLength = None /\ Fail("MissingContentLength")
  <2>1. ASSUME WholeLine(k, f, o, e) PROVE ~Sound(f)
    <3>1. o = h /\ e >= 0
      <4>1. o < h => FALSE
        BY <1>7, <1>10, <1>17, <2>1, LineFacts
      <4> QED
        BY <1>10, <2>1, <4>1
    <3>2. \A i \in 1..h : f.header[i] = Other
      BY <1>8, <1>17, <3>1 DEF InHeader
    <3>3. Length(b) \notin ToSet(f.header)
      BY <1>7, <3>2, LineFacts DEF ToSet
    <3> QED
      BY <1>7, <3>3 DEF Sound
  <2>2. phase' \in Errors \ {"Eof", "UnexpectedEof"} /\ UNCHANGED <<firstLine, contentLength>>
    BY <1>17 DEF Fail, Errors
  <2> QED
    BY <1>15, <2>1, <2>2
<1>18. CASE /\ line = Blank /\ contentLength # None /\ phase' = "body"
            /\ UNCHANGED <<firstLine, contentLength, received>>
  <2>1. o = h /\ e >= 0
    <3>1. ASSUME WholeLine(k, f, o, e) PROVE o = h /\ e >= 0
      <4>1. o < h => FALSE
        BY <1>7, <1>10, <1>18, <3>1, LineFacts
      <4> QED
        BY <1>10, <3>1, <4>1
    <3>2. ASSUME CutLine(k, f, o, e) PROVE o = h /\ e >= 0
      BY <1>11, <1>18, <3>2
    <3> QED
      BY <1>8, <3>1, <3>2
  <2>2. InBody(k, f, o + 1)'
    <3>1. /\ contentLength = f.length /\ f.length <= MaxLength
          /\ Length(f.length) \in ToSet(f.header)
      BY <1>8, <1>18, <2>1 DEF InHeader
    <3>2. k <= Len(frames) /\ f = frames[k]
      BY <1>8 DEF InHeader
    <3>3. o + 1 = Len(f.header) + 1
      BY <1>7, <2>1
    <3> QED
      BY <1>1, <1>18, <3>1, <3>2, <3>3 DEF InBody
  <2>3. firstLine' \in BOOLEAN /\ contentLength' \in Nat \cup {None}
    BY <1>18 DEF StreamInv, StreamType
  <2> QED
    BY <1>16, <1>18, <2>2, <2>3
<1>19. CASE /\ line.kind = "length" /\ line.value <= MaxLength
            /\ contentLength' = line.value /\ firstLine' = FALSE
            /\ UNCHANGED <<phase, received>>
  <2>1. line # Blank /\ line.value \in Nat
    BY <1>2, <1>19, LineFacts DEF ItemType
  <2>2. o < h
    BY <1>8, <1>10, <1>11, <2>1
  <2>3. ASSUME e - 1 >= 0
        PROVE  /\ line.value = b /\ b <= MaxLength /\ Length(b) \in ToSet(f.header)
    <3>1. WholeLine(k, f, o, e)
      BY <1>8, <1>11, <2>3
    <3>2. line = f.header[o + 1] /\ o + 1 \in 1..h
      BY <1>10, <2>2, <3>1
    <3>3. line = Length(b)
      BY <1>7, <1>19, <3>2, LineFacts
    <3>4. line.value = b
      BY <3>3, LineFacts
    <3>5. Length(b) \in ToSet(f.header)
      BY <1>7, <3>2, <3>3 DEF ToSet
    <3> QED
      BY <1>19, <3>4, <3>5
  <2>4. InHeader(k, f, o + 1, e - 1)'
    <3>1. k <= Len(frames) /\ f = frames[k]
      BY <1>8 DEF InHeader
    <3>2. o + 1 <= Len(f.header) /\ o + 1 # 0
      BY <1>7, <2>2
    <3>3. contentLength' # None
      BY <1>19, <2>1
    <3>4. e - 1 >= 0 => /\ contentLength' = f.length /\ f.length <= MaxLength
                        /\ Length(f.length) \in ToSet(f.header)
      BY <1>7, <1>19, <2>3
    <3> QED
      BY <1>1, <1>19, <3>1, <3>2, <3>3, <3>4 DEF InHeader
  <2>5. phase' \in {"header", "body"} /\ firstLine' \in BOOLEAN
        /\ contentLength' \in Nat \cup {None}
    BY <1>1, <1>19, <2>1
  <2> QED
    BY <1>16, <2>4, <2>5
<1>20. CASE /\ line = Unparsable \/ (line.kind = "length" /\ line.value > MaxLength)
            /\ Fail("InvalidContentLength")
  <2>1. ASSUME WholeLine(k, f, o, e) PROVE ~Sound(f)
    <3>1. line # Blank
      BY <1>20, LineFacts
    <3>2. line = f.header[o + 1] /\ o + 1 \in 1..h
      BY <1>10, <2>1, <3>1
    <3>3. CASE line = Unparsable
      BY <1>7, <3>2, <3>3 DEF Sound
    <3>4. CASE line.kind = "length" /\ line.value > MaxLength
      <4>1. line = Length(b)
        BY <1>7, <3>2, <3>4, LineFacts
      <4>2. b > MaxLength
        BY <3>4, <4>1, LineFacts
      <4>3. b \notin 1..MaxLength
        BY <4>2
      <4> QED
        BY <1>7, <4>3 DEF Sound
    <3> QED
      BY <1>20, <3>3, <3>4
  <2>2. phase' \in Errors \ {"Eof", "UnexpectedEof"} /\ UNCHANGED <<firstLine, contentLength>>
    BY <1>20 DEF Fail, Errors
  <2> QED
    BY <1>15, <2>1, <2>2
<1>20a. CASE line = NotUtf8 /\ Fail("InvalidData")
  <2>1. ASSUME WholeLine(k, f, o, e) PROVE ~Sound(f)
    <3>1. line # Blank
      BY <1>20a, LineFacts
    <3>2. line = f.header[o + 1] /\ o + 1 \in 1..h
      BY <1>10, <2>1, <3>1
    <3> QED
      BY <1>7, <1>20a, <3>2 DEF Sound
  <2>2. phase' \in Errors \ {"Eof", "UnexpectedEof"} /\ UNCHANGED <<firstLine, contentLength>>
    BY <1>20a DEF Fail, Errors
  <2> QED
    BY <1>15, <2>1, <2>2
<1>21. CASE line = Other /\ firstLine' = FALSE /\ UNCHANGED <<phase, contentLength, received>>
  <2>1. line # Blank
    BY <1>21, LineFacts
  <2>2. o < h
    BY <1>8, <1>10, <1>11, <2>1
  <2>3. ASSUME e - 1 >= 0, contentLength = None
        PROVE  \A i \in 1..(o + 1) : f.header[i] = Other
    <3>1. WholeLine(k, f, o, e) /\ e >= 0
      BY <1>8, <1>11, <2>3
    <3>2. f.header[o + 1] = Other
      BY <1>10, <1>21, <2>2, <3>1
    <3>3. \A i \in 1..o : f.header[i] = Other
      BY <1>8, <2>3, <3>1 DEF InHeader
    <3> QED
      BY <3>2, <3>3
  <2>4. ASSUME e - 1 >= 0, contentLength # None
        PROVE  /\ contentLength = f.length /\ f.length <= MaxLength
               /\ Length(f.length) \in ToSet(f.header)
    <3>1. e >= 0
      BY <2>4
    <3> QED
      BY <1>8, <2>4, <3>1 DEF InHeader
  <2>5. InHeader(k, f, o + 1, e - 1)'
    <3>1. k <= Len(frames) /\ f = frames[k]
      BY <1>8 DEF InHeader
    <3>2. o + 1 <= Len(f.header) /\ o + 1 # 0
      BY <1>7, <2>2
    <3> QED
      BY <1>1, <1>21, <2>3, <2>4, <3>1, <3>2 DEF InHeader
  <2>6. phase' \in {"header", "body"} /\ firstLine' \in BOOLEAN
        /\ contentLength' \in Nat \cup {None}
    BY <1>1, <1>21 DEF StreamInv, StreamType
  <2> QED
    BY <1>16, <2>5, <2>6
<1> QED
  BY <1>17, <1>18, <1>19, <1>20, <1>20a, <1>21 DEF ReadLine

LEMMA HeaderEofKeeps ==
  ASSUME StreamInv, HeaderEof
  PROVE  StreamInv'
<1>1. /\ phase = "header" /\ ~alive /\ pipe = <<>>
      /\ phase' = IF firstLine THEN "Eof" ELSE "UnexpectedEof"
      /\ UNCHANGED <<alive, frames, unwritten, pipe, firstLine, contentLength, received>>
  BY DEF HeaderEof, AtEof, Fail, streamVars
<1>2. PICK n \in Nat, l \in Nat, u \in Nat :
        n = Len(frames) /\ l = Len(pipe) /\ u = Len(unwritten)
  BY Sizes
<1>3. l = 0
  BY <1>1, <1>2
<1>4. StreamType' /\ ReceivedInv' /\ ReadingInv'
  BY <1>1 DEF StreamInv, StreamType, ReceivedInv, ReadingInv, Errors
<1>5. PICK start : Layout(start) /\ Unwritten(start) /\ Position(start)
  BY <1>1 DEF StreamInv, ReadingInv, Errors
<1>6. Places(start) /\ Ending(start)
  BY <1>5 DEF Layout
<1>7. PICK k \in Nat, o \in Nat, e \in Int :
        /\ At(start, k, o, e)
        /\ \/ AfterTheLast(k, o)
           \/ \E f : InHeader(k, f, o, e) \/ InBody(k, f, o)
  BY <1>5 DEF Position
<1>8. k = Current /\ k # 0 /\ start[k] + o = 0 /\ e = End(start)
  <2>1. k = Current /\ start[k] + o = 0 /\ e = End(start)
    BY <1>7 DEF At
  <2> QED
    BY <2>1, Sizes
<1>9. Current' = Current
  BY <1>1 DEF Current
<1>10. CASE AfterTheLast(k, o)
  <2>1. k = n + 1 /\ firstLine /\ unwritten = <<>>
    BY <1>2, <1>10 DEF AfterTheLast
  <2>2. Current' = Len(frames') + 1 /\ ~Cut' /\ phase' = "Eof" /\ ~alive'
    BY <1>1, <1>2, <1>8, <1>9, <2>1 DEF Cut
  <2>3. FailedInv'
    BY <2>2 DEF FailedInv
  <2> QED
    BY <1>4, <2>3 DEF StreamInv
<1>11. CASE ~AfterTheLast(k, o)
  <2>1. InHeader(k, frames[k], o, e)
    BY <1>1, <1>7, <1>11 DEF InHeader, InBody
  <2>2. k \in 1..n /\ k \in 1..Len(frames)
    BY <1>2, <1>8, <2>1 DEF InHeader
  <2>3. PICK h \in Nat, c \in Nat, s \in Int :
          /\ h = Len(frames[k].header) /\ c = Count(frames[k]) /\ s = start[k]
          /\ h < c
    <3>1. /\ frames[k].length \in Nat /\ Len(frames[k].header) \in Nat
          /\ Count(frames[k]) = Len(frames[k].header) + 1 + frames[k].length
      BY <2>2, FrameFacts DEF StreamInv
    <3>2. Count(frames[k]) \in Nat /\ Len(frames[k].header) < Count(frames[k])
      BY <3>1
    <3>3. start[k] \in Int
      BY <1>6, <2>2, PlaceFacts DEF StreamInv
    <3> QED
      BY <3>1, <3>2, <3>3
  <2>4. o <= h /\ s + o = 0
    BY <1>8, <2>1, <2>3 DEF InHeader
  <2>5. start[k + 1] = s + c
    BY <1>6, <2>2, <2>3, PlaceFacts DEF StreamInv
  <2>6. 0 = e \/ (Cut /\ 0 = e + 1)
    BY <1>2, <1>3, <1>6, <1>8 DEF Ending
  <2>7. e < s + c
    <3>1. e <= 0
      BY <2>6
    <3>2. 0 < s + c
      BY <2>3, <2>4
    <3> QED
      BY <3>1, <3>2
  <2>8. k = n
    BY <1>2, <1>5, <1>8, <2>2, <2>5, <2>7, InTheLast DEF StreamInv
  <2>9. e = (s + c) - u
    <3>1. End(start) = start[n + 1] - u
      BY <1>2 DEF End
    <3> QED
      BY <1>8, <2>5, <2>8, <3>1
  <2>10. u # 0
    BY <2>7, <2>9
  <2>11. unwritten # <<>> /\ Cut
    <3>1. unwritten # <<>>
      BY <1>2, <2>10
    <3> QED
      BY <1>1, <3>1 DEF Cut
  <2>12. u <= c /\ (u = c => l = e + 1)
    BY <1>1, <1>2, <1>5, <1>8, <2>3, <2>8, <2>11 DEF Unwritten
  <2>13. o # 0
    <3> SUFFICES ASSUME o = 0 PROVE FALSE
      OBVIOUS
    <3>1. s = 0
      BY <2>4
    <3>2. e = c - u
      BY <2>9, <3>1
    <3>3. CASE 0 = e
      <4>1. u = c
        BY <3>2, <3>3
      <4>2. 0 = 0 + 1
        BY <1>3, <2>12, <3>3, <4>1
      <4> QED
        BY <4>2
    <3>4. CASE 0 = e + 1
      BY <2>12, <3>2, <3>4
    <3> QED
      BY <2>6, <3>3, <3>4
  <2>14. ~firstLine
    BY <2>1, <2>13 DEF InHeader
  <2>15. phase' = "UnexpectedEof" /\ Cut' /\ Current' = Len(frames')
    BY <1>1, <1>2, <1>8, <1>9, <2>8, <2>11, <2>14 DEF Cut
  <2>16. FailedInv'
    BY <2>15 DEF FailedInv
  <2> QED
    BY <1>4, <2>16 DEF StreamInv
<1> QED
  BY <1>10, <1>11

\* Where the body of the current frame is: h lines of header, L bytes.
BodyAt(start, k, h, L, e) ==
  /\ k = Current /\ L = frames[k].length /\ contentLength = L
  /\ L <= MaxLength /\ Length(L) \in ToSet(frames[k].header)
  /\ h = Len(frames[k].header) /\ h # 0 /\ Count(frames[k]) = h + 1 + L
  /\ start[k] + (h + 1) = 0 /\ start[k + 1] = L
  /\ e = End(start) /\ e = start[Len(frames) + 1] - Len(unwritten)

LEMMA BodyFacts ==
  ASSUME StreamInv, phase = "body",
         NEW start, Layout(start), Unwritten(start), Position(start)
  PROVE  \E k \in 1..Len(frames), h \in Nat, L \in Nat, e \in Int : BodyAt(start, k, h, L, e)
<1>1. PICK k \in Nat, o \in Nat, e \in Int :
        /\ At(start, k, o, e)
        /\ \/ AfterTheLast(k, o)
           \/ \E f : InHeader(k, f, o, e) \/ InBody(k, f, o)
  BY DEF Position
<1>2. k = Current /\ k # 0 /\ start[k] + o = 0 /\ e = End(start)
  <2>1. k = Current /\ start[k] + o = 0 /\ e = End(start)
    BY <1>1 DEF At
  <2> QED
    BY <2>1, Sizes
<1>3. InBody(k, frames[k], o)
  BY <1>1 DEF AfterTheLast, InHeader, InBody
<1>4. Places(start)
  BY DEF Layout
<1>5. k \in 1..Len(frames)
  BY <1>2, <1>3, Sizes DEF InBody
<1>6. PICK h \in Nat, L \in Nat, s \in Int :
        /\ h = Len(frames[k].header) /\ L = frames[k].length /\ s = start[k]
        /\ h # 0 /\ Count(frames[k]) = h + 1 + L
  <2>1. /\ frames[k].length \in Nat /\ Len(frames[k].header) \in Nat
        /\ Len(frames[k].header) # 0
        /\ Count(frames[k]) = Len(frames[k].header) + 1 + frames[k].length
    BY <1>5, FrameFacts DEF StreamInv
  <2>2. start[k] \in Int
    BY <1>4, <1>5, PlaceFacts DEF StreamInv
  <2>3. PICK h \in Nat, L \in Nat : h = Len(frames[k].header) /\ L = frames[k].length
    BY <2>1
  <2>4. h # 0 /\ Count(frames[k]) = h + 1 + L
    BY <2>1, <2>3
  <2> QED
    BY <2>2, <2>3, <2>4
<1>7. /\ o = h + 1 /\ contentLength = L /\ L <= MaxLength
      /\ Length(L) \in ToSet(frames[k].header)
  BY <1>3, <1>6 DEF InBody
<1>8. start[k] + (h + 1) = 0
  BY <1>2, <1>7
<1>9. start[k + 1] = L
  <2>1. start[k + 1] = s + (h + 1 + L)
    BY <1>4, <1>5, <1>6, PlaceFacts DEF StreamInv
  <2>2. s + (h + 1) = 0
    BY <1>6, <1>8
  <2> QED
    BY <2>1, <2>2
<1>10. e = start[Len(frames) + 1] - Len(unwritten)
  BY <1>2 DEF End
<1>11. BodyAt(start, k, h, L, e)
  BY <1>2, <1>6, <1>7, <1>8, <1>9, <1>10 DEF BodyAt
<1> QED
  BY <1>5, <1>11

LEMMA BodyEofKeeps ==
  ASSUME StreamInv, BodyEof
  PROVE  StreamInv'
<1>1. /\ phase = "body" /\ ~alive /\ Len(pipe) < contentLength /\ pipe' = <<>>
      /\ phase' = "UnexpectedEof"
      /\ UNCHANGED <<alive, frames, unwritten, firstLine, contentLength, received>>
  BY DEF BodyEof, Fail
<1>2. StreamType' /\ ReceivedInv' /\ ReadingInv'
  <2>1. pipe' \in Seq(ItemType)
    BY <1>1
  <2> QED
    BY <1>1, <2>1 DEF StreamInv, StreamType, ReceivedInv, ReadingInv, Errors
<1>3. PICK start : Layout(start) /\ Unwritten(start) /\ Position(start)
  BY <1>1 DEF StreamInv, ReadingInv, Errors
<1>4. PICK k \in 1..Len(frames), h \in Nat, L \in Nat, e \in Int : BodyAt(start, k, h, L, e)
  BY <1>1, <1>3, BodyFacts
<1>5. PICK n \in Nat, l \in Nat, u \in Nat :
        n = Len(frames) /\ l = Len(pipe) /\ u = Len(unwritten)
  BY Sizes
<1>6. /\ l < L /\ start[k + 1] = L /\ e = End(start) /\ e = start[n + 1] - u /\ k = Current
  BY <1>1, <1>4, <1>5 DEF BodyAt
<1>7. e = l \/ e + 1 = l
  BY <1>3, <1>5, <1>6 DEF Layout, Ending
<1>8. e < L
  BY <1>6, <1>7
<1>9. k = n
  BY <1>3, <1>5, <1>6, <1>8, InTheLast DEF StreamInv
<1>10. u # 0
  <2>1. e = L - u
    BY <1>6, <1>9
  <2> QED
    BY <1>8, <2>1
<1>11. unwritten # <<>>
  BY <1>5, <1>10
<1>12. phase' = "UnexpectedEof" /\ Cut' /\ Current' = Len(frames')
  BY <1>1, <1>5, <1>6, <1>9, <1>11 DEF Cut, Current
<1>13. FailedInv'
  BY <1>12 DEF FailedInv
<1> QED
  BY <1>2, <1>13 DEF StreamInv

\* The bytes that are read as the body are the bytes of the current frame.
LEMMA BodyRead ==
  ASSUME StreamInv, NEW start, Layout(start), Unwritten(start),
         NEW k \in 1..Len(frames), NEW h \in Nat, NEW L \in Nat, NEW e \in Int,
         BodyAt(start, k, h, L, e), L <= Len(pipe)
  PROVE  /\ \A b \in 1..L : pipe[b] = Line("byte", k)
         /\ L # 0 => L <= e
         /\ k = Len(frames) => Len(unwritten) < Count(frames[k])
         /\ L # 0 /\ k = Len(frames) => Len(unwritten) = 0
<1>1. PICK n \in Nat, l \in Nat, u \in Nat :
        n = Len(frames) /\ l = Len(pipe) /\ u = Len(unwritten)
  BY Sizes
<1>2. /\ h = Len(frames[k].header) /\ h # 0 /\ Count(frames[k]) = h + 1 + L
      /\ L = frames[k].length /\ start[k] + (h + 1) = 0 /\ start[k + 1] = L
      /\ e = End(start) /\ e = start[n + 1] - u
  BY <1>1 DEF BodyAt
<1>3. Places(start) /\ Ending(start)
  BY DEF Layout
<1>4. PICK s \in Int : s = start[k]
  BY <1>3, PlaceFacts DEF StreamInv
<1>5. ASSUME NEW b \in 1..L
      PROVE  b <= e /\ pipe[b] = Line("byte", k)
  <2>1. PICK o \in 1..Count(frames[k]) : o = h + 1 + b
    BY <1>2
  <2>2. PICK p \in 1..Len(pipe) : p = b
    BY <1>1
  <2>3. p = start[k] + o
    <3>1. s + (h + 1) = 0
      BY <1>2, <1>4
    <3>2. b = s + (h + 1 + b)
      BY <3>1
    <3> QED
      BY <1>4, <2>1, <2>2, <3>2
  <2>4. Items(frames[k], k)[o] = Line("byte", k)
    <3>1. \A i \in 1..frames[k].length :
            Items(frames[k], k)[Len(frames[k].header) + 1 + i] = Line("byte", k)
      BY FrameFacts DEF StreamInv
    <3> QED
      BY <1>2, <2>1, <3>1
  <2>5. \/ p <= End(start) /\ pipe[p] = Items(frames[k], k)[o]
        \/ <<pipe[p]>> \in Cuts(Items(frames[k], k)[o])
    <3>1. StreamType
      BY DEF StreamInv
    <3> QED
      BY <2>3, <3>1, ItemRead
  <2>6. <<pipe[p]>> \notin Cuts(Line("byte", k))
    <3>1. Line("byte", k) \in ItemType /\ Line("byte", k).kind = "byte"
      BY <1>1 DEF Line, ItemType, ItemKinds
    <3>2. ASSUME <<pipe[p]>> \in Cuts(Line("byte", k)) PROVE FALSE
      <4>1. \/ Line("byte", k).kind = "length"
            \/ Line("byte", k).kind = "notUtf8"
            \/ Line("byte", k).kind \notin {"length", "notUtf8", "byte"}
        BY <3>1, <3>2, CutFacts
      <4> QED
        BY <3>1, <4>1
    <3> QED
      BY <3>2
  <2>7. p <= End(start) /\ pipe[p] = Line("byte", k)
    BY <2>4, <2>5, <2>6
  <2> QED
    BY <1>2, <2>2, <2>7
<1>6. L # 0 => L <= e
  <2>1. L # 0 => L \in 1..L
    OBVIOUS
  <2> QED
    BY <1>5, <2>1
<1>7. ASSUME k = n PROVE e = L - u
  BY <1>2, <1>7
<1>8. e = l \/ e + 1 = l
  BY <1>1, <1>2, <1>3 DEF Ending
<1>9. ASSUME k = n PROVE u < h + 1 + L /\ (L # 0 => u = 0)
  <2>1. CASE L # 0
    <3>1. L <= L - u
      BY <1>6, <1>7, <1>9, <2>1
    <3>2. u = 0
      BY <3>1
    <3> QED
      BY <3>2
  <2>2. CASE L = 0
    <3>1. e = 0 - u
      BY <1>7, <1>9, <2>2
    <3>2. u <= 1
      BY <1>8, <3>1
    <3> QED
      BY <1>2, <2>2, <3>2
  <2> QED
    BY <2>1, <2>2
<1> QED
  BY <1>1, <1>2, <1>5, <1>6, <1>9

\* A body decodes exactly when its frame is one that has to be returned.
LEMMA DecodesWhatIsSound ==
  ASSUME NEW k \in Nat, NEW L \in Nat, NEW bytes \in Seq(ItemType), Len(bytes) = L,
         \A b \in 1..L : bytes[b] = Line("byte", k),
         L = frames[k].length, L <= MaxLength, Length(L) \in ToSet(frames[k].header)
  PROVE  /\ Decodes(bytes) <=> Sound(frames[k])
         /\ Decodes(bytes) => L # 0 /\ Head(bytes).value = k
<1>1. DOMAIN bytes = 1..L /\ (bytes = <<>> <=> L = 0)
  BY EmptySeq, LenProperties
<1>2. ASSUME L # 0
      PROVE  Head(bytes) = Line("byte", k) /\ Head(bytes).value = k
  <2>1. bytes # <<>> /\ 1 \in 1..L
    BY <1>1, <1>2
  <2>2. Head(bytes) = bytes[1]
    BY <2>1
  <2> QED
    BY <2>1, <2>2, LineFacts
<1>3. CASE L = 0
  <2>1. ~Decodes(bytes)
    BY <1>1, <1>3 DEF Decodes
  <2>2. ~Sound(frames[k])
    BY <1>3 DEF Sound
  <2> QED
    BY <2>1, <2>2
<1>4. CASE L # 0
  <2>1. Decodes(bytes) <=> frames[k].json
    <3> DEFINE i == Head(bytes).value
    <3>1. i = k /\ bytes # <<>>
      BY <1>1, <1>2, <1>4
    <3>2. \A b \in DOMAIN bytes : bytes[b] = Line("byte", i)
      BY <1>1, <3>1
    <3>3. Len(bytes) = frames[i].length
      BY <3>1
    <3>4. Decodes(bytes) <=> frames[i].json
      BY <3>1, <3>2, <3>3 DEF Decodes
    <3> QED
      BY <3>1, <3>4
  <2>2. L \in 1..MaxLength
    BY <1>4
  <2>3. Sound(frames[k]) <=> frames[k].json
    BY <2>2 DEF Sound
  <2> QED
    BY <1>2, <1>4, <2>1, <2>3
<1> QED
  BY <1>3, <1>4

LEMMA ReadBodyKeeps ==
  ASSUME StreamInv, ReadBody
  PROVE  StreamInv'
<1> DEFINE bytes == SubSeq(pipe, 1, contentLength)
<1>1. /\ phase = "body" /\ contentLength <= Len(pipe)
      /\ pipe' = SubSeq(pipe, contentLength + 1, Len(pipe))
      /\ UNCHANGED <<alive, frames, unwritten>>
  <2>1. phase = "body" /\ contentLength \in Nat \cup {None} /\ Len(pipe) >= contentLength
    BY DEF ReadBody, StreamInv, StreamType
  <2> QED
    BY <2>1 DEF ReadBody
<1>2. \/ /\ Decodes(bytes) /\ received' = Append(received, Head(bytes).value)
         /\ phase' = "header" /\ firstLine' = TRUE /\ contentLength' = None
      \/ /\ ~Decodes(bytes) /\ phase' = "Json"
         /\ UNCHANGED <<firstLine, contentLength, received>>
  BY DEF ReadBody, Fail
<1>3. PICK start : Layout(start) /\ Unwritten(start) /\ Position(start)
  BY <1>1 DEF StreamInv, ReadingInv, Errors
<1>4. PICK k \in 1..Len(frames), h \in Nat, L \in Nat, e \in Int : BodyAt(start, k, h, L, e)
  BY <1>1, <1>3, BodyFacts
<1>5. PICK n \in Nat, l \in Nat, r \in Nat :
        n = Len(frames) /\ l = Len(pipe) /\ r = Len(received)
  BY Sizes
<1>6. /\ k = Current /\ k = r + 1 /\ k \in Nat /\ contentLength = L
      /\ L = frames[k].length /\ L <= MaxLength /\ Length(L) \in ToSet(frames[k].header)
      /\ start[k + 1] = L /\ e = End(start)
  <2>1. /\ k = Current /\ contentLength = L
        /\ L = frames[k].length /\ L <= MaxLength /\ Length(L) \in ToSet(frames[k].header)
        /\ start[k + 1] = L /\ e = End(start)
    BY <1>4 DEF BodyAt
  <2>2. k = r + 1
    BY <1>5, <2>1, Sizes
  <2> QED
    BY <2>1, <2>2
<1>7. L <= l
  BY <1>1, <1>5, <1>6
<1>8. /\ \A b \in 1..L : pipe[b] = Line("byte", k)
      /\ k = n => Len(unwritten) < Count(frames[k])
      /\ L # 0 /\ k = n => Len(unwritten) = 0
  BY <1>3, <1>4, <1>5, <1>7, BodyRead
<1>9. pipe \in Seq(ItemType) /\ StreamType
  BY DEF StreamInv, StreamType
<1>10. /\ bytes \in Seq(ItemType) /\ Len(bytes) = L
       /\ \A b \in 1..L : bytes[b] = Line("byte", k)
  <2>1. \A i \in 1..L : pipe[i] \in ItemType
    <3>1. \A i \in 1..L : i \in 1..l
      BY <1>7
    <3> QED
      BY <1>5, <1>9, <3>1, LenProperties
  <2>2. 1 \in Int /\ L \in Int
    OBVIOUS
  <2>3. /\ SubSeq(pipe, 1, L) \in Seq(ItemType)
        /\ Len(SubSeq(pipe, 1, L)) = IF 1 <= L THEN L - 1 + 1 ELSE 0
        /\ \A i \in 1..(L - 1 + 1) : SubSeq(pipe, 1, L)[i] = pipe[1 + i - 1]
    BY <2>1, <2>2, SubSeqProperties
  <2>4. PICK q : q = SubSeq(pipe, 1, L)
    OBVIOUS
  <2>5. Len(q) = L
    BY <2>3, <2>4
  <2>6. ASSUME NEW b \in 1..L PROVE q[b] = Line("byte", k)
    <3>1. b \in 1..(L - 1 + 1) /\ 1 + b - 1 = b
      OBVIOUS
    <3>2. q[b] = pipe[b]
      BY <2>3, <2>4, <3>1
    <3> QED
      BY <1>8, <3>2
  <2>7. bytes = q
    BY <1>6, <2>4
  <2> QED
    BY <2>3, <2>4, <2>5, <2>6, <2>7
<1>11. /\ Decodes(bytes) <=> Sound(frames[k])
       /\ Decodes(bytes) => L # 0 /\ Head(bytes).value = k
  <2>1. PICK q : q = bytes
    OBVIOUS
  <2>2. /\ q \in Seq(ItemType) /\ Len(q) = L
        /\ \A b \in 1..L : q[b] = Line("byte", k)
    BY <1>10, <2>1
  <2>3. /\ Decodes(q) <=> Sound(frames[k])
        /\ Decodes(q) => L # 0 /\ Head(q).value = k
    BY <1>6, <2>2, DecodesWhatIsSound
  <2> QED
    BY <2>1, <2>3
<1> HIDE DEF bytes
<1>12. pipe' \in Seq(ItemType)
  <2>1. \A i \in (L + 1)..l : pipe[i] \in ItemType
    <3>1. \A i \in (L + 1)..l : i \in 1..l
      OBVIOUS
    <3> QED
      BY <1>5, <1>9, <3>1, LenProperties
  <2>2. L + 1 \in Int /\ l \in Int
    OBVIOUS
  <2>3. SubSeq(pipe, L + 1, l) \in Seq(ItemType)
    BY <2>1, <2>2, SubSeqProperties
  <2> QED
    BY <1>1, <1>5, <1>6, <2>3
<1>13. CASE /\ ~Decodes(bytes) /\ phase' = "Json"
            /\ UNCHANGED <<firstLine, contentLength, received>>
  <2>1. StreamType' /\ ReceivedInv'
    BY <1>1, <1>12, <1>13 DEF StreamInv, StreamType, ReceivedInv, Errors
  <2>2. ~Sound(frames[k]) /\ (k = Len(frames) => Len(unwritten) < Count(frames[k]))
    BY <1>5, <1>8, <1>11, <1>13
  <2>3. FailedInv'
    <3>1. UNCHANGED <<alive, frames, unwritten, received>> /\ phase' \notin {"Eof", "UnexpectedEof"}
      BY <1>1, <1>13
    <3> QED
      BY <1>6, <2>2, <3>1, FailsAtTheFrame
  <2>4. ReadingInv'
    BY <1>13 DEF ReadingInv, Errors
  <2> QED
    BY <2>1, <2>3, <2>4 DEF StreamInv
<1>14. CASE /\ Decodes(bytes) /\ received' = Append(received, Head(bytes).value)
            /\ phase' = "header" /\ firstLine' = TRUE /\ contentLength' = None
  <2>1. Sound(frames[k]) /\ L # 0 /\ received' = Append(received, k)
    BY <1>11, <1>14
  <2>2. received \in Seq(Nat) /\ received = [i \in 1..r |-> i]
    BY <1>5 DEF StreamInv, StreamType, ReceivedInv
  <2>3. /\ received' \in Seq(Nat) /\ Len(received') = k
        /\ \A i \in 1..k : received'[i] = i
    <3>1. /\ received' \in Seq(Nat) /\ Len(received') = r + 1
          /\ \A i \in 1..r : received'[i] = received[i]
          /\ received'[r + 1] = k
      BY <1>5, <1>6, <2>1, <2>2, AppendProperties
    <3>2. ASSUME NEW i \in 1..k PROVE received'[i] = i
      <4>1. CASE i = r + 1
        BY <1>6, <3>1, <4>1
      <4>2. CASE i # r + 1
        <5>1. i \in 1..r
          BY <1>6, <4>2
        <5>2. received[i] = i
          BY <2>2, <5>1
        <5> QED
          BY <3>1, <5>1, <5>2
      <4> QED
        BY <4>1, <4>2
    <3> QED
      BY <1>6, <3>1, <3>2
  <2>4. received' = [i \in 1..Len(received') |-> i]
    <3>1. DOMAIN received' = 1..k
      BY <2>3, LenProperties
    <3>2. received' = [i \in DOMAIN received' |-> received'[i]]
      BY <2>3
    <3> QED
      BY <2>3, <3>1, <3>2
  <2>5. ReceivedInv'
    <3>1. k <= Len(frames)
      BY <1>5
    <3>2. ASSUME NEW i \in 1..k PROVE Sound(frames[i])
      <4>1. CASE i = k
        BY <2>1, <4>1
      <4>2. CASE i # k
        <5>1. i \in 1..r
          BY <1>6, <4>2
        <5> QED
          BY <1>5, <5>1 DEF StreamInv, ReceivedInv
      <4> QED
        BY <4>1, <4>2
    <3> QED
      BY <1>1, <2>3, <2>4, <3>1, <3>2 DEF ReceivedInv
  <2>6. StreamType'
    BY <1>1, <1>12, <1>14, <2>3 DEF StreamInv, StreamType
  <2>7. FailedInv'
    BY <1>14 DEF FailedInv, Errors
  <2>8. PICK next : next = [f \in 1..(n + 1) |-> start[f] - L]
    OBVIOUS
  <2>9. Layout(next)' /\ Unwritten(next)' /\ End(next)' = e - L
    <3>1. L <= Len(pipe) /\ pipe' = SubSeq(pipe, L + 1, Len(pipe))
      BY <1>1, <1>5, <1>6, <1>7
    <3>2. next = [f \in 1..(Len(frames) + 1) |-> start[f] - L]
      BY <1>5, <2>8
    <3>3. UNCHANGED <<alive, frames, unwritten>>
      BY <1>1
    <3>4. Layout(next)' /\ Unwritten(next)' /\ End(next)' = End(start) - L
      BY <1>3, <1>9, <3>1, <3>2, <3>3, Consumed
    <3> QED
      BY <1>6, <3>4
  <2>10. At(next, k + 1, 0, e - L)'
    <3>1. Current' = k + 1
      BY <2>3 DEF Current
    <3>2. k + 1 \in 1..(n + 1) /\ k + 1 <= Len(frames') + 1
      BY <1>1, <1>5
    <3>3. next[k + 1] = L - L
      BY <1>6, <2>8, <3>2
    <3>4. next[k + 1] + 0 = 0
      BY <3>3
    <3> QED
      BY <2>9, <3>1, <3>2, <3>4 DEF At
  <2>11. CASE k = n
    <3>1. unwritten = <<>>
      <4>1. Len(unwritten) = 0
        BY <1>8, <2>1, <2>11
      <4> QED
        BY <4>1, EmptySeq DEF StreamInv, StreamType
    <3>2. k + 1 = Len(frames') + 1
      BY <1>1, <1>5, <2>11
    <3>3. AfterTheLast(k + 1, 0)'
      BY <1>1, <1>14, <3>1, <3>2 DEF AfterTheLast
    <3>4. k + 1 \in Nat /\ 0 \in Nat /\ e - L \in Int
      BY <1>6
    <3>5. Position(next)'
      BY <2>10, <3>3, <3>4 DEF Position
    <3>6. ReadingInv'
      BY <2>9, <3>5 DEF ReadingInv
    <3> QED
      BY <2>5, <2>6, <2>7, <3>6 DEF StreamInv
  <2>12. CASE k # n
    <3>1. k + 1 \in 1..n
      BY <1>5, <2>12
    <3>2. PICK f : f = frames[k + 1]
      OBVIOUS
    <3>3. Len(f.header) \in Nat
      BY <1>5, <3>1, <3>2, FrameFacts DEF StreamInv
    <3>4. InHeader(k + 1, f, 0, e - L)'
      <4>1. k + 1 <= Len(frames') /\ f = frames'[k + 1]
        BY <1>1, <1>5, <3>1, <3>2
      <4>2. 0 <= Len(f.header) /\ \A i \in 1..0 : f.header[i] = Other
        BY <3>3
      <4> QED
        BY <1>14, <4>1, <4>2 DEF InHeader
    <3>5. k + 1 \in Nat /\ 0 \in Nat /\ e - L \in Int
      BY <1>6
    <3>6. Position(next)'
      BY <2>10, <3>4, <3>5 DEF Position
    <3>7. ReadingInv'
      BY <2>9, <3>6 DEF ReadingInv
    <3> QED
      BY <2>5, <2>6, <2>7, <3>7 DEF StreamInv
  <2> QED
    BY <2>11, <2>12
<1> QED
  BY <1>2, <1>13, <1>14

LEMMA StreamNext ==
  ASSUME StreamInv, [Next]_vars
  PROVE  StreamInv'
<1>1. CASE BeginFrame
  BY <1>1, BeginFrameKeeps
<1>2. CASE WriteItem
  BY <1>2, WriteItemKeeps
<1>3. CASE Die
  BY <1>3, DieKeeps
<1>4. CASE WriteStderr
  BY <1>4, ElsewhereKeeps DEF WriteStderr
<1>5. CASE ReadLine
  BY <1>5, ReadLineKeeps
<1>6. CASE HeaderEof
  BY <1>6, HeaderEofKeeps
<1>7. CASE ReadBody
  BY <1>7, ReadBodyKeeps
<1>8. CASE BodyEof
  BY <1>8, BodyEofKeeps
<1>9. CASE DrainStderr
  BY <1>9, ElsewhereKeeps DEF DrainStderr
<1>10. CASE UNCHANGED vars
  BY <1>10, ElsewhereKeeps DEF vars
<1> QED
  BY <1>1, <1>2, <1>3, <1>4, <1>5, <1>6, <1>7, <1>8, <1>9, <1>10 DEF Next

LEMMA StreamInvInductive == Spec => []StreamInv
<1>1. Init => StreamInv
  BY StartsReadable
<1>2. StreamInv /\ [Next]_vars => StreamInv'
  BY StreamNext
<1> QED
  BY <1>1, <1>2, PTL DEF Spec

\* Wherever the adapter pauses, ends or is killed, and whatever it puts in its
\* headers, read_message returns the written frames in order and entire, up to
\* the first one that deserves no better, and its error says how it ended
\* (read_header, read_exact_body and the callers of from_slice).
THEOREM WhatIsReadWasWritten == Spec => []ReadsWhatWasWritten
BY StreamInvInductive, StreamInvImplies, PTL

\* Each variable of the stream, the reader and the ring keeps to its type
\* (read_message's locals, StderrBuffer): a declared length is a number, and
\* nothing is drained that was not written.
THEOREM TypeCorrect == Spec => []TypeOK
<1> DEFINE Bounded == written \in Nat /\ written <= MaxStderr
<1>1. Init => Bounded
  BY DEF Init
<1>2. Bounded /\ [Next]_vars => Bounded'
  <2> SUFFICES ASSUME Bounded, [Next]_vars PROVE Bounded'
    OBVIOUS
  <2>1. CASE WriteStderr
    BY <2>1 DEF WriteStderr
  <2>2. CASE written' = written
    BY <2>2
  <2>3. WriteStderr \/ written' = written
    BY DEF Next, BeginFrame, WriteItem, Die, ReadLine, HeaderEof, ReadBody, BodyEof,
           DrainStderr, vars, stderrVars
  <2> QED
    BY <2>1, <2>2, <2>3
<1>3. StreamInv /\ Inv /\ Bounded => TypeOK
  BY DEF StreamInv, StreamType, Inv, Counters, Run, TypeOK
<1> QED
  BY <1>1, <1>2, <1>3, StreamInvInductive, InvInductive, PTL DEF Spec
=============================================================================
