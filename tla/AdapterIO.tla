----------------------------- MODULE AdapterIO -----------------------------
(***************************************************************************)
(* The two pipes of the lldb-dap process: its stdout, a stream of framed   *)
(* messages read by read_message (dap-client/src/wire.rs), and its stderr, *)
(* drained into the ring of lldb-backend/src/subprocess.rs.  The process   *)
(* may end at any byte.                                                    *)
(*                                                                         *)
(* The stream is a sequence of items: a header line, or one byte of a      *)
(* body.  A frame is written item by item, and the last line of a process  *)
(* that ends may be cut.  DapClient takes the messages of this reader as   *)
(* atomic.                                                                 *)
(***************************************************************************)
EXTENDS Naturals, Sequences, SequencesExt, FiniteSetsExt

CONSTANTS
  MaxFrames,   \* bound: how many frames the adapter writes
  BodyLengths, \* the lengths of their bodies
  MaxLength,   \* MAX_CONTENT_LENGTH
  Size,        \* StderrBuffer.size
  MaxStderr,   \* bound: how many bytes it writes to stderr
  None

ASSUME AdapterIOAssumption ==
  /\ MaxFrames \in Nat
  /\ BodyLengths \subseteq Nat
  /\ MaxLength \in Nat
  /\ Size \in Nat \ {0}
  /\ MaxStderr \in Nat
  /\ None \notin Nat

VARIABLES
  alive,         \* the process runs
  frames,        \* history: the frames it began, in order
  unwritten,     \* the items of the last one that are not written yet
  pipe,          \* stdout: the items written and not yet read
  phase,         \* read_header, read_exact_body, or how read_message failed
  firstLine,     \* read_header: first_line
  contentLength, \* read_header: content_length, None before it is known
  received,      \* history: the frames that read_message returned
  written,       \* how many bytes went to stderr, numbered from 1
  drained,       \* how many of them the drain task has read
  ring           \* StderrBuffer.inner

streamVars == <<frames, unwritten, pipe>>
readerVars == <<phase, firstLine, contentLength, received>>
stderrVars == <<written, drained, ring>>
vars == <<alive, streamVars, readerVars, stderrVars>>

\* WireError; Io by the kinds of io::Error that the reader returns: the stream
\* ended inside a frame, or a line is not UTF-8.
Errors == {"Eof", "UnexpectedEof", "InvalidData", "MissingContentLength",
           "InvalidContentLength", "Json"}

Line(kind, n) == [kind |-> kind, value |-> n]
Length(n)  == Line("length", n)
Unparsable == Line("unparsable", 0)  \* a Content-Length that is no number
NotUtf8    == Line("notUtf8", 0)     \* a line that read_line refuses
Other      == Line("other", 0)       \* any other field, or part of a line
Blank      == Line("blank", 0)

\* The header fields before the blank line, for a body of n bytes: what
\* adapters write, and a header that read_header has to refuse.
Headers(n) == {<<Length(n)>>, <<Other, Length(n)>>, <<Length(n), Other>>,
               <<Unparsable>>, <<NotUtf8>>, <<Other>>}

\* A frame and the items write_message makes of it: header, CRLF, body.
Frames == [header : UNION {Headers(n) : n \in BodyLengths},
           length : BodyLengths, json : BOOLEAN]
Items(f, i) ==
  f.header \o <<Blank>> \o [b \in 1..f.length |-> Line("byte", i)]

Init ==
  /\ alive = TRUE
  /\ frames = <<>>
  /\ unwritten = <<>>
  /\ pipe = <<>>
  /\ phase = "header"
  /\ firstLine = TRUE
  /\ contentLength = None
  /\ received = <<>>
  /\ written = 0
  /\ drained = 0
  /\ ring = <<>>

----------------------------------------------------------------------------
(* The adapter *)

BeginFrame ==
  /\ alive
  /\ unwritten = <<>>
  /\ Len(frames) < MaxFrames
  /\ \E f \in Frames :
       /\ f.header \in Headers(f.length)
       /\ frames' = Append(frames, f)
       /\ unwritten' = Items(f, Len(frames) + 1)
  /\ UNCHANGED <<alive, pipe, readerVars, stderrVars>>

WriteItem ==
  /\ alive
  /\ unwritten # <<>>
  /\ pipe' = Append(pipe, Head(unwritten))
  /\ unwritten' = Tail(unwritten)
  /\ UNCHANGED <<alive, frames, readerVars, stderrVars>>

\* What is left of a line that was cut: nothing, part of the field's name,
\* the name alone, or fewer digits; the CR of a blank line.
Cuts(item) ==
  {<<>>} \cup CASE item.kind = "length" ->
                     {<<Other>>, <<Unparsable>>}
                       \cup {<<Length(n)>> : n \in 0..item.value}
                [] item.kind = "byte" -> {<<>>}
                [] item.kind = "notUtf8" -> {<<Other>>, <<item>>}
                [] OTHER -> {<<item>>}

\* Nothing of the last frame is written yet.
Unbegun == unwritten # <<>> /\ unwritten = Items(Last(frames), Len(frames))

\* The process exits, crashes or is killed.
Die ==
  /\ alive
  /\ alive' = FALSE
  /\ \E cut \in IF unwritten = <<>> THEN {<<>>} ELSE Cuts(Head(unwritten)) :
       /\ pipe' = pipe \o cut
       /\ IF Unbegun /\ cut = <<>>
            THEN frames' = Front(frames) /\ unwritten' = <<>>
            ELSE UNCHANGED <<frames, unwritten>>
  /\ UNCHANGED <<readerVars, stderrVars>>

WriteStderr ==
  /\ alive
  /\ \E n \in 1..(MaxStderr - written) : written' = written + n
  /\ UNCHANGED <<alive, streamVars, readerVars, drained, ring>>

----------------------------------------------------------------------------
(* read_message *)

Fail(error) ==
  /\ phase' = error
  /\ UNCHANGED <<firstLine, contentLength, received>>

\* read_header: one line.  The last Content-Length counts; other fields are
\* passed over.
ReadLine ==
  /\ phase = "header"
  /\ pipe # <<>>
  /\ pipe' = Tail(pipe)
  /\ LET line == Head(pipe) IN
       \/ /\ line = Blank
          /\ contentLength = None
          /\ Fail("MissingContentLength")
       \/ /\ line = Blank
          /\ contentLength # None
          /\ phase' = "body"
          /\ UNCHANGED <<firstLine, contentLength, received>>
       \/ /\ line.kind = "length"
          /\ line.value <= MaxLength
          /\ contentLength' = line.value
          /\ firstLine' = FALSE
          /\ UNCHANGED <<phase, received>>
       \/ /\ \/ line = Unparsable
             \/ line.kind = "length" /\ line.value > MaxLength
          /\ Fail("InvalidContentLength")
       \/ /\ line = NotUtf8
          /\ Fail("InvalidData")
       \/ /\ line = Other
          /\ firstLine' = FALSE
          /\ UNCHANGED <<phase, contentLength, received>>
  /\ UNCHANGED <<alive, frames, unwritten, stderrVars>>

AtEof == ~alive /\ pipe = <<>>

\* Mutant of HeaderEof: every end of the stream is a clean one.
HeaderEofIsClean ==
  /\ phase = "header"
  /\ AtEof
  /\ Fail("Eof")
  /\ UNCHANGED <<alive, streamVars, stderrVars>>

\* read_line returned 0: clean before the first line, else truncated.
HeaderEof ==
  /\ phase = "header"
  /\ AtEof
  /\ Fail(IF firstLine THEN "Eof" ELSE "UnexpectedEof")
  /\ UNCHANGED <<alive, streamVars, stderrVars>>

\* DapMessage::from_slice: the frame whose bytes these are, if it is JSON of
\* a known envelope; an empty body is not.
Decodes(bytes) ==
  /\ bytes # <<>>
  /\ LET i == Head(bytes).value IN
       /\ \A b \in DOMAIN bytes : bytes[b] = Line("byte", i)
       /\ Len(bytes) = frames[i].length
       /\ frames[i].json

\* read_exact_body and from_slice; then the next read_message.
ReadBody ==
  /\ phase = "body"
  /\ Len(pipe) >= contentLength
  /\ LET bytes == SubSeq(pipe, 1, contentLength) IN
       IF Decodes(bytes)
         THEN /\ received' = Append(received, Head(bytes).value)
              /\ phase' = "header"
              /\ firstLine' = TRUE
              /\ contentLength' = None
         ELSE Fail("Json")
  /\ pipe' = SubSeq(pipe, contentLength + 1, Len(pipe))
  /\ UNCHANGED <<alive, frames, unwritten, stderrVars>>

BodyEof ==
  /\ phase = "body"
  /\ ~alive
  /\ Len(pipe) < contentLength
  /\ pipe' = <<>>
  /\ Fail("UnexpectedEof")
  /\ UNCHANGED <<alive, frames, unwritten, stderrVars>>

----------------------------------------------------------------------------
(* The stderr ring *)

\* Mutant of WriteRing: the excess is cut off the end.
WriteRingTruncated(buf, data) ==
  IF Len(data) >= Size
    THEN SubSeq(data, Len(data) - Size + 1, Len(data))
    ELSE SubSeq(buf \o data, 1, IF Len(buf \o data) > Size THEN Size
                                                  ELSE Len(buf \o data))

\* StderrBuffer::write.
WriteRing(buf, data) ==
  IF Len(data) >= Size
    THEN SubSeq(data, Len(data) - Size + 1, Len(data))
    ELSE LET all == buf \o data IN
         IF Len(all) > Size THEN SubSeq(all, Len(all) - Size + 1, Len(all))
                            ELSE all

\* One read of the drain task, of any part of what is there.  It outlives
\* the process.
DrainStderr ==
  \E n \in 1..(written - drained) :
    /\ drained' = drained + n
    /\ ring' = WriteRing(ring, [i \in 1..n |-> drained + i])
    /\ UNCHANGED <<alive, streamVars, readerVars, written>>

Next ==
  \/ BeginFrame \/ WriteItem \/ Die \/ WriteStderr
  \/ ReadLine \/ HeaderEof \/ ReadBody \/ BodyEof
  \/ DrainStderr

Spec == Init /\ [][Next]_vars

----------------------------------------------------------------------------
(* Properties *)

\* Every variable stays within its type.
TypeOK ==
  /\ alive \in BOOLEAN
  /\ frames \in Seq(Frames)
  /\ phase \in {"header", "body"} \cup Errors
  /\ firstLine \in BOOLEAN
  /\ contentLength \in Nat \cup {None}
  /\ received \in Seq(Nat)
  /\ written \in 0..MaxStderr
  /\ drained \in 0..written
  /\ ring \in Seq(Nat)

\* A frame that read_message must return: one acceptable Content-Length and
\* a body that is JSON.
Sound(f) == Length(f.length) \in ToSet(f.header)
              /\ f.length \in 1..MaxLength /\ f.json

Cut == ~alive /\ unwritten # <<>>

\* The frames a correct reader has to return before its first failure.
Readable ==
  {i \in DOMAIN frames : /\ \A j \in 1..i : Sound(frames[j])
                         /\ i = Len(frames) => unwritten = <<>>}

\* read_message returns the written frames one by one, none cut, forged or
\* left out, and says how the stream ended: Eof exactly when it ended between
\* two frames, UnexpectedEof only when a frame is cut, another error only at a
\* frame that deserves it or whose header was cut.
ReadsWhatWasWritten ==
  /\ received = [i \in 1..Len(received) |-> i]
  /\ ToSet(received) \subseteq Readable
  /\ phase \in Errors => ToSet(received) = Readable
  /\ phase = "Eof" => ~alive /\ Len(received) = Len(frames)
  /\ phase = "UnexpectedEof" => Cut
  /\ phase \in Errors \ {"Eof", "UnexpectedEof"} =>
       \/ ~Sound(frames[Len(received) + 1])
       \/ Cut /\ Len(frames) = Len(received) + 1

\* Whatever the sizes of the writes and of the reads, the ring holds the last
\* Size bytes that the drain task has read (StderrBuffer::write).
RingKeepsTheTail ==
  LET kept == IF drained < Size THEN drained ELSE Size IN
    ring = [i \in 1..kept |-> drained - kept + i]
=============================================================================
