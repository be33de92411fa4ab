--------------------------- MODULE HandshakeProofs ---------------------------
(***************************************************************************)
(* Proofs about Handshake, for every number of files with breakpoints and  *)
(* whatever the adapter and the client may do.                             *)
(*                                                                         *)
(* The scripts are built by concatenation; what the proofs need of them is *)
(* collected in Shaped and EarlyRegister and proved first.  The invariant  *)
(* then relates a position in the script to the pending map, to what the   *)
(* adapter has parsed, refused and announced, and to what the adapter has  *)
(* said of the debuggee and is on its way.                                 *)
(***************************************************************************)
EXTENDS Handshake, SequenceTheorems, TLAPS

----------------------------------------------------------------------------
(* The scripts *)

Steps == [op : {"send", "start", "initialized", "register", "response", "stop"},
          cmd : {"none", "initialize", "launch", "attach", "setBreakpoints",
                 "setFunctionBreakpoints", "setExceptionBreakpoints",
                 "configurationDone"},
          checked : BOOLEAN]

\* One launch or attach request, in its place; one configurationDone; and no
\* entry stop is waited for before the deferred response has been collected.
Shaped(s) ==
  /\ s \in Seq(Steps) /\ Len(s) >= 3
  /\ \A i \in 1..Len(s) : s[i].op = "start" => i = Target
  /\ \A i, j \in 1..Len(s) :
       s[i].cmd = "configurationDone" /\ s[j].cmd = "configurationDone" => i = j
  /\ \E r \in 1..Len(s) : s[r].op = "response"
  /\ \A i \in 1..Len(s) :
       s[i].op = "stop" => \E r \in 1..Len(s) : r < i /\ s[r].op = "response"

\* A script that waits for a stop registers its waiter before configurationDone.
EarlyRegister(s) ==
  \A i, j \in 1..Len(s) :
    s[i].cmd = "configurationDone" /\ s[j].op = "stop" =>
      \E g \in 1..Len(s) : g < i /\ s[g].op = "register"

\* What precedes configurationDone and the waiter in a launch.
Opening(s) ==
  /\ s \in Seq(Steps) /\ Len(s) >= 3
  /\ \A i \in 1..Len(s) : /\ s[i].op \in {"send", "start", "initialized"}
                          /\ s[i].op = "start" => i = Target
                          /\ s[i].cmd # "configurationDone"

\* c is made of the steps of s and then those of u.
Joined(c, s, u) ==
  /\ c \in Seq(Steps) /\ Len(c) = Len(s) + Len(u)
  /\ \A i \in 1..Len(s) : c[i] = s[i]
  /\ \A i \in 1..Len(u) : c[Len(s) + i] = u[i]
  /\ \A i \in 1..(Len(s) + Len(u)) :
       i \in 1..Len(s) \/ \E j \in 1..Len(u) : i = Len(s) + j

\* The elements of a concatenation, by position.
LEMMA ConcatAt ==
  ASSUME NEW s \in Seq(Steps), NEW u \in Seq(Steps)
  PROVE  Joined(s \o u, s, u)
<1>0. /\ s \o u \in Seq(Steps) /\ Len(s \o u) = Len(s) + Len(u)
      /\ \A i \in 1..(Len(s) + Len(u)) :
           (s \o u)[i] = IF i <= Len(s) THEN s[i] ELSE u[i - Len(s)]
  BY ConcatProperties
<1> DEFINE c == s \o u
<1>. HIDE DEF c
<1>1. \A i \in 1..Len(s) : c[i] = s[i]
  BY <1>0 DEF c
<1>2. ASSUME NEW i \in 1..Len(u) PROVE c[Len(s) + i] = u[i]
  <2>1. PICK j \in 1..(Len(s) + Len(u)) : j = Len(s) + i
    OBVIOUS
  <2>2. c[j] = u[j - Len(s)]
    BY <1>0, <2>1 DEF c
  <2>3. j - Len(s) = i
    BY <2>1
  <2>4. c[j] = u[i]
    BY <2>2, <2>3, Zenon
  <2>. QED
    BY <2>1, <2>4
<1>3. ASSUME NEW i \in 1..(Len(s) + Len(u)), i \notin 1..Len(s)
      PROVE  \E j \in 1..Len(u) : i = Len(s) + j
  <2>1. i - Len(s) \in 1..Len(u) /\ i = Len(s) + (i - Len(s))
    BY <1>3
  <2>. QED
    BY <2>1
<1>. QED
  BY <1>0, <1>1, <1>2, <1>3 DEF c, Joined

LEMMA OpeningExtends ==
  ASSUME NEW s, Opening(s), NEW u \in Seq(Steps),
         \A i \in 1..Len(u) : u[i].op = "send" /\ u[i].cmd # "configurationDone"
  PROVE  Opening(s \o u)
<1> DEFINE c == s \o u
<1>1. s \in Seq(Steps) /\ Len(s) \in Nat /\ Len(s) >= 3
  BY DEF Opening
<1>2. /\ c \in Seq(Steps) /\ Len(c) = Len(s) + Len(u)
      /\ \A i \in 1..Len(s) : c[i] = s[i]
      /\ \A i \in 1..Len(u) : c[Len(s) + i] = u[i]
      /\ \A i \in 1..(Len(s) + Len(u)) :
           i \in 1..Len(s) \/ \E j \in 1..Len(u) : i = Len(s) + j
  BY <1>1, ConcatAt DEF Joined
<1>. HIDE DEF c
<1>3. ASSUME NEW i \in 1..Len(c)
      PROVE  /\ c[i].op \in {"send", "start", "initialized"}
             /\ c[i].op = "start" => i = Target
             /\ c[i].cmd # "configurationDone"
  <2>1. CASE i \in 1..Len(s)
    BY <1>2, <2>1 DEF Opening
  <2>2. CASE i \notin 1..Len(s)
    <3>1. PICK j \in 1..Len(u) : i = Len(s) + j
      BY <1>2, <2>2
    <3>2. c[i] = u[j]
      BY <1>2, <3>1
    <3>. QED
      BY <3>2
  <2>. QED
    BY <2>1, <2>2
<1>4. Len(c) >= 3
  BY <1>1, <1>2
<1>5. Opening(c)
  BY <1>2, <1>3, <1>4 DEF Opening
<1>. QED
  BY <1>5 DEF c

LEMMA LaunchOpening ==
  ASSUME NEW files \in Nat, NEW functions \in BOOLEAN
  PROVE  Opening(<<Send("initialize"), Start("launch"), Await("initialized")>>
                 \o [i \in 1..files |-> Send("setBreakpoints")]
                 \o When(functions, <<Send("setFunctionBreakpoints")>>)
                 \o <<SendOnly("setExceptionBreakpoints")>>)
<1> DEFINE a == <<Send("initialize"), Start("launch"), Await("initialized")>>
           f == [i \in 1..files |-> Send("setBreakpoints")]
           g == When(functions, <<Send("setFunctionBreakpoints")>>)
           h == <<SendOnly("setExceptionBreakpoints")>>
<1>1. Opening(a)
  BY DEF Opening, Steps, Send, Start, Await, Target
<1>2. f \in Seq(Steps) /\ \A i \in 1..Len(f) : f[i].op = "send" /\ f[i].cmd # "configurationDone"
  BY DEF Steps, Send
<1>3. g \in Seq(Steps) /\ \A i \in 1..Len(g) : g[i].op = "send" /\ g[i].cmd # "configurationDone"
  <2>1. CASE functions
    BY <2>1 DEF Steps, Send, When
  <2>2. CASE ~functions
    BY <2>2 DEF When
  <2>. QED
    BY <2>1, <2>2
<1>4. h \in Seq(Steps) /\ \A i \in 1..Len(h) : h[i].op = "send" /\ h[i].cmd # "configurationDone"
  BY DEF Steps, SendOnly
<1>. HIDE DEF a, f, g, h
<1>5. Opening(a \o f)
  BY <1>1, <1>2, OpeningExtends
<1>6. Opening((a \o f) \o g)
  BY <1>3, <1>5, OpeningExtends
<1>7. Opening(((a \o f) \o g) \o h)
  BY <1>4, <1>6, OpeningExtends
<1>. QED
  BY <1>7 DEF a, f, g, h

\* The end of a launch that waits for its entry stop ...
LEMMA StoppingEnd ==
  ASSUME NEW s, Opening(s)
  PROVE  LET c == s \o <<Await("register")>>
                    \o <<SendOnly("configurationDone"), Await("response")>>
                    \o <<Await("stop")>> IN
         Shaped(c) /\ EarlyRegister(c)
<1> DEFINE n == Len(s)
           u == <<Await("register")>>
           v == <<SendOnly("configurationDone"), Await("response")>>
           w == <<Await("stop")>>
           c == ((s \o u) \o v) \o w
<1>1. s \in Seq(Steps) /\ n \in Nat /\ n >= 3
  BY DEF Opening
<1>2. u \in Seq(Steps) /\ v \in Seq(Steps) /\ w \in Seq(Steps)
  BY DEF Steps, SendOnly, Await
<1>3. Len(u) = 1 /\ Len(v) = 2 /\ Len(w) = 1
  OBVIOUS
<1>4. /\ s \o u \in Seq(Steps) /\ Len(s \o u) = n + 1
      /\ \A i \in 1..n : (s \o u)[i] = s[i]
      /\ (s \o u)[n + 1] = Await("register")
  <2>. HIDE DEF n
  <2>0. Joined(s \o u, s, u)
    BY <1>1, <1>2, ConcatAt
  <2>1. \A i \in 1..Len(u) : (s \o u)[Len(s) + i] = u[i]
    BY <2>0 DEF Joined
  <2>2. (s \o u)[Len(s) + 1] = Await("register")
    BY <1>3, <2>1
  <2>. QED
    BY <1>3, <2>0, <2>2 DEF n, Joined
<1> DEFINE d == s \o u
<1>. HIDE DEF d, u, v, w
<1>5. /\ d \o v \in Seq(Steps) /\ Len(d \o v) = n + 3
      /\ \A i \in 1..(n + 1) : (d \o v)[i] = d[i]
      /\ (d \o v)[n + 2] = v[1] /\ (d \o v)[n + 3] = v[2]
  <2>1. /\ d \in Seq(Steps) /\ Len(d) = n + 1
    BY <1>4 DEF d
  <2>2. /\ d \o v \in Seq(Steps) /\ Len(d \o v) = Len(d) + Len(v)
        /\ \A i \in 1..Len(d) : (d \o v)[i] = d[i]
        /\ \A i \in 1..Len(v) : (d \o v)[Len(d) + i] = v[i]
    <3>1. Joined(d \o v, d, v)
      BY <1>2, <2>1, ConcatAt
    <3>. QED
      BY <3>1 DEF Joined
  <2>3. (d \o v)[Len(d) + 1] = v[1] /\ (d \o v)[Len(d) + 2] = v[2]
    BY <1>3, <2>2
  <2>4. Len(d) + 1 = n + 2 /\ Len(d) + 2 = n + 3 /\ Len(d) + Len(v) = n + 3
    BY <1>1, <1>3, <2>1
  <2>. QED
    BY <2>1, <2>2, <2>3, <2>4
<1> DEFINE e == d \o v
<1>. HIDE DEF e
<1>6. /\ e \o w \in Seq(Steps) /\ Len(e \o w) = n + 4
      /\ \A i \in 1..(n + 3) : (e \o w)[i] = e[i]
      /\ (e \o w)[n + 4] = w[1]
  <2>1. /\ e \in Seq(Steps) /\ Len(e) = n + 3
    BY <1>5 DEF e
  <2>2. /\ e \o w \in Seq(Steps) /\ Len(e \o w) = Len(e) + Len(w)
        /\ \A i \in 1..Len(e) : (e \o w)[i] = e[i]
        /\ \A i \in 1..Len(w) : (e \o w)[Len(e) + i] = w[i]
    <3>1. Joined(e \o w, e, w)
      BY <1>2, <2>1, ConcatAt
    <3>. QED
      BY <3>1 DEF Joined
  <2>3. (e \o w)[Len(e) + 1] = w[1]
    BY <1>3, <2>2
  <2>4. Len(e) + 1 = n + 4 /\ Len(e) + Len(w) = n + 4
    BY <1>1, <1>3, <2>1
  <2>. QED
    BY <2>1, <2>2, <2>3, <2>4
<1>7. c = e \o w
  BY DEF d, e
<1>. HIDE DEF c
<1>8. /\ c \in Seq(Steps) /\ Len(c) = n + 4
      /\ \A i \in 1..n : c[i] = s[i]
      /\ c[n + 1] = Await("register") /\ c[n + 2] = SendOnly("configurationDone")
      /\ c[n + 3] = Await("response") /\ c[n + 4] = Await("stop")
  <2>1. /\ c \in Seq(Steps) /\ Len(c) = n + 4
        /\ \A i \in 1..(n + 3) : c[i] = e[i]
        /\ c[n + 4] = w[1]
    BY <1>6, <1>7
  <2>5. /\ \A i \in 1..n : d[i] = s[i]
        /\ \A i \in 1..(n + 1) : e[i] = d[i]
        /\ d[n + 1] = Await("register")
    BY <1>4, <1>5 DEF d, e
  <2>. HIDE DEF n
  <2>2. \A i \in 1..n : c[i] = s[i]
    <3> SUFFICES ASSUME NEW i \in 1..n PROVE c[i] = s[i]
      OBVIOUS
    <3>1. i \in 1..(n + 1) /\ i \in 1..(n + 3)
      BY <1>1
    <3>. QED
      BY <2>1, <2>5, <3>1
  <2>3. c[n + 1] = Await("register")
    <3>1. n + 1 \in 1..(n + 1) /\ n + 1 \in 1..(n + 3)
      BY <1>1
    <3>. QED
      BY <2>1, <2>5, <3>1
  <2>4. c[n + 2] = v[1] /\ c[n + 3] = v[2]
    BY <1>1, <1>5, <2>1 DEF e
  <2>. QED
    BY <2>1, <2>2, <2>3, <2>4 DEF v, w
<1>9. \A i \in 1..Len(c) :
        i \in 1..n \/ i = n + 1 \/ i = n + 2 \/ i = n + 3 \/ i = n + 4
  BY <1>1, <1>8
<1>10. \A i \in 1..n : /\ c[i].op \in {"send", "start", "initialized"}
                       /\ c[i].op = "start" => i = Target
                       /\ c[i].cmd # "configurationDone"
  BY <1>8 DEF Opening
<1>11. /\ c[n + 1].op = "register" /\ c[n + 1].cmd = "none"
       /\ c[n + 2].op = "send" /\ c[n + 2].cmd = "configurationDone"
       /\ c[n + 3].op = "response" /\ c[n + 3].cmd = "none"
       /\ c[n + 4].op = "stop" /\ c[n + 4].cmd = "none"
  BY <1>8 DEF Await, SendOnly
<1>12. {n + 1, n + 2, n + 3, n + 4} \subseteq 1..Len(c) /\ n + 1 < n + 2 /\ n + 3 < n + 4
  BY <1>1, <1>8
<1>. HIDE DEF n
<1>13. \A i \in 1..Len(c) : c[i].cmd = "configurationDone" => i = n + 2
  BY <1>9, <1>10, <1>11
<1>14. \A i \in 1..Len(c) : c[i].op = "stop" => i = n + 4
  BY <1>9, <1>10, <1>11
<1>15. \A i \in 1..Len(c) : c[i].op = "start" => i = Target
  BY <1>9, <1>10, <1>11
<1>16. Shaped(c)
  BY <1>1, <1>8, <1>11, <1>12, <1>13, <1>14, <1>15 DEF Shaped
<1>17. EarlyRegister(c)
  BY <1>11, <1>12, <1>13 DEF EarlyRegister
<1>. QED
  BY <1>16, <1>17 DEF c, u, v, w

\* ... and of one that does not.
LEMMA RunningEnd ==
  ASSUME NEW s, Opening(s)
  PROVE  LET c == s \o <<SendOnly("configurationDone"), Await("response")>> IN
         Shaped(c) /\ EarlyRegister(c)
<1> DEFINE n == Len(s)
           v == <<SendOnly("configurationDone"), Await("response")>>
           c == s \o v
<1>1. s \in Seq(Steps) /\ n \in Nat /\ n >= 3
  BY DEF Opening
<1>2. v \in Seq(Steps) /\ Len(v) = 2
  BY DEF Steps, SendOnly, Await
<1>3. /\ c \in Seq(Steps) /\ Len(c) = n + 2
      /\ \A i \in 1..n : c[i] = s[i]
      /\ c[n + 1] = v[1] /\ c[n + 2] = v[2]
  <2>. HIDE DEF v
  <2>1. /\ c \in Seq(Steps) /\ Len(c) = Len(s) + Len(v)
        /\ \A i \in 1..Len(s) : c[i] = s[i]
        /\ \A i \in 1..Len(v) : c[Len(s) + i] = v[i]
    <3>1. Joined(c, s, v)
      BY <1>1, <1>2, ConcatAt
    <3>. HIDE DEF c
    <3>. QED
      BY <3>1 DEF Joined
  <2>. QED
    BY <1>2, <2>1
<1>4. /\ c[n + 1].op = "send" /\ c[n + 1].cmd = "configurationDone"
      /\ c[n + 2].op = "response" /\ c[n + 2].cmd = "none"
  BY <1>3 DEF Await, SendOnly
<1>. HIDE DEF c
<1>5. \A i \in 1..Len(c) : i \in 1..n \/ i = n + 1 \/ i = n + 2
  BY <1>1, <1>3
<1>6. \A i \in 1..n : /\ c[i].op \in {"send", "start", "initialized"}
                      /\ c[i].op = "start" => i = Target
                      /\ c[i].cmd # "configurationDone"
  BY <1>3 DEF Opening
<1>7. n + 2 \in 1..Len(c)
  BY <1>1, <1>3
<1>8. Len(c) >= 3
  BY <1>1, <1>3
<1>. HIDE DEF n
<1>9. \A i \in 1..Len(c) : /\ c[i].cmd = "configurationDone" => i = n + 1
                           /\ c[i].op # "stop"
                           /\ c[i].op = "start" => i = Target
  BY <1>4, <1>5, <1>6
<1>10. Shaped(c)
  BY <1>3, <1>4, <1>7, <1>8, <1>9 DEF Shaped
<1>11. EarlyRegister(c)
  BY <1>9 DEF EarlyRegister
<1>. QED
  BY <1>10, <1>11 DEF c, v

LEMMA LaunchShaped ==
  ASSUME NEW files \in Nat, NEW functions \in BOOLEAN, NEW stop \in BOOLEAN
  PROVE  /\ Shaped(LaunchScript(files, functions, stop))
         /\ EarlyRegister(LaunchScript(files, functions, stop))
<1> DEFINE s == <<Send("initialize"), Start("launch"), Await("initialized")>>
                \o [i \in 1..files |-> Send("setBreakpoints")]
                \o When(functions, <<Send("setFunctionBreakpoints")>>)
                \o <<SendOnly("setExceptionBreakpoints")>>
           v == <<SendOnly("configurationDone"), Await("response")>>
<1>1. Opening(s)
  BY LaunchOpening
<1>2. LaunchScript(files, functions, stop) =
        s \o When(stop, <<Await("register")>>) \o v \o When(stop, <<Await("stop")>>)
  BY DEF LaunchScript
<1>. HIDE DEF s
<1>3. CASE stop
  <2>1. LaunchScript(files, functions, stop) =
          s \o <<Await("register")>> \o v \o <<Await("stop")>>
    BY <1>2, <1>3 DEF When
  <2>. QED
    BY <1>1, <2>1, StoppingEnd
<1>4. CASE ~stop
  <2>1. LaunchScript(files, functions, stop) = s \o <<>> \o v \o <<>>
    BY <1>2, <1>4 DEF When
  <2>2. s \in Seq(Steps) /\ v \in Seq(Steps)
    <3>1. v \in Seq(Steps)
      BY DEF Steps, SendOnly, Await
    <3>. QED
      BY <1>1, <3>1 DEF Opening
  <2>. HIDE DEF v
  <2>3. s \o <<>> = s /\ s \o v \in Seq(Steps)
    BY <2>2, ConcatEmptySeq, ConcatProperties
  <2>4. (s \o v) \o <<>> = s \o v
    BY <2>3, ConcatEmptySeq
  <2>5. LaunchScript(files, functions, stop) = s \o v
    BY <2>1, <2>3, <2>4
  <2>. QED
    BY <1>1, <2>5, RunningEnd DEF v
<1>. QED
  BY <1>3, <1>4

LEMMA AttachShaped == Shaped(AttachScript)
<1> DEFINE c == AttachScript
<1>1. c \in Seq(Steps) /\ Len(c) = 8
  BY DEF AttachScript, Steps, Send, SendOnly, Start, Await
<1>2. /\ c[1].op = "send" /\ c[1].cmd = "initialize"
      /\ c[2].op = "start" /\ c[2].cmd = "attach"
      /\ c[3].op = "initialized" /\ c[3].cmd = "none"
      /\ c[4].op = "send" /\ c[4].cmd = "setExceptionBreakpoints"
      /\ c[5].op = "send" /\ c[5].cmd = "configurationDone"
      /\ c[6].op = "response" /\ c[6].cmd = "none"
      /\ c[7].op = "register" /\ c[7].cmd = "none"
      /\ c[8].op = "stop" /\ c[8].cmd = "none"
  BY DEF AttachScript, Send, SendOnly, Start, Await
<1>. HIDE DEF c
<1>3. \A i \in 1..Len(c) : i \in {1, 2, 3, 4, 5, 6, 7, 8}
  BY <1>1
<1>4. \A i \in 1..Len(c) : /\ c[i].op = "start" => i = Target
                           /\ c[i].cmd = "configurationDone" => i = 5
                           /\ c[i].op = "stop" => i = 8
  BY <1>2, <1>3 DEF Target
<1>5. 6 \in 1..Len(c) /\ 6 < 8
  BY <1>1
<1>6. Shaped(c)
  BY <1>1, <1>2, <1>4, <1>5 DEF Shaped
<1>. QED
  BY <1>6 DEF c

\* Every script a handshake can have.
LEMMA ScriptShaped ==
  ASSUME NEW k \in {"launch", "attach"}, NEW s \in Scripts[k]
  PROVE  Shaped(s) /\ (k = "launch" => EarlyRegister(s))
<1>1. CASE k = "launch"
  <2>1. PICK n \in 0..MaxFiles, f \in BOOLEAN, stop \in BOOLEAN : s = LaunchScript(n, f, stop)
    BY <1>1 DEF Scripts
  <2>2. n \in Nat
    BY HandshakeAssumption
  <2>. QED
    BY <2>1, <2>2, LaunchShaped
<1>2. CASE k = "attach"
  BY <1>2, AttachShaped DEF Scripts
<1>. QED
  BY <1>1, <1>2

----------------------------------------------------------------------------
(* The inductive invariant *)

\* The request at position i has been written, or will never be.
Wrote(i) == i < at \/ (i = at /\ (sent \/ result # "none"))

\* A request is registered, written, parsed and answered at its turn only; the
\* pending map holds the one being sent and the deferred launch or attach.
SendInv ==
  /\ sent => At("send")
  /\ \A i \in pending : i = Target \/ (i = at /\ sent)
  /\ \A i \in DOMAIN script :
       /\ i \in pending \/ rx[i] # "empty" \/ i \in parsed => Wrote(i)
       /\ rx[i] # "empty" => i \notin pending
  /\ \A k \in DOMAIN stdin : Wrote(stdin[k]) /\ stdin[k] \notin parsed
  /\ \A j, k \in DOMAIN stdin : stdin[j] = stdin[k] => j = k

IsStop(m) == m.type \in Fates

\* What is on its way from the adapter, and what has arrived, is what happened.
ReplyInv ==
  /\ owed \cap refused = {}
  /\ \A k \in DOMAIN inbox :
       /\ inbox[k].type = "response" =>
            /\ inbox[k].of \in parsed \ owed
            /\ inbox[k].ok <=> inbox[k].of \notin refused
       /\ inbox[k].type = "eof" => adapter = "down"
  /\ \A i \in DOMAIN script :
       /\ rx[i] \in {"ok", "refused"} =>
            /\ i \in parsed \ owed
            /\ rx[i] = "ok" <=> i \notin refused
       /\ rx[i] = "closed" => adapter = "down"

\* What the adapter has said of the debuggee: an exit may be followed by the
\* terminated event.
Told(what) == target = what \/ (what = "exited" /\ target = "terminated")

StopInv ==
  /\ target # "none" => \E i \in parsed : script[i].cmd = "configurationDone"
  /\ \A k \in DOMAIN inbox : IsStop(inbox[k]) => Told(inbox[k].type)
  /\ stopRx \in Fates => Told(stopRx) \/ (stopRx = "terminated" /\ adapter = "down")

\* The position of an await of this kind is behind the handshake.
Passed(op) == \E i \in DOMAIN script : script[i].op = op /\ i < at

OutcomeInv ==
  /\ Passed("response") \/ result \in {"running"} \cup Fates => rx[Target] = "ok"
  /\ result = "stopped" => target = "stopped"
  /\ result = "exited" => \/ target \in {"exited", "terminated"}
                          \/ kind = "launch" /\ adapter = "down"
  /\ result = "terminated" => kind = "attach" /\ (target = "terminated" \/ adapter = "down")
  /\ result = "failed" => refused # {} \/ adapter = "down"

CaptureInv ==
  kind = "launch" /\ Wanted("stop") =>
    /\ ~lost
    /\ reading /\ Passed("register") => slot \/ stopRx # "empty"


\* The fates of a debuggee are expanded throughout.
USE DEF Fates

----------------------------------------------------------------------------
(* Types *)

\* What the shape of the scripts says of the one that runs.
LEMMA ScriptFacts ==
  ASSUME TypeOK
  PROVE  /\ DOMAIN script = 1..Len(script) /\ Len(script) \in Nat /\ Len(script) >= 3
         /\ Target \in DOMAIN script
         /\ \A i \in DOMAIN script : script[i].op = "start" => i = Target
         /\ \A i, j \in DOMAIN script :
              script[i].cmd = "configurationDone" /\ script[j].cmd = "configurationDone"
                => i = j
         /\ \E r \in DOMAIN script : script[r].op = "response"
         /\ \A i \in DOMAIN script : script[i].op = "stop" =>
              \E r \in DOMAIN script : r < i /\ script[r].op = "response"
         /\ kind = "launch" =>
              \A i, j \in DOMAIN script :
                script[i].cmd = "configurationDone" /\ script[j].op = "stop" =>
                  \E g \in DOMAIN script : g < i /\ script[g].op = "register"
<1>1. Shaped(script) /\ (kind = "launch" => EarlyRegister(script))
  BY ScriptShaped DEF TypeOK
<1>2. DOMAIN script = 1..Len(script) /\ Len(script) \in Nat /\ Len(script) >= 3
  BY <1>1 DEF Shaped
<1>3. Target \in DOMAIN script
  BY <1>2 DEF Target
<1>. QED
  BY <1>1, <1>2, <1>3 DEF Shaped, EarlyRegister

LEMMA TypeInit == Init => TypeOK
<1> SUFFICES ASSUME Init PROVE TypeOK
  OBVIOUS
<1>1. kind \in {"launch", "attach"} /\ script \in Scripts[kind]
  BY HandshakeAssumption DEF Init
<1>2. Shaped(script)
  BY <1>1, ScriptShaped
<1>3. Len(script) \in Nat /\ Len(script) >= 3
  BY <1>2 DEF Shaped
<1>4. at \in 1..(Len(script) + 1)
  BY <1>3 DEF Init
<1>5. /\ rx \in [DOMAIN script -> Replies] /\ pending \subseteq DOMAIN script
      /\ result \in Results /\ stopRx \in Outcomes
  BY DEF Init, Replies, Results, Outcomes
<1>6. stdin \in Seq(DOMAIN script) /\ inbox \in Seq(Messages)
  BY DEF Init
<1>. QED
  BY <1>1, <1>4, <1>5, <1>6 DEF Init, TypeOK

\* A step of the handshake leaves it at a step of its script, or after the last.
LEMMA AdvanceType ==
  ASSUME TypeOK, at \in DOMAIN script, Advance
  PROVE  /\ kind' = kind /\ script' = script
         /\ at' \in 1..(Len(script) + 1) /\ at' = at + 1
         /\ sent' = FALSE
         /\ result' \in Results
BY ScriptFacts DEF TypeOK, Advance, Results

LEMMA ReturnType ==
  ASSUME TypeOK, NEW r \in Results, Return(r)
  PROVE  /\ kind' = kind /\ script' = script /\ at' = at
         /\ sent' = FALSE
         /\ result' \in Results
BY DEF TypeOK, Return

LEMMA TypeStep ==
  ASSUME TypeOK, [Next]_vars
  PROVE  TypeOK'
<1> USE DEF sharedVars, adapterVars, clientVars
<1>0. DOMAIN script \subseteq Nat
  BY ScriptFacts
<1>1. CASE Write
  <2>1. at \in DOMAIN script
    BY <1>1 DEF Write, At
  <2>2. CASE adapter = "up" /\ script[at].op = "start"
    <3>1. Advance
      BY <1>1, <2>2 DEF Write
    <3>2. /\ kind' = kind /\ script' = script
          /\ at' \in 1..(Len(script) + 1) /\ sent' = FALSE /\ result' \in Results
      BY <2>1, <3>1, AdvanceType
    <3>3. pending' \subseteq DOMAIN script /\ stdin' \in Seq(DOMAIN script)
      <4>1. pending' = pending \cup {at} /\ stdin' = Append(stdin, at)
        BY <1>1, <2>2 DEF Write
      <4>2. pending \subseteq DOMAIN script /\ stdin \in Seq(DOMAIN script)
        BY DEF TypeOK
      <4>. QED
        BY <2>1, <4>1, <4>2, AppendProperties
    <3>4. UNCHANGED <<rx, fired, slot, stopRx, reading, lost, adapter, parsed, owed, refused,
                      announced, target, inbox>>
      BY <1>1 DEF Write
    <3>5. /\ pending' \subseteq DOMAIN script' /\ stdin' \in Seq(DOMAIN script')
          /\ rx' \in [DOMAIN script' -> Replies] /\ parsed' \subseteq DOMAIN script'
          /\ at' \in 1..(Len(script') + 1) /\ script' \in Scripts[kind']
      BY <3>2, <3>3, <3>4 DEF TypeOK
    <3>. QED
      BY <3>2, <3>4, <3>5 DEF TypeOK
  <2>3. CASE adapter = "up" /\ script[at].op # "start"
    BY <1>1, <2>1, <2>3 DEF Write, TypeOK
  <2>4. CASE adapter # "up"
    <3>1. Return("failed") /\ "failed" \in Results
      BY <1>1, <2>4 DEF Write, Results
    <3>. QED
      BY <1>1, <2>4, <3>1, ReturnType DEF Write, TypeOK
  <2>. QED
    BY <2>2, <2>3, <2>4
<1>2. CASE Reply \/ PassInitialized \/ TakeResponse \/ TakeStop
  <2>1. at \in DOMAIN script
    BY <1>2 DEF Reply, PassInitialized, TakeResponse, TakeStop, At
  <2>2. Advance \/ \E r \in Results : Return(r)
    BY <1>2 DEF Reply, PassInitialized, TakeResponse, TakeStop, Results, TypeOK, Outcomes
  <2>3. UNCHANGED <<sharedVars, adapterVars>>
    BY <1>2 DEF Reply, PassInitialized, TakeResponse, TakeStop
  <2>4. CASE Advance
    BY <2>1, <2>3, <2>4, AdvanceType DEF TypeOK
  <2>5. CASE \E r \in Results : Return(r)
    BY <2>3, <2>5, ReturnType DEF TypeOK
  <2>. QED
    BY <2>2, <2>4, <2>5
<1>3. CASE Register
  <2>1. at \in DOMAIN script
    BY <1>3 DEF Register, At
  <2>. QED
    BY <1>3, <2>1, AdvanceType DEF Register, TypeOK, Outcomes
<1>4. CASE Cancel
  <2>1. Return("cancelled") /\ "cancelled" \in Results
    BY <1>4 DEF Cancel, Results
  <2>2. pending' \subseteq pending
    BY <1>4 DEF Cancel
  <2>. QED
    BY <1>4, <2>1, <2>2, ReturnType DEF Cancel, TypeOK
<1>5. CASE Parse
  <2>1. Head(stdin) \in DOMAIN script /\ Tail(stdin) \in Seq(DOMAIN script)
    BY <1>5 DEF Parse, TypeOK
  <2>. QED
    BY <1>5, <2>1 DEF Parse, TypeOK
<1>6. ASSUME NEW i \in owed, NEW ok \in BOOLEAN, Respond(i, ok)
      PROVE  TypeOK'
  <2>1. i \in Nat /\ i \in parsed
    BY <1>0 DEF TypeOK
  <2>2. [type |-> "response", of |-> i, ok |-> ok] \in Messages
    BY <2>1 DEF Messages
  <2>3. inbox' \in Seq(Messages)
    BY <1>6, <2>2 DEF Respond, Say, TypeOK
  <2>. QED
    BY <1>6, <2>1, <2>3 DEF Respond, TypeOK
<1>7. CASE Announce
  <2>1. inbox' \in Seq(Messages)
    BY <1>7 DEF Announce, Say, TypeOK, Messages
  <2>. QED
    BY <1>7, <2>1 DEF Announce, TypeOK
<1>8. ASSUME NEW what \in Fates, Happen(what)
      PROVE  TypeOK'
  <2>1. inbox' \in Seq(Messages)
    BY <1>8 DEF Happen, Say, TypeOK, Messages
  <2>. QED
    BY <1>8, <2>1 DEF Happen, TypeOK
<1>9. CASE Die
  <2>1. inbox' \in Seq(Messages)
    BY <1>9 DEF Die, Say, TypeOK, Messages
  <2>. QED
    BY <1>9, <2>1 DEF Die, TypeOK
<1>10. CASE Reader
  <2>1. inbox' \in Seq(Messages)
    <3>1. inbox # <<>> /\ inbox' = Tail(inbox)
      BY <1>10 DEF Reader, DeliverResponse, DeliverInitialized, DeliverStop, Recover, Take
    <3>2. inbox \in Seq(Messages)
      BY DEF TypeOK
    <3>. QED
      BY <3>1, <3>2
  <2>2. /\ UNCHANGED Rest
        /\ pending' \subseteq pending
        /\ {fired', slot', reading', lost'} \subseteq BOOLEAN
        /\ stopRx' \in Outcomes
    BY <1>10 DEF Reader, DeliverResponse, DeliverInitialized, DeliverStop, Recover, TypeOK, Outcomes
  <2>3. rx' \in [DOMAIN script -> Replies]
    BY <1>10 DEF Reader, DeliverResponse, DeliverInitialized, DeliverStop, Recover, TypeOK, Replies
  <2>. QED
    BY <2>1, <2>2, <2>3 DEF Rest, TypeOK
<1>11. CASE UNCHANGED vars
  BY <1>11 DEF vars, TypeOK
<1>. QED
  BY <1>1, <1>2, <1>3, <1>4, <1>5, <1>6, <1>7, <1>8, <1>9, <1>10, <1>11
     DEF Next, Backend, Answers, Refuses, Events

\* Every variable stays within its type: the handshake, the client's tables
\* and the adapter.
THEOREM TypeCorrect == Spec => []TypeOK
<1>1. TypeOK /\ [Next]_vars => TypeOK'
  BY TypeStep
<1>. QED
  BY <1>1, TypeInit, PTL DEF Spec


----------------------------------------------------------------------------
(* Positions, and the adapter's output *)

LEMMA SaidIsLast ==
  ASSUME TypeOK, NEW m \in Messages, Say(m)
  PROVE  /\ \A k \in DOMAIN inbox : k \in DOMAIN inbox' /\ inbox'[k] = inbox[k]
         /\ \A k \in DOMAIN inbox' :
              (k \in DOMAIN inbox /\ inbox'[k] = inbox[k]) \/ (k \notin DOMAIN inbox /\ inbox'[k] = m)
         /\ \A j, k \in DOMAIN inbox' : j \notin DOMAIN inbox /\ k \notin DOMAIN inbox => j = k
<1>1. inbox \in Seq(Messages) /\ inbox' = Append(inbox, m)
  BY DEF TypeOK, Say
<1>2. /\ DOMAIN inbox = 1..Len(inbox) /\ DOMAIN inbox' = 1..(Len(inbox) + 1) /\ Len(inbox) \in Nat
      /\ \A k \in 1..Len(inbox) : inbox'[k] = inbox[k]
      /\ inbox'[Len(inbox) + 1] = m
  BY <1>1
<1>. QED
  BY <1>2

LEMMA TakenIsFirst ==
  ASSUME TypeOK, NEW type, Take(type)
  PROVE  /\ 1 \in DOMAIN inbox /\ Head(inbox) = inbox[1] /\ inbox[1].type = type
         /\ \A k \in DOMAIN inbox' :
              k \in Nat /\ k # 0 /\ k + 1 \in DOMAIN inbox /\ inbox'[k] = inbox[k + 1]
<1>1. inbox \in Seq(Messages) /\ inbox # <<>> /\ inbox' = Tail(inbox) /\ Head(inbox).type = type
  BY DEF TypeOK, Take
<1>2. /\ DOMAIN inbox = 1..Len(inbox) /\ DOMAIN inbox' = 1..(Len(inbox) - 1)
      /\ Len(inbox) \in Nat /\ Len(inbox) # 0
      /\ \A k \in 1..(Len(inbox) - 1) : inbox'[k] = inbox[k + 1]
      /\ Head(inbox) = inbox[1]
  BY <1>1
<1>. QED
  BY <1>1, <1>2

LEMMA ParsedIsFirst ==
  ASSUME TypeOK, SendInv, stdin # <<>>, stdin' = Tail(stdin)
  PROVE  /\ Head(stdin) \in DOMAIN script /\ Wrote(Head(stdin)) /\ Head(stdin) \notin parsed
         /\ \A k \in DOMAIN stdin' : /\ k + 1 \in DOMAIN stdin /\ stdin'[k] = stdin[k + 1]
                                     /\ stdin'[k] # Head(stdin)
         /\ \A j, k \in DOMAIN stdin' : stdin'[j] = stdin'[k] => j = k
<1>1. stdin \in Seq(DOMAIN script)
  BY DEF TypeOK
<1>2. /\ DOMAIN stdin = 1..Len(stdin) /\ DOMAIN stdin' = 1..(Len(stdin) - 1)
      /\ Len(stdin) \in Nat /\ Len(stdin) # 0
      /\ \A k \in 1..(Len(stdin) - 1) : stdin'[k] = stdin[k + 1]
      /\ Head(stdin) = stdin[1] /\ stdin[1] \in DOMAIN script
  BY <1>1
<1>3. 1 \in DOMAIN stdin /\ \A k \in DOMAIN stdin' : k + 1 \in DOMAIN stdin /\ k + 1 # 1
  BY <1>2
<1>4. \A j, k \in DOMAIN stdin : stdin[j] = stdin[k] => j = k
  BY DEF SendInv
<1>5. \A k \in DOMAIN stdin' : stdin'[k] # Head(stdin)
  BY <1>2, <1>3, <1>4
<1>6. ASSUME NEW j \in DOMAIN stdin', NEW k \in DOMAIN stdin', stdin'[j] = stdin'[k]
      PROVE  j = k
  <2>1. j + 1 = k + 1
    BY <1>2, <1>3, <1>4, <1>6
  <2>2. j \in Nat /\ k \in Nat
    BY <1>2
  <2>. QED
    BY <2>1, <2>2
<1>. QED
  BY <1>2, <1>3, <1>5, <1>6 DEF SendInv

LEMMA WrittenIsLast ==
  ASSUME TypeOK, at \in DOMAIN script, stdin' = Append(stdin, at)
  PROVE  \A k \in DOMAIN stdin' :
           \/ k \in DOMAIN stdin /\ stdin'[k] = stdin[k]
           \/ k = Len(stdin) + 1 /\ k \notin DOMAIN stdin /\ stdin'[k] = at
<1>1. stdin \in Seq(DOMAIN script)
  BY DEF TypeOK
<1>2. /\ DOMAIN stdin = 1..Len(stdin) /\ DOMAIN stdin' = 1..(Len(stdin) + 1) /\ Len(stdin) \in Nat
      /\ \A k \in 1..Len(stdin) : stdin'[k] = stdin[k]
      /\ stdin'[Len(stdin) + 1] = at
  BY <1>1, AppendProperties
<1>. QED
  BY <1>2

\* Every step of the handshake moves forward, and one that it takes to its
\* end has written, or given up, the request it was at.
LEMMA Forward ==
  ASSUME TypeOK, at \in DOMAIN script,
         Advance \/ (\E r \in Results \ {"none"} : Return(r))
           \/ (sent' = TRUE /\ UNCHANGED <<at, result>>)
  PROVE  \A i \in DOMAIN script : Wrote(i) \/ i = at => Wrote(i)'
<1>1. DOMAIN script \subseteq Nat
  BY ScriptFacts
<1>2. at \in Nat
  BY <1>1
<1>3. CASE Advance
  <2>1. at' = at + 1
    BY <1>3 DEF Advance
  <2>2. \A i \in DOMAIN script : i <= at => i < at'
    BY <1>1, <1>2, <2>1
  <2>3. at < at'
    BY <1>2, <2>1
  <2>. QED
    BY <1>1, <1>2, <2>2, <2>3 DEF Wrote
<1>4. CASE \E r \in Results \ {"none"} : Return(r)
  BY <1>4 DEF Return, Wrote
<1>5. CASE sent' = TRUE /\ UNCHANGED <<at, result>>
  BY <1>5 DEF Wrote
<1>. QED
  BY <1>3, <1>4, <1>5

----------------------------------------------------------------------------
(* Requests *)

LEMMA SendStep ==
  ASSUME TypeOK, SendInv, [Next]_vars
  PROVE  SendInv'
<1> USE DEF sharedVars, adapterVars, clientVars
<1>0. DOMAIN script \subseteq Nat /\ \A k \in DOMAIN stdin : stdin[k] \in DOMAIN script
  BY ScriptFacts DEF TypeOK
<1>1. CASE Write
  <2>1. at \in DOMAIN script /\ ~sent /\ result = "none" /\ at \in Nat
    BY <1>0, <1>1 DEF Write, At
  <2>2. ~Wrote(at)
    BY <2>1 DEF Wrote
  <2>3. rx' = rx /\ parsed' = parsed /\ script' = script
    BY <1>1 DEF Write, Advance, Return
  <2>4. \A i \in pending : i = Target
    BY <2>1 DEF SendInv
  <2>5. CASE adapter = "up"
    <3>1. pending' = pending \cup {at} /\ stdin' = Append(stdin, at)
      BY <1>1, <2>5 DEF Write
    <3>2. \/ Advance /\ at = Target
          \/ sent' = TRUE /\ UNCHANGED <<kind, script, at, result>> /\ script[at].op = "send"
      BY <1>1, <2>1, <2>5, ScriptFacts DEF Write, At
    <3>3. \A i \in DOMAIN script : Wrote(i) \/ i = at => Wrote(i)'
      BY <2>1, <3>2, Forward
    <3>4. sent' => At("send")'
      BY <2>1, <2>3, <3>2 DEF Advance, At
    <3>5. \A i \in pending' : i = Target \/ (i = at' /\ sent')
      BY <2>4, <3>1, <3>2 DEF Advance
    <3>6. \A i \in DOMAIN script :
            /\ i \in pending' \/ rx[i] # "empty" \/ i \in parsed => Wrote(i)'
            /\ rx[i] # "empty" => i \notin pending'
      BY <2>1, <2>2, <3>1, <3>3 DEF SendInv
    <3>7. \A k \in DOMAIN stdin' :
            \/ k \in DOMAIN stdin /\ stdin'[k] = stdin[k]
            \/ k = Len(stdin) + 1 /\ k \notin DOMAIN stdin /\ stdin'[k] = at
      BY <2>1, <3>1, WrittenIsLast
    <3>8. at \notin parsed /\ \A k \in DOMAIN stdin : stdin[k] # at
      BY <2>1, <2>2 DEF SendInv
    <3>9. \A k \in DOMAIN stdin' : Wrote(stdin[k])' /\ stdin'[k] \notin parsed
      <4>1. ASSUME NEW k \in DOMAIN stdin' PROVE Wrote(stdin[k])' /\ stdin'[k] \notin parsed
        <5>1. CASE k \in DOMAIN stdin /\ stdin'[k] = stdin[k]
          <6>1. PICK i \in DOMAIN script : i = stdin[k]
            BY <1>0, <5>1
          <6>2. Wrote(i) /\ i \notin parsed
            BY <5>1, <6>1 DEF SendInv
          <6>. QED
            BY <3>3, <5>1, <6>1, <6>2 DEF Wrote
        <5>2. CASE stdin'[k] = at
          <6>1. PICK i \in DOMAIN script : i = at
            BY <2>1
          <6>. QED
            BY <3>3, <3>8, <5>2, <6>1 DEF Wrote
        <5>. QED
          BY <3>7, <5>1, <5>2
      <4>. QED
        BY <4>1
    <3>10. \A j, k \in DOMAIN stdin' : stdin'[j] = stdin'[k] => j = k
      BY <3>7, <3>8 DEF SendInv
    <3>. QED
      BY <2>3, <3>4, <3>5, <3>6, <3>9, <3>10 DEF SendInv
  <2>6. CASE adapter # "up"
    <3>1. Return("failed") /\ UNCHANGED <<pending, stdin>>
      BY <1>1, <2>6 DEF Write
    <3>2. \A i \in DOMAIN script : Wrote(i) => Wrote(i)'
      BY <2>1, <3>1, Forward DEF Results
    <3>3. ~sent'
      BY <3>1 DEF Return
    <3>. QED
      BY <1>0, <2>3, <2>4, <3>1, <3>2, <3>3 DEF SendInv, Wrote
  <2>. QED
    BY <2>5, <2>6
<1>2. CASE Reply \/ PassInitialized \/ TakeResponse \/ TakeStop \/ Register
  <2>1. at \in DOMAIN script
    BY <1>2 DEF Reply, PassInitialized, TakeResponse, TakeStop, Register, At
  <2>2. Advance \/ \E r \in Results \ {"none"} : Return(r)
    BY <1>2 DEF Reply, PassInitialized, TakeResponse, TakeStop, Register, Results, TypeOK,
                Outcomes
  <2>3. UNCHANGED <<pending, rx, parsed, stdin>>
    BY <1>2 DEF Reply, PassInitialized, TakeResponse, TakeStop, Register
  <2>4. \A i \in pending : i = Target
    <3>1. CASE Reply
      BY <3>1 DEF Reply, SendInv, TypeOK
    <3>2. CASE ~Reply
      BY <1>2, <3>2 DEF PassInitialized, TakeResponse, TakeStop, Register, SendInv, At
    <3>. QED
      BY <3>1, <3>2
  <2>5. \A i \in DOMAIN script : Wrote(i) => Wrote(i)'
    BY <2>1, <2>2, Forward
  <2>6. ~sent' /\ script' = script
    BY <2>2 DEF Advance, Return
  <2>. QED
    BY <1>0, <2>3, <2>4, <2>5, <2>6 DEF SendInv, Wrote
<1>3. CASE Cancel
  <2>1. Return("cancelled") /\ UNCHANGED <<rx, parsed, stdin>> /\ pending' \subseteq pending
    BY <1>3 DEF Cancel
  <2>2. \A i \in pending' : i = Target
    BY <1>3 DEF Cancel, SendInv
  <2>3. /\ at' = at /\ result' # "none" /\ ~sent' /\ script' = script
    BY <2>1 DEF Return
  <2>. QED
    BY <2>1, <2>2, <2>3 DEF SendInv, Wrote
<1>4. CASE Parse
  <2>1. /\ stdin # <<>> /\ stdin' = Tail(stdin) /\ parsed' = parsed \cup {Head(stdin)}
        /\ UNCHANGED <<clientVars, sharedVars>>
    BY <1>4 DEF Parse
  <2>2. /\ Wrote(Head(stdin))
        /\ \A k \in DOMAIN stdin' : /\ k + 1 \in DOMAIN stdin /\ stdin'[k] = stdin[k + 1]
                                    /\ stdin'[k] # Head(stdin)
        /\ \A j, k \in DOMAIN stdin' : stdin'[j] = stdin'[k] => j = k
    BY <2>1, ParsedIsFirst
  <2>3. \A i \in DOMAIN script :
          /\ i \in pending \/ rx[i] # "empty" \/ i \in parsed' => Wrote(i)
          /\ rx[i] # "empty" => i \notin pending
    BY <2>1, <2>2 DEF SendInv
  <2>4. \A k \in DOMAIN stdin' : Wrote(stdin'[k]) /\ stdin'[k] \notin parsed'
    BY <2>1, <2>2 DEF SendInv
  <2>. QED
    BY <2>1, <2>2, <2>3, <2>4 DEF SendInv, Wrote, At
<1>5. CASE Answers \/ Refuses \/ Announce \/ Events \/ Die
  <2>1. UNCHANGED <<clientVars, sharedVars, parsed, stdin>>
    BY <1>5 DEF Answers, Refuses, Respond, Announce, Events, Happen, Die
  <2>. QED
    BY <2>1 DEF SendInv, Wrote, At
<1>6. CASE Reader
  <2>1. /\ UNCHANGED <<clientVars, parsed, stdin>>
        /\ pending' \subseteq pending
        /\ \A i \in DOMAIN script :
             rx'[i] # "empty" => i \notin pending' /\ (rx[i] # "empty" \/ i \in pending)
    <3>1. CASE DeliverResponse
      BY <3>1 DEF DeliverResponse, Rest, SendInv, TypeOK
    <3>2. CASE Recover
      BY <3>2 DEF Recover, Rest, SendInv, TypeOK
    <3>3. CASE DeliverInitialized \/ \E what \in Fates : DeliverStop(what)
      BY <3>3 DEF DeliverInitialized, DeliverStop, Rest, SendInv
    <3>. QED
      BY <1>6, <3>1, <3>2, <3>3 DEF Reader
  <2>. QED
    BY <2>1 DEF SendInv, Wrote, At
<1>7. CASE UNCHANGED vars
  BY <1>7 DEF vars, SendInv, Wrote, At
<1>. QED
  BY <1>1, <1>2, <1>3, <1>4, <1>5, <1>6, <1>7 DEF Next, Backend


----------------------------------------------------------------------------
(* Replies *)

LEMMA ReplyStep ==
  ASSUME TypeOK, SendInv, ReplyInv, [Next]_vars
  PROVE  ReplyInv'
<1> USE DEF sharedVars, adapterVars, clientVars
<1>1. CASE Backend \/ Cancel
  <2>1. /\ UNCHANGED <<script, owed, refused, parsed, inbox, adapter, rx>>
        /\ stopRx' = stopRx \/ stopRx' = "empty"
    BY <1>1 DEF Backend, Write, Reply, PassInitialized, TakeResponse, TakeStop, Register, Cancel,
                Advance, Return
  <2>. QED
    BY <2>1 DEF ReplyInv
<1>2. CASE Parse
  <2>1. /\ parsed' = parsed \cup {Head(stdin)} /\ owed' = owed \cup {Head(stdin)}
        /\ UNCHANGED <<script, refused, inbox, adapter, rx, stopRx>>
    BY <1>2 DEF Parse
  <2>2. Head(stdin) \notin parsed
    BY <1>2, ParsedIsFirst DEF Parse
  <2>. QED
    BY <2>1, <2>2 DEF ReplyInv, TypeOK
<1>3. ASSUME NEW i \in owed, NEW ok \in BOOLEAN, Respond(i, ok)
      PROVE  ReplyInv'
  <2> DEFINE m == [type |-> "response", of |-> i, ok |-> ok]
  <2>1. /\ Say(m) /\ owed' = owed \ {i}
        /\ refused' = IF ok THEN refused ELSE refused \cup {i}
        /\ UNCHANGED <<script, parsed, adapter, rx, stopRx>>
    BY <1>3 DEF Respond
  <2>2. i \in parsed /\ i \in Nat
    BY ScriptFacts DEF TypeOK
  <2>3. m \in Messages
    BY <2>2 DEF Messages
  <2>4. m.type = "response" /\ m.of = i /\ m.ok = ok
    OBVIOUS
  <2>. HIDE DEF m
  <2>5. \A k \in DOMAIN inbox' : (k \in DOMAIN inbox /\ inbox'[k] = inbox[k]) \/ inbox'[k] = m
    BY <2>1, <2>3, SaidIsLast
  <2>6. i \notin refused
    BY DEF ReplyInv
  <2>7. \A k \in DOMAIN inbox' :
          /\ inbox'[k].type = "response" =>
               /\ inbox'[k].of \in parsed \ owed'
               /\ inbox'[k].ok <=> inbox'[k].of \notin refused'
          /\ inbox'[k].type = "eof" => adapter = "down"
    <3> SUFFICES ASSUME NEW k \in DOMAIN inbox'
                 PROVE  /\ inbox'[k].type = "response" =>
                             /\ inbox'[k].of \in parsed \ owed'
                             /\ inbox'[k].ok <=> inbox'[k].of \notin refused'
                        /\ inbox'[k].type = "eof" => adapter = "down"
      OBVIOUS
    <3>1. CASE k \in DOMAIN inbox /\ inbox'[k] = inbox[k]
      BY <2>1, <3>1 DEF ReplyInv
    <3>2. CASE inbox'[k] = m
      BY <2>1, <2>2, <2>4, <2>6, <3>2
    <3>. QED
      BY <2>5, <3>1, <3>2
  <2>8. \A j \in DOMAIN script :
          rx[j] \in {"ok", "refused"} => /\ j \in parsed \ owed'
                                         /\ rx[j] = "ok" <=> j \notin refused'
    BY <2>1 DEF ReplyInv
  <2>9. owed' \cap refused' = {}
    BY <2>1 DEF ReplyInv
  <2>. QED
    BY <2>1, <2>7, <2>8, <2>9 DEF ReplyInv
<1>4. CASE Announce \/ Events \/ Die
  <2>1. /\ \E type \in {"initialized", "eof"} \cup Fates :
             Say([type |-> type]) /\ (type = "eof" => adapter' = "down")
        /\ UNCHANGED <<script, parsed, owed, refused, rx, stopRx>>
        /\ adapter = "down" => adapter' = "down"
    BY <1>4 DEF Announce, Events, Happen, Die
  <2>2. PICK type \in {"initialized", "eof"} \cup Fates :
           Say([type |-> type]) /\ (type = "eof" => adapter' = "down")
    BY <2>1
  <2>3. [type |-> type] \in Messages
    BY DEF Messages
  <2>4. \A k \in DOMAIN inbox' :
          (k \in DOMAIN inbox /\ inbox'[k] = inbox[k]) \/ inbox'[k] = [type |-> type]
    BY <2>2, <2>3, SaidIsLast
  <2>5. \A k \in DOMAIN inbox' :
          (k \in DOMAIN inbox /\ inbox'[k] = inbox[k]) \/ inbox'[k].type = type
    BY <2>4
  <2>. QED
    BY <2>1, <2>2, <2>5 DEF ReplyInv
<1>5. CASE Reader
  <2>1. UNCHANGED <<script, parsed, owed, refused, adapter>>
    BY <1>5 DEF Reader, DeliverResponse, DeliverInitialized, DeliverStop, Recover, Rest
  <2>2. PICK type \in {"response", "initialized", "eof"} \cup Fates :
           /\ Take(type)
           /\ type = "response" => DeliverResponse
           /\ type = "initialized" => DeliverInitialized
           /\ type = "eof" => Recover
           /\ type \in Fates => DeliverStop(type)
    BY <1>5 DEF Reader, DeliverResponse, DeliverInitialized, DeliverStop, Recover
  <2>3. /\ 1 \in DOMAIN inbox /\ Head(inbox) = inbox[1] /\ inbox[1].type = type
        /\ \A k \in DOMAIN inbox' : k + 1 \in DOMAIN inbox /\ inbox'[k] = inbox[k + 1]
    BY <2>2, TakenIsFirst
  <2>4. \A k \in DOMAIN inbox' :
          /\ inbox'[k].type = "response" =>
               /\ inbox'[k].of \in parsed \ owed
               /\ inbox'[k].ok <=> inbox'[k].of \notin refused
          /\ inbox'[k].type = "eof" => adapter = "down"
    BY <2>3 DEF ReplyInv
  <2>6. ASSUME NEW i \in DOMAIN script
        PROVE  /\ rx'[i] \in {"ok", "refused"} => /\ i \in parsed \ owed
                                                  /\ rx'[i] = "ok" <=> i \notin refused
               /\ rx'[i] = "closed" => adapter = "down"
    <3>1. CASE rx'[i] = rx[i]
      BY <3>1 DEF ReplyInv
    <3>2. CASE type = "response" /\ rx'[i] # rx[i]
      <4>1. i = inbox[1].of /\ rx'[i] = (IF inbox[1].ok THEN "ok" ELSE "refused")
        BY <2>2, <2>3, <3>2 DEF DeliverResponse, TypeOK
      <4>2. i \in parsed \ owed /\ (inbox[1].ok <=> i \notin refused)
        BY <2>3, <3>2, <4>1 DEF ReplyInv
      <4>. QED
        BY <4>1, <4>2
    <3>3. CASE type = "eof" /\ rx'[i] # rx[i]
      BY <2>2, <2>3, <3>3 DEF Recover, ReplyInv, TypeOK
    <3>4. CASE type \notin {"response", "eof"}
      BY <2>2, <3>1, <3>4 DEF DeliverInitialized, DeliverStop
    <3>. QED
      BY <3>1, <3>2, <3>3, <3>4
  <2>. QED
    BY <2>1, <2>4, <2>6 DEF ReplyInv
<1>6. CASE UNCHANGED vars
  BY <1>6 DEF vars, ReplyInv
<1>. QED
  BY <1>1, <1>2, <1>3, <1>4, <1>5, <1>6 DEF Next, Answers, Refuses

----------------------------------------------------------------------------
(* What becomes of the debuggee *)

LEMMA StopStep ==
  ASSUME TypeOK, SendInv, ReplyInv, StopInv, [Next]_vars
  PROVE  StopInv'
<1> USE DEF sharedVars, adapterVars, clientVars
<1>1. CASE Backend \/ Cancel
  <2>1. /\ UNCHANGED <<script, parsed, inbox, target, adapter>>
        /\ stopRx' = stopRx \/ stopRx' = "empty"
    BY <1>1 DEF Backend, Write, Reply, PassInitialized, TakeResponse, TakeStop, Register, Cancel,
                Advance, Return
  <2>. QED
    BY <2>1 DEF StopInv, IsStop, Told
<1>2. CASE Parse
  <2>1. /\ parsed' = parsed \cup {Head(stdin)}
        /\ UNCHANGED <<script, inbox, stopRx, adapter>>
        /\ target' = target \/ (target' = "ready" /\ script[Head(stdin)].cmd = "configurationDone")
    BY <1>2 DEF Parse
  <2>2. Head(stdin) \notin parsed /\ Head(stdin) \in DOMAIN script
    BY <1>2, ParsedIsFirst DEF Parse
  <2>3. CASE target' = target
    BY <2>1, <2>3 DEF StopInv, IsStop, Told
  <2>4. CASE target' = "ready" /\ script[Head(stdin)].cmd = "configurationDone"
    <3>1. target = "none"
      BY <2>2, <2>4, ScriptFacts DEF StopInv, TypeOK
    <3>2. /\ \A k \in DOMAIN inbox : ~IsStop(inbox[k])
          /\ stopRx \in Fates => stopRx = "terminated" /\ adapter = "down"
      BY <3>1 DEF StopInv, IsStop, Told
    <3>. QED
      BY <2>1, <2>4, <3>2 DEF StopInv, IsStop, Told
  <2>. QED
    BY <2>1, <2>3, <2>4
<1>3. ASSUME NEW i \in owed, NEW ok \in BOOLEAN, Respond(i, ok)
      PROVE  StopInv'
  <2> DEFINE m == [type |-> "response", of |-> i, ok |-> ok]
  <2>1. /\ Say(m) /\ UNCHANGED <<script, parsed, stopRx, adapter>>
        /\ target' = target \/ (target' = "none" /\ target \in {"none", "ready"})
    BY <1>3 DEF Respond
  <2>2. m \in Messages /\ ~IsStop(m)
    <3>1. i \in Nat
      BY ScriptFacts DEF TypeOK
    <3>. QED
      BY <3>1 DEF Messages, IsStop
  <2>. HIDE DEF m
  <2>3. \A k \in DOMAIN inbox' : (k \in DOMAIN inbox /\ inbox'[k] = inbox[k]) \/ inbox'[k] = m
    BY <2>1, <2>2, SaidIsLast
  <2>4. \A k \in DOMAIN inbox' : IsStop(inbox'[k]) => k \in DOMAIN inbox /\ inbox'[k] = inbox[k]
    BY <2>2, <2>3
  <2>5. CASE target' = target
    BY <2>1, <2>4, <2>5 DEF StopInv, IsStop, Told
  <2>6. CASE target' = "none" /\ target \in {"none", "ready"}
    <3>1. /\ \A k \in DOMAIN inbox : ~IsStop(inbox[k])
          /\ stopRx \in Fates => stopRx = "terminated" /\ adapter = "down"
      BY <2>6 DEF StopInv, IsStop, Told
    <3>2. \A k \in DOMAIN inbox' : ~IsStop(inbox'[k])
      BY <2>4, <3>1
    <3>. QED
      BY <2>1, <2>6, <3>1, <3>2 DEF StopInv, IsStop, Told
  <2>. QED
    BY <2>1, <2>5, <2>6
<1>4. CASE Announce \/ Die
  <2>1. PICK type \in {"initialized", "eof"} : Say([type |-> type])
    BY <1>4 DEF Announce, Die
  <2>2. /\ UNCHANGED <<script, parsed, stopRx, target>>
        /\ adapter = "down" => adapter' = "down"
    BY <1>4 DEF Announce, Die
  <2>3. [type |-> type] \in Messages /\ ~IsStop([type |-> type])
    BY DEF Messages, IsStop
  <2>4. \A k \in DOMAIN inbox' :
          (k \in DOMAIN inbox /\ inbox'[k] = inbox[k]) \/ inbox'[k] = [type |-> type]
    BY <2>1, <2>3, SaidIsLast
  <2>5. \A k \in DOMAIN inbox' : IsStop(inbox'[k]) => k \in DOMAIN inbox /\ inbox'[k] = inbox[k]
    BY <2>3, <2>4
  <2>. QED
    BY <2>2, <2>5 DEF StopInv, IsStop, Told
<1>5. ASSUME NEW what \in Fates, Happen(what)
      PROVE  StopInv'
  <2> DEFINE ToldNow(w) == target' = w \/ (w = "exited" /\ target' = "terminated")
  <2>1. /\ Say([type |-> what]) /\ target' = what
        /\ target = "ready" \/ (target = "exited" /\ what = "terminated")
        /\ UNCHANGED <<script, parsed, stopRx, adapter>>
    BY <1>5 DEF Happen
  <2>2. /\ \A k \in DOMAIN inbox : IsStop(inbox[k]) => ToldNow(inbox[k].type)
        /\ stopRx \in Fates => ToldNow(stopRx) \/ (stopRx = "terminated" /\ adapter = "down")
        /\ \E i \in parsed : script[i].cmd = "configurationDone"
    BY <2>1 DEF StopInv, IsStop, Told
  <2>3. [type |-> what] \in Messages
    BY DEF Messages
  <2>4. \A k \in DOMAIN inbox' :
          (k \in DOMAIN inbox /\ inbox'[k] = inbox[k]) \/ inbox'[k] = [type |-> what]
    BY <2>1, <2>3, SaidIsLast
  <2>5. \A k \in DOMAIN inbox' : IsStop(inbox'[k]) => ToldNow(inbox'[k].type)
    BY <2>1, <2>2, <2>4 DEF IsStop, Told
  <2>. QED
    BY <2>1, <2>2, <2>5 DEF StopInv, IsStop, Told
<1>6. CASE Reader
  <2>1. UNCHANGED <<script, parsed, target, adapter>>
    BY <1>6 DEF Reader, DeliverResponse, DeliverInitialized, DeliverStop, Recover, Rest
  <2>2. PICK type : /\ Take(type)
                    /\ \/ stopRx' = stopRx
                       \/ type = "eof" /\ stopRx' = "terminated"
                       \/ type \in Fates /\ stopRx' = type
    BY <1>6 DEF Reader, DeliverResponse, DeliverInitialized, DeliverStop, Recover
  <2>3. /\ 1 \in DOMAIN inbox /\ inbox[1].type = type
        /\ \A k \in DOMAIN inbox' : k \in Nat /\ k + 1 \in DOMAIN inbox /\ inbox'[k] = inbox[k + 1]
    BY <2>2, TakenIsFirst
  <2>4. type = "eof" => adapter = "down"
    BY <2>3 DEF ReplyInv
  <2>5. stopRx' \in Fates => Told(stopRx') \/ (stopRx' = "terminated" /\ adapter = "down")
    BY <2>2, <2>3, <2>4 DEF StopInv, IsStop
  <2>6. \A k \in DOMAIN inbox' : IsStop(inbox'[k]) => Told(inbox'[k].type)
    BY <2>3 DEF StopInv, IsStop
  <2>. QED
    BY <2>1, <2>5, <2>6 DEF StopInv, IsStop, Told
<1>7. CASE UNCHANGED vars
  BY <1>7 DEF vars, StopInv, IsStop, Told
<1>. QED
  BY <1>1, <1>2, <1>3, <1>4, <1>5, <1>6, <1>7 DEF Next, Answers, Refuses, Events

----------------------------------------------------------------------------
(* The outcome *)

\* A response that was collected stays collected, a debuggee that stopped or is
\* gone stays so, and a refusal or the adapter's death is not taken back.
LEMMA Stable ==
  ASSUME TypeOK, SendInv, StopInv, [Next]_vars
  PROVE  /\ rx[Target] = "ok" => rx'[Target] = "ok"
         /\ target \in {"stopped", "terminated"} => target' = target
         /\ target = "exited" => target' \in {"exited", "terminated"}
         /\ refused \subseteq refused'
         /\ adapter = "down" => adapter' = "down"
<1> USE DEF sharedVars, adapterVars, clientVars
<1>1. CASE Backend \/ Cancel
  BY <1>1 DEF Backend, Write, Reply, PassInitialized, TakeResponse, TakeStop, Register, Cancel
<1>2. CASE Parse
  <2>1. UNCHANGED <<rx, refused, adapter>>
    BY <1>2 DEF Parse
  <2>2. Head(stdin) \in DOMAIN script /\ Head(stdin) \notin parsed
    BY <1>2, ParsedIsFirst DEF Parse
  <2>3. target # "none" => script[Head(stdin)].cmd # "configurationDone"
    BY <2>2, ScriptFacts DEF StopInv, TypeOK
  <2>. QED
    BY <1>2, <2>1, <2>3 DEF Parse
<1>3. CASE Answers \/ Refuses
  BY <1>3 DEF Answers, Refuses, Respond
<1>4. CASE Announce \/ Events \/ Die
  BY <1>4 DEF Announce, Events, Happen, Die
<1>5. CASE Reader
  <2>1. UNCHANGED <<target, refused, adapter>>
    BY <1>5 DEF Reader, DeliverResponse, DeliverInitialized, DeliverStop, Recover, Rest
  <2>2. Target \in DOMAIN script /\ rx \in [DOMAIN script -> Replies]
    BY ScriptFacts DEF TypeOK
  <2>3. rx[Target] = "ok" => Target \notin pending
    BY <2>2 DEF SendInv
  <2>4. rx[Target] = "ok" => rx'[Target] = "ok"
    BY <1>5, <2>2, <2>3 DEF Reader, DeliverResponse, DeliverInitialized, DeliverStop, Recover
  <2>. QED
    BY <2>1, <2>4
<1>6. CASE UNCHANGED vars
  BY <1>6 DEF vars
<1>. QED
  BY <1>1, <1>2, <1>3, <1>4, <1>5, <1>6 DEF Next

\* The handshake goes on past the response, or returns that it is running,
\* only with the response collected.
LEMMA OnlyWithTheResponse ==
  ASSUME TypeOK, OutcomeInv, at \in DOMAIN script, result = "none", Advance, rx' = rx,
         script[at].op = "response" => rx[Target] = "ok"
  PROVE  OutcomeInv'
<1>1. /\ at' = at + 1 /\ script' = script /\ kind' = kind
      /\ result' = IF at = Len(script) THEN "running" ELSE "none"
  BY DEF Advance
<1>2. /\ DOMAIN script = 1..Len(script) /\ Len(script) \in Nat
      /\ \E r \in DOMAIN script : script[r].op = "response"
  BY ScriptFacts
<1>3. ASSUME NEW i \in DOMAIN script, script[i].op = "response", i < at + 1
      PROVE  rx[Target] = "ok"
  <2>1. i < at \/ i = at
    BY <1>2, <1>3
  <2>. QED
    BY <1>3, <2>1 DEF OutcomeInv, Passed
<1>4. at = Len(script) => rx[Target] = "ok"
  <2> SUFFICES ASSUME at = Len(script) PROVE rx[Target] = "ok"
    OBVIOUS
  <2>1. PICK r \in DOMAIN script : script[r].op = "response"
    BY <1>2
  <2>2. r < at + 1
    BY <1>2
  <2>. QED
    BY <1>3, <2>1, <2>2
<1>. QED
  BY <1>1, <1>3, <1>4 DEF OutcomeInv, Passed

LEMMA OutcomeStep ==
  ASSUME TypeOK, SendInv, ReplyInv, StopInv, OutcomeInv, [Next]_vars
  PROVE  OutcomeInv'
<1> USE DEF sharedVars, adapterVars, clientVars
<1>0. /\ rx[Target] = "ok" => rx'[Target] = "ok"
      /\ target \in {"stopped", "terminated"} => target' = target
      /\ target = "exited" => target' \in {"exited", "terminated"}
      /\ refused \subseteq refused'
      /\ adapter = "down" => adapter' = "down"
  BY Stable
<1>1. ASSUME UNCHANGED <<kind, script, at, result>> PROVE OutcomeInv'
  <2>1. Passed("response")' <=> Passed("response")
    BY <1>1 DEF Passed
  <2>2. refused # {} => refused' # {}
    BY <1>0
  <2>3. (Passed("response") \/ result \in {"running"} \cup Fates => rx[Target] = "ok")'
    BY <1>0, <1>1, <2>1 DEF OutcomeInv
  <2>4. (result = "stopped" => target = "stopped")'
    BY <1>0, <1>1 DEF OutcomeInv
  <2>5. (/\ result = "exited" => \/ target \in {"exited", "terminated"}
                                 \/ kind = "launch" /\ adapter = "down"
         /\ result = "terminated" => /\ kind = "attach"
                                     /\ target = "terminated" \/ adapter = "down")'
    BY <1>0, <1>1 DEF OutcomeInv
  <2>6. (result = "failed" => refused # {} \/ adapter = "down")'
    BY <1>0, <1>1, <2>2 DEF OutcomeInv
  <2>. QED
    BY <2>3, <2>4, <2>5, <2>6 DEF OutcomeInv
<1>2. ASSUME NEW r \in {"failed", "cancelled"}, Return(r), rx' = rx,
             r = "failed" => refused' # {} \/ adapter' = "down"
      PROVE  OutcomeInv'
  <2>1. result' = r /\ UNCHANGED <<script, at>>
    BY <1>2 DEF Return
  <2>2. Passed("response")' <=> Passed("response")
    BY <2>1 DEF Passed
  <2>. QED
    BY <1>2, <2>1, <2>2 DEF OutcomeInv
<1>3. CASE Write
  <2>1. at \in DOMAIN script /\ result = "none" /\ script[at].op # "response" /\ rx' = rx
        /\ adapter' = adapter
    BY <1>3 DEF Write, At
  <2>2. CASE Advance
    BY <2>1, <2>2, OnlyWithTheResponse
  <2>3. CASE UNCHANGED <<kind, script, at, result>>
    BY <1>1, <2>3
  <2>4. CASE Return("failed") /\ adapter # "up"
    <3>1. adapter = "down"
      BY <2>4 DEF TypeOK
    <3>. QED
      BY <1>2, <2>1, <2>4, <3>1
  <2>. QED
    BY <1>3, <2>2, <2>3, <2>4 DEF Write
<1>4. CASE PassInitialized \/ Register
  <2>1. at \in DOMAIN script /\ result = "none" /\ script[at].op # "response" /\ rx' = rx
        /\ Advance
    BY <1>4 DEF PassInitialized, Register, At
  <2>. QED
    BY <2>1, OnlyWithTheResponse
<1>5. CASE Reply
  <2>1. at \in DOMAIN script /\ result = "none" /\ script[at].op # "response" /\ rx' = rx
        /\ rx[at] # "empty" /\ UNCHANGED <<refused, adapter>>
    BY <1>5 DEF Reply, At
  <2>2. CASE Advance
    BY <2>1, <2>2, OnlyWithTheResponse
  <2>3. CASE Return("failed") /\ ~Acceptable(at, script[at].checked)
    <3>1. rx[at] \in {"refused", "closed"}
      BY <2>1, <2>3 DEF Acceptable, TypeOK, Replies
    <3>2. refused # {} \/ adapter = "down"
      BY <2>1, <3>1 DEF ReplyInv
    <3>. QED
      BY <1>2, <2>1, <2>3, <3>2
  <2>. QED
    BY <1>5, <2>2, <2>3 DEF Reply
<1>6. CASE TakeResponse
  <2>1. at \in DOMAIN script /\ result = "none" /\ rx' = rx
        /\ rx[Target] # "empty" /\ UNCHANGED <<refused, adapter>>
    BY <1>6 DEF TakeResponse, At
  <2>2. Target \in DOMAIN script
    BY ScriptFacts
  <2>3. CASE Advance /\ Acceptable(Target, TRUE)
    <3>1. rx[Target] = "ok"
      BY <2>3 DEF Acceptable
    <3>. QED
      BY <2>1, <2>3, <3>1, OnlyWithTheResponse
  <2>4. CASE Return("failed") /\ ~Acceptable(Target, TRUE)
    <3>1. rx[Target] \in {"refused", "closed"}
      BY <2>1, <2>2, <2>4 DEF Acceptable, TypeOK, Replies
    <3>2. refused # {} \/ adapter = "down"
      BY <2>2, <3>1 DEF ReplyInv
    <3>. QED
      BY <1>2, <2>1, <2>4, <3>2
  <2>. QED
    BY <1>6, <2>3, <2>4 DEF TakeResponse
<1>7. CASE TakeStop
  <2>1. /\ at \in DOMAIN script /\ script[at].op = "stop" /\ stopRx # "empty"
        /\ UNCHANGED <<script, at, rx, target, adapter>>
        /\ result' = IF kind = "launch" /\ stopRx = "terminated" THEN "exited" ELSE stopRx
        /\ kind' = kind
    BY <1>7 DEF TakeStop, At, Return
  <2>2. PICK r \in DOMAIN script : r < at /\ script[r].op = "response"
    BY <2>1, ScriptFacts
  <2>3. rx[Target] = "ok"
    BY <2>2 DEF OutcomeInv, Passed
  <2>4. stopRx \in Fates /\ kind \in {"launch", "attach"}
    BY <2>1 DEF TypeOK, Outcomes
  <2>5. Told(stopRx) \/ (stopRx = "terminated" /\ adapter = "down")
    BY <2>4 DEF StopInv
  <2>6. /\ result' \in Fates /\ result' # "failed"
        /\ result' = "stopped" => target = "stopped"
        /\ result' = "exited" => \/ target \in {"exited", "terminated"}
                                 \/ kind = "launch" /\ adapter = "down"
        /\ result' = "terminated" => kind = "attach" /\ (target = "terminated" \/ adapter = "down")
    BY <2>1, <2>4, <2>5 DEF Told
  <2>. QED
    BY <2>1, <2>3, <2>6 DEF OutcomeInv
<1>8. CASE Cancel
  <2>1. Return("cancelled") /\ rx' = rx
    BY <1>8 DEF Cancel
  <2>. QED
    BY <1>2, <2>1
<1>9. CASE Parse \/ Answers \/ Refuses \/ Announce \/ Events \/ Die
  BY <1>1, <1>9 DEF Parse, Answers, Refuses, Respond, Announce, Events, Happen, Die
<1>10. CASE Reader
  BY <1>1, <1>10 DEF Reader, DeliverResponse, DeliverInitialized, DeliverStop, Recover, Rest
<1>11. CASE UNCHANGED vars
  BY <1>1, <1>11 DEF vars
<1>. QED
  BY <1>3, <1>4, <1>5, <1>6, <1>7, <1>8, <1>9, <1>10, <1>11 DEF Next, Backend

----------------------------------------------------------------------------
(* The entry stop *)

\* A launch that waits for its entry stop has its waiter registered before the
\* adapter can know that the configuration is done.
LEMMA RegisteredFirst ==
  ASSUME TypeOK, SendInv, StopInv, kind = "launch", Wanted("stop"), target # "none"
  PROVE  Passed("register")
<1>1. PICK i \in DOMAIN script : i \in parsed /\ script[i].cmd = "configurationDone"
  BY DEF StopInv, TypeOK
<1>2. PICK j \in DOMAIN script : script[j].op = "stop"
  BY DEF Wanted
<1>3. PICK g \in DOMAIN script : g < i /\ script[g].op = "register"
  BY <1>1, <1>2, ScriptFacts
<1>4. Wrote(i)
  BY <1>1 DEF SendInv
<1>5. i \in Nat /\ g \in Nat /\ at \in Nat
  BY ScriptFacts DEF TypeOK
<1>6. i <= at
  BY <1>4, <1>5 DEF Wrote
<1>7. g < at
  BY <1>3, <1>5, <1>6
<1>. QED
  BY <1>3, <1>7 DEF Passed

LEMMA CaptureStep ==
  ASSUME TypeOK, SendInv, StopInv, CaptureInv, [Next]_vars
  PROVE  CaptureInv'
<1> USE DEF sharedVars, adapterVars, clientVars
<1>0. kind' = kind /\ script' = script
  BY DEF Next, Backend, Write, Reply, PassInitialized, TakeResponse, TakeStop, Register, Cancel,
         Advance, Return, Parse, Answers, Refuses, Respond, Announce, Events, Happen, Die,
         Reader, DeliverResponse, DeliverInitialized, DeliverStop, Recover, Rest, vars
<1>1. SUFFICES ASSUME kind = "launch", Wanted("stop")
               PROVE  /\ ~lost'
                      /\ reading' /\ Passed("register")' => slot' \/ stopRx' # "empty"
  <2>1. Wanted("stop")' <=> Wanted("stop")
    BY <1>0 DEF Wanted
  <2>. QED
    BY <1>0, <1>1, <2>1 DEF CaptureInv
<1>2. /\ ~lost
      /\ reading /\ Passed("register") => slot \/ stopRx # "empty"
  BY <1>1 DEF CaptureInv
<1>3. CASE Register
  BY <1>2, <1>3 DEF Register
<1>4. CASE (Backend /\ ~Register) \/ Cancel
  <2>1. UNCHANGED <<lost, reading, slot, stopRx>>
    BY <1>4 DEF Backend, Write, Reply, PassInitialized, TakeResponse, TakeStop, Cancel
  <2>2. at' = at \/ (at \in DOMAIN script /\ script[at].op # "register" /\ at' = at + 1)
    BY <1>4 DEF Backend, Write, Reply, PassInitialized, TakeResponse, TakeStop, Cancel,
                At, Advance, Return
  <2>3. Passed("register")' => Passed("register")
    <3> SUFFICES ASSUME NEW i \in DOMAIN script, script[i].op = "register", i < at'
                 PROVE  i < at
      BY <1>0 DEF Passed
    <3>1. i \in Nat /\ at \in Nat
      BY ScriptFacts DEF TypeOK
    <3>2. CASE at' = at
      BY <3>2
    <3>3. CASE script[at].op # "register" /\ at' = at + 1
      <4>1. i # at
        BY <3>3
      <4>. QED
        BY <3>1, <3>3, <4>1
    <3>. QED
      BY <2>2, <3>2, <3>3
  <2>. QED
    BY <1>2, <2>1, <2>3
<1>5. CASE UNCHANGED <<at, lost, reading, slot, stopRx>>
  <2>1. Passed("register")' <=> Passed("register")
    BY <1>0, <1>5 DEF Passed
  <2>. QED
    BY <1>2, <1>5, <2>1
<1>6. CASE Parse \/ Answers \/ Refuses \/ Announce \/ Events \/ Die
  BY <1>5, <1>6 DEF Parse, Answers, Refuses, Respond, Announce, Events, Happen, Die
<1>7. CASE DeliverResponse \/ DeliverInitialized
  BY <1>5, <1>7 DEF DeliverResponse, DeliverInitialized, Rest
<1>8. ASSUME NEW what \in Fates, DeliverStop(what)
      PROVE  /\ ~lost'
             /\ reading' /\ Passed("register")' => slot' \/ stopRx' # "empty"
  <2>1. /\ reading /\ at' = at
        /\ stopRx' = IF slot THEN what ELSE stopRx
        /\ lost' = (lost \/ (~slot /\ stopRx = "empty"))
    BY <1>8 DEF DeliverStop, Take, Rest
  <2>2. 1 \in DOMAIN inbox /\ inbox[1].type = what
    BY <1>8, TakenIsFirst DEF DeliverStop
  <2>3. target # "none"
    BY <2>2 DEF StopInv, IsStop, Told
  <2>4. slot \/ stopRx # "empty"
    BY <1>1, <1>2, <2>1, <2>3, RegisteredFirst
  <2>5. stopRx' # "empty"
    BY <2>1, <2>4
  <2>. QED
    BY <1>2, <2>1, <2>4, <2>5
<1>9. CASE Recover
  BY <1>2, <1>9 DEF Recover
<1>10. CASE UNCHANGED vars
  BY <1>5, <1>10 DEF vars
<1>. QED
  BY <1>3, <1>4, <1>6, <1>7, <1>8, <1>9, <1>10
     DEF Next, Reader

----------------------------------------------------------------------------
(* The theorems *)

IInv == TypeOK /\ SendInv /\ ReplyInv /\ StopInv /\ OutcomeInv /\ CaptureInv

LEMMA InvInit == Init => IInv
<1> SUFFICES ASSUME Init PROVE IInv
  OBVIOUS
<1>1. TypeOK
  BY TypeInit
<1>2. /\ at = 1 /\ ~sent /\ result = "none" /\ pending = {} /\ parsed = {} /\ owed = {}
      /\ refused = {} /\ rx = [i \in DOMAIN script |-> "empty"] /\ stdin = <<>> /\ inbox = <<>>
      /\ stopRx = "empty" /\ target = "none" /\ ~lost
  BY DEF Init
<1>3. DOMAIN stdin = {} /\ DOMAIN inbox = {}
  BY <1>2
<1>4. ~Passed("response") /\ ~Passed("register")
  BY <1>2, ScriptFacts, <1>1 DEF Passed
<1>5. SendInv
  BY <1>2, <1>3 DEF SendInv
<1>6. ReplyInv
  BY <1>2, <1>3 DEF ReplyInv
<1>7. StopInv
  BY <1>2, <1>3 DEF StopInv
<1>8. OutcomeInv
  BY <1>2, <1>4 DEF OutcomeInv
<1>9. CaptureInv
  BY <1>2, <1>3, <1>4 DEF CaptureInv
<1>. QED
  BY <1>1, <1>5, <1>6, <1>7, <1>8, <1>9 DEF IInv

LEMMA Invariant == Spec => []IInv
<1>1. IInv /\ [Next]_vars => IInv'
  BY TypeStep, SendStep, ReplyStep, StopStep, OutcomeStep, CaptureStep DEF IInv
<1>. QED
  BY <1>1, InvInit, PTL DEF Spec

\* run_launch with stop_on_entry loses no stop, in whatever order the adapter
\* sends the stop, the configurationDone reply and the launch response.
THEOREM EntryStopIsCaptured == Spec => []EntryStopCaptured
<1>1. IInv => EntryStopCaptured
  BY DEF IInv, CaptureInv, EntryStopCaptured
<1>. QED
  BY <1>1, Invariant, PTL

\* run_launch and run_attach report a stop, an exit, a running debuggee or a
\* failure only of an adapter and a debuggee that are in that state.
THEOREM ReportsWhatHappened == Spec => []OutcomeIsTrue
<1>1. IInv => OutcomeIsTrue
  <2> SUFFICES ASSUME IInv PROVE OutcomeIsTrue
    OBVIOUS
  <2>1. result \in {"running"} \cup Fates => Target \notin refused
    BY ScriptFacts DEF IInv, OutcomeInv, ReplyInv
  <2>. QED
    BY <2>1 DEF IInv, OutcomeInv, OutcomeIsTrue
<1>. QED
  BY <1>1, Invariant, PTL

\* What a handshake that returned has left in Shared.pending: the deferred
\* launch or attach request if it failed or was cancelled, else nothing.
THEOREM LeavesOnlyTheTarget == Spec => []LeavesAtMostTheTarget
<1>1. IInv => LeavesAtMostTheTarget
  <2> SUFFICES ASSUME IInv, result # "none"
               PROVE  pending \subseteq IF result \in {"failed", "cancelled"} THEN {Target} ELSE {}
    BY DEF LeavesAtMostTheTarget
  <2>1. ~sent
    BY DEF IInv, SendInv, At, TypeOK
  <2>2. pending \subseteq {Target}
    BY <2>1 DEF IInv, SendInv
  <2>3. CASE result \in {"failed", "cancelled"}
    BY <2>2, <2>3
  <2>4. CASE result \in {"running"} \cup Fates
    <3>1. rx[Target] = "ok"
      BY <2>4 DEF IInv, OutcomeInv
    <3>2. Target \notin pending
      BY <3>1, ScriptFacts DEF IInv, SendInv
    <3>. QED
      BY <2>2, <2>4, <3>2
  <2>. QED
    BY <2>3, <2>4 DEF IInv, TypeOK, Results
<1>. QED
  BY <1>1, Invariant, PTL
==============================================================================
