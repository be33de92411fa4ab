------------------------- MODULE BreakpointsProofs -------------------------
(***************************************************************************)
(* Proofs about Breakpoints, for every set of tasks, kinds and keys.       *)
(*                                                                         *)
(* That a listed id is its own holds however calls overlap; the invariant  *)
(* adds what a call carries between its response and its commit.  That the *)
(* tables agree with the adapter holds when calls do not overlap; there    *)
(* the invariant says, for every place the one call under way can be at,   *)
(* by how much tables and adapter differ.                                  *)
(***************************************************************************)
EXTENDS Breakpoints, FiniteSetTheorems, SequenceTheorems, WellFoundedInduction, TLAPS

----------------------------------------------------------------------------
(* The sequence operators *)

\* A non-empty set of positions has a first one.
LEMMA FirstExists ==
  ASSUME NEW S \in SUBSET Nat, S # {}
  PROVE  /\ Min(S) \in S
         /\ \A m \in S : Min(S) <= m
<1> DEFINE Less == {p \in Nat \X Nat : p[1] < p[2]}
<1>0. IsWellFoundedOn(Less, Nat)
  BY NatLessThanWellFounded DEF OpToRel
<1>1. PICK n \in S : \A m \in S : <<m, n>> \notin Less
  <2> HIDE DEF Less
  <2>. QED
    BY <1>0, WFMin
<1>2. \A m \in S : n <= m
  <2> SUFFICES ASSUME NEW m \in S PROVE n <= m
    OBVIOUS
  <2>1. m \in Nat /\ n \in Nat
    OBVIOUS
  <2>2. m < n => <<m, n>> \in Less
    BY <2>1
  <2>. QED
    BY <1>1, <2>1, <2>2
<1>. QED
  BY <1>1, <1>2 DEF Min

\* An element of a sequence has a first occurrence, the one SelectInSeq finds.
LEMMA FirstOccurs ==
  ASSUME NEW S, NEW s \in Seq(S), NEW e, e \in ToSet(s)
  PROVE  /\ {i \in 1..Len(s) : s[i] = e} # {}
         /\ Min({i \in 1..Len(s) : s[i] = e}) \in 1..Len(s)
         /\ s[Min({i \in 1..Len(s) : s[i] = e})] = e
<1> DEFINE I == {i \in 1..Len(s) : s[i] = e}
<1>1. I \in SUBSET Nat /\ I # {}
  BY DEF ToSet
<1>2. Min(I) \in I
  BY <1>1, FirstExists
<1>. QED
  BY <1>1, <1>2

\* RemoveFirst drops one entry and keeps all the others.
LEMMA RemoveFirstKeeps ==
  ASSUME NEW S, NEW s \in Seq(S), NEW e
  PROVE  /\ RemoveFirst(s, e) \in Seq(S)
         /\ ToSet(RemoveFirst(s, e)) \subseteq ToSet(s)
         /\ \A k \in ToSet(s) : k # e => k \in ToSet(RemoveFirst(s, e))
<1>1. CASE e \notin ToSet(s)
  <2>1. ~ \E i \in 1..Len(s) : s[i] = e
    BY <1>1 DEF ToSet
  <2>2. RemoveFirst(s, e) = s
    BY <2>1 DEF RemoveFirst
  <2>. QED
    BY <2>2
<1>2. CASE e \in ToSet(s)
  <2>1. PICK n \in 1..Len(s) : s[n] = e /\ RemoveFirst(s, e) = RemoveAt(s, n)
    <3> DEFINE I == {i \in 1..Len(s) : s[i] = e}
    <3>1. I # {} /\ Min(I) \in 1..Len(s) /\ s[Min(I)] = e
      BY <1>2, FirstOccurs
    <3>2. SelectInSeq(s, LAMBDA v : v = e) = Min(I)
      BY <3>1 DEF SelectInSeq
    <3>3. RemoveFirst(s, e) = RemoveAt(s, SelectInSeq(s, LAMBDA v : v = e))
      BY <3>1, Zenon DEF RemoveFirst
    <3>4. RemoveFirst(s, e) = RemoveAt(s, Min(I))
      BY <3>2, <3>3, Zenon
    <3>. QED
      BY <3>1, <3>4, Zenon
  <2> DEFINE r == RemoveAt(s, n)
  <2>2. /\ r \in Seq(S) /\ Len(r) = Len(s) - 1
        /\ \A i \in 1..Len(r) : r[i] = IF i < n THEN s[i] ELSE s[i + 1]
    <3>1. n \in Int /\ Len(s) \in Nat /\ 1 <= n /\ n <= Len(s)
      BY <2>1
    <3>2. /\ SubSeq(s, 1, n - 1) \in Seq(S) /\ Len(SubSeq(s, 1, n - 1)) = n - 1
          /\ \A i \in 1..(n - 1) : SubSeq(s, 1, n - 1)[i] = s[i]
      BY <3>1
    <3>3. /\ SubSeq(s, n + 1, Len(s)) \in Seq(S)
          /\ Len(SubSeq(s, n + 1, Len(s))) = Len(s) - n
          /\ \A i \in 1..(Len(s) - n) : SubSeq(s, n + 1, Len(s))[i] = s[n + i]
      BY <3>1
    <3> DEFINE a == SubSeq(s, 1, n - 1)
               b == SubSeq(s, n + 1, Len(s))
    <3>4. /\ a \o b \in Seq(S) /\ Len(a \o b) = Len(a) + Len(b)
          /\ \A i \in 1..(Len(a) + Len(b)) :
               (a \o b)[i] = IF i <= Len(a) THEN a[i] ELSE b[i - Len(a)]
      BY <3>2, <3>3, ConcatProperties
    <3>5. r = a \o b
      BY DEF RemoveAt
    <3>. HIDE DEF a, b, r
    <3>6. Len(a) = n - 1 /\ Len(b) = Len(s) - n
      BY <3>2, <3>3 DEF a, b
    <3>7. Len(r) = Len(s) - 1
      <4>1. Len(r) = Len(a) + Len(b)
        BY <3>4, <3>5
      <4>. QED
        BY <3>1, <3>6, <4>1
    <3>8. ASSUME NEW i \in 1..Len(r), i < n PROVE r[i] = s[i]
      <4>1. r[i] = a[i]
        BY <3>1, <3>4, <3>5, <3>6, <3>7, <3>8
      <4>2. i \in 1..(n - 1)
        BY <3>1, <3>7, <3>8
      <4>. QED
        BY <3>2, <4>1, <4>2 DEF a
    <3>9. ASSUME NEW i \in 1..Len(r), ~(i < n) PROVE r[i] = s[i + 1]
      <4>1. r[i] = b[i - (n - 1)]
        BY <3>1, <3>4, <3>5, <3>6, <3>7, <3>9
      <4>2. i - (n - 1) \in 1..(Len(s) - n) /\ n + (i - (n - 1)) = i + 1
        BY <3>1, <3>7, <3>9
      <4>. QED
        BY <3>3, <4>1, <4>2 DEF b
    <3>. QED
      BY <3>4, <3>5, <3>7, <3>8, <3>9
  <2>3. ToSet(r) \subseteq ToSet(s)
    BY <2>1, <2>2 DEF ToSet
  <2>4. ASSUME NEW k \in ToSet(s), k # e PROVE k \in ToSet(r)
    <3>1. PICK i \in 1..Len(s) : s[i] = k
      BY <2>4 DEF ToSet
    <3>2. CASE i < n
      BY <2>1, <2>2, <3>1, <3>2 DEF ToSet
    <3>3. CASE i > n
      <4>1. i - 1 \in 1..Len(r) /\ r[i - 1] = k
        BY <2>1, <2>2, <3>1, <3>3
      <4>. QED
        BY <4>1, <2>2 DEF ToSet
    <3>. QED
      BY <2>1, <2>4, <3>1, <3>2, <3>3
  <2>. QED
    BY <2>1, <2>2, <2>3, <2>4
<1>. QED
  BY <1>1, <1>2

\* Append adds its element.
LEMMA AppendAdds ==
  ASSUME NEW S, NEW s \in Seq(S), NEW e \in S
  PROVE  /\ Append(s, e) \in Seq(S) /\ Append(s, e) # <<>>
         /\ Last(Append(s, e)) = e
         /\ ToSet(Append(s, e)) = ToSet(s) \cup {e}
         /\ ToSet(s) \subseteq S
BY DEF ToSet, Last

\* \o joins the elements.
LEMMA ConcatJoins ==
  ASSUME NEW S, NEW s \in Seq(S), NEW u \in Seq(S)
  PROVE  s \o u \in Seq(S) /\ ToSet(s \o u) = ToSet(s) \cup ToSet(u)
<1>0. /\ s \o u \in Seq(S) /\ Len(s \o u) = Len(s) + Len(u)
      /\ \A i \in 1..(Len(s) + Len(u)) :
           (s \o u)[i] = IF i <= Len(s) THEN s[i] ELSE u[i - Len(s)]
  BY ConcatProperties
<1> DEFINE c == s \o u
<1>. HIDE DEF c
<1>1. \A i \in 1..Len(s) : c[i] = s[i] /\ i \in 1..Len(c)
  BY <1>0 DEF c
<1>2. \A i \in 1..Len(u) : c[Len(s) + i] = u[i] /\ Len(s) + i \in 1..Len(c)
  <2> SUFFICES ASSUME NEW i \in 1..Len(u)
               PROVE  c[Len(s) + i] = u[i] /\ Len(s) + i \in 1..Len(c)
    OBVIOUS
  <2>1. /\ Len(s) \in Nat /\ Len(u) \in Nat
        /\ Len(s) + i \in 1..(Len(s) + Len(u)) /\ ~(Len(s) + i <= Len(s))
        /\ (Len(s) + i) - Len(s) = i
    OBVIOUS
  <2>2. Len(c) = Len(s) + Len(u)
    BY <1>0 DEF c
  <2>3. PICK j \in 1..(Len(s) + Len(u)) : j = Len(s) + i
    BY <2>1
  <2>4. c[j] = u[j - Len(s)]
    BY <1>0, <2>1, <2>3 DEF c
  <2>5. j - Len(s) = i
    BY <2>1, <2>3
  <2>6. c[j] = u[i]
    BY <2>4, <2>5, Zenon
  <2>. QED
    BY <2>1, <2>2, <2>3, <2>6
<1>3. ToSet(s) \cup ToSet(u) \subseteq ToSet(c)
  <2>1. ASSUME NEW k \in ToSet(s) PROVE k \in ToSet(c)
    <3>1. PICK i \in 1..Len(s) : k = s[i]
      BY <2>1 DEF ToSet
    <3>. QED
      BY <1>1, <3>1, <1>0 DEF ToSet, c
  <2>2. ASSUME NEW k \in ToSet(u) PROVE k \in ToSet(c)
    <3>1. PICK i \in 1..Len(u) : k = u[i]
      BY <2>2 DEF ToSet
    <3>2. PICK j \in 1..Len(c) : j = Len(s) + i /\ c[j] = u[i]
      BY <1>2, <3>1
    <3>3. DOMAIN c = 1..Len(c)
      BY <1>0 DEF c
    <3>. QED
      BY <3>1, <3>2, <3>3 DEF ToSet
  <2>. QED
    BY <2>1, <2>2
<1>4. ASSUME NEW k \in ToSet(c) PROVE k \in ToSet(s) \cup ToSet(u)
  <2>1. PICK i \in 1..(Len(s) + Len(u)) : k = c[i]
    BY <1>0, <1>4 DEF ToSet, c
  <2>2. CASE i \in 1..Len(s)
    BY <1>1, <2>1, <2>2 DEF ToSet
  <2>3. CASE i \notin 1..Len(s)
    <3>1. i - Len(s) \in 1..Len(u) /\ c[i] = u[i - Len(s)]
      BY <1>0, <2>1, <2>3 DEF c
    <3>. QED
      BY <2>1, <3>1 DEF ToSet
  <2>. QED
    BY <2>2, <2>3
<1>. QED
  BY <1>0, <1>3, <1>4 DEF c

----------------------------------------------------------------------------
(* The inductive invariants *)

Working  == {"branch", "pend", "propose", "commitList", "commitInfo"}
Located  == Working \cup {"fetch", "sent", "commitRemove"}
Recorded(t) ==
  [id |-> match[t].id, kind |-> call[t].kind,
   key |-> IF call[t].kind = "source" THEN match[t].key ELSE call[t].key]

\* What a handler knows at each of its places.
ArgsInv ==
  /\ nextId >= 1
  /\ \A t \in Tasks :
       /\ pc[t] \in Working => call[t].op = "set"
       /\ pc[t] \in {"peek", "fetch", "commitRemove"} => call[t].op = "remove"
       /\ pc[t] = "sent" => call[t].op \in {"set", "remove"}
       /\ pc[t] \in Located => call[t].kind \in Kinds /\ call[t].key \in Keys
       /\ pc[t] = "sent" /\ call[t].op = "set" =>
            list[t] # <<>> /\ Last(list[t]) = call[t].key
       /\ pc[t] \in {"commitList", "commitInfo"} => match[t].key \in Keys

\* What is recorded, or about to be, was given out for what its call asked for.
IssuedInv ==
  /\ ListedIdIsItsOwn
  /\ \A t \in Tasks :
       pc[t] \in {"commitList", "commitInfo"} => GivenFor(Recorded(t), call[t].key)

\* Only one call is under way, and only where the session's state allows it.
OneCall ==
  /\ \A t, u \in Tasks : pc[t] # "free" /\ pc[u] # "free" => t = u
  /\ \A t \in Tasks :
       /\ state = "idle" => pc[t] \in {"free", "branch", "pend"}
       /\ state = "configuring" => pc[t] = "free"
       /\ state = "stopped" => pc[t] # "pend"

\* Outside a live session nothing is recorded; the lists hold what a launch
\* has flushed.
NotLive ==
  /\ state \in {"idle", "configuring"} => info = {}
  /\ state = "idle" => active = NoLists
  /\ state = "configuring" =>
       /\ installed = Nowhere
       /\ \A kind \in Kinds, key \in Keys :
            <<kind, key>> \in flushed <=> key \in ToSet(active[kind])

\* A removal's call is about a recorded breakpoint, and ids are recorded once.
RemovalKnown ==
  /\ \A b, c \in info : b.id = c.id => b = c
  /\ \A t \in Tasks :
       pc[t] \in {"fetch", "commitRemove"} \/ (pc[t] = "sent" /\ call[t].op = "remove") =>
         [id |-> call[t].id, kind |-> call[t].kind, key |-> call[t].key] \in info

\* The list in flight is the tracked one with the call's change made to it.
Proposed ==
  \A t \in Tasks : pc[t] = "sent" =>
    LET kind == call[t].kind
        key  == call[t].key IN
    list[t] = IF call[t].op = "set" THEN Append(active[kind], key)
              ELSE RemoveFirst(active[kind], key)

\* Tables and adapter differ by the change of the one call about to commit,
\* and by the last list if its response could not be read.
TrackedBut ==
  state = "stopped" =>
    \A kind \in Kinds :
      /\ garbled[kind] # "last"
          /\ (\A t \in Tasks : ~(pc[t] \in {"commitList", "commitRemove"} /\ call[t].kind = kind))
           => InstalledKeys(kind) = ToSet(active[kind])
      /\ \A t \in Tasks : call[t].kind = kind =>
           /\ pc[t] = "commitList" =>
                InstalledKeys(kind) = ToSet(active[kind]) \cup {call[t].key}
           /\ pc[t] = "commitRemove" =>
                InstalledKeys(kind) = ToSet(RemoveFirst(active[kind], call[t].key))

SerialInv == ~overlap => OneCall /\ NotLive /\ RemovalKnown /\ Proposed /\ TrackedBut

Unmoved == \A key \in Keys : boundTo[key] = key

\* Ids agree too, but for the breakpoint about to be dropped, while every
\* response can be read.
ListedBut ==
  /\ \A b \in info : garbled[b.kind] = "never" =>
       /\ b.id > 0
       /\ \/ installed[b.kind][b.key] = b.id
          \/ \E t \in Tasks : pc[t] = "commitRemove" /\ call[t].id = b.id
  /\ \A t \in Tasks : pc[t] \in {"commitList", "commitInfo"} =>
       /\ match[t].key = call[t].key
       /\ match[t].id = installed[call[t].kind][call[t].key]
       /\ match[t].id > 0

ListedInv == ~overlap /\ Unmoved => ListedBut

\* The steps of a handler that neither commit nor reach the adapter's list.
Moves(t) ==
  \/ SetBreakpoint(t) \/ Branch(t) \/ AddPending(t) \/ ProposeSet(t)
  \/ RemoveBreakpoint(t) \/ Peek(t) \/ RemoveUnknown(t) \/ ProposeRemove(t)
  \/ NoBackend(t) \/ Rejected(t)

----------------------------------------------------------------------------
(* Types *)

USE BreakpointsAssumption

\* The adapter keeps the ids it has given, and numbers the rest from nextId.
LEMMA NewIdsKeep ==
  ASSUME TypeOK, nextId >= 1, NEW kind \in Kinds, NEW l \in Seq(Keys)
  PROVE  /\ NewIds(kind, l) \in [Keys -> Nat]
         /\ \A key \in Keys :
              /\ NewIds(kind, l)[key] # 0 <=> key \in ToSet(l)
              /\ key \in ToSet(l) /\ installed[kind][key] # 0 =>
                   NewIds(kind, l)[key] = installed[kind][key]
<1> SUFFICES ASSUME NEW key \in Keys
             PROVE  /\ NewIds(kind, l)[key] \in Nat
                    /\ NewIds(kind, l)[key] # 0 <=> key \in ToSet(l)
                    /\ key \in ToSet(l) /\ installed[kind][key] # 0 =>
                         NewIds(kind, l)[key] = installed[kind][key]
  BY DEF NewIds
<1> DEFINE n == SelectInSeq(l, LAMBDA v : v = key)
<1>1. NewIds(kind, l)[key] = IF key \notin ToSet(l) THEN 0
                             ELSE IF installed[kind][key] # 0 THEN installed[kind][key]
                             ELSE nextId + n - 1
  BY DEF NewIds
<1>2. installed[kind][key] \in Nat /\ nextId \in Nat /\ nextId >= 1
  BY DEF TypeOK
<1>3. ASSUME key \in ToSet(l) PROVE n \in 1..Len(l)
  <2> DEFINE I == {i \in 1..Len(l) : l[i] = key}
  <2>1. I # {} /\ Min(I) \in 1..Len(l)
    BY <1>3, FirstOccurs
  <2>2. n = Min(I)
    BY <2>1 DEF SelectInSeq
  <2>. QED
    BY <2>1, <2>2
<1>. HIDE DEF n
<1>. QED
  BY <1>1, <1>2, <1>3

\* r is the result of entry i, which asked for key or was moved to the line key.
IsResultOf(r, kind, key, ids, l, i) ==
  /\ r = [id |-> ids[l[i]], key |-> BoundKey(kind, l[i])]
  /\ l[i] = key \/ (kind = "source" /\ BoundKey(kind, l[i]) = key)

\* The result a set call picks is that of an entry of its request: its own, or
\* one that is bound to the line it asked for.
LEMMA PickedIsAResult ==
  ASSUME boundTo \in [Keys -> Keys], NEW kind \in Kinds, NEW key \in Keys,
         NEW ids \in [Keys -> Nat], NEW l \in Seq(Keys), l # <<>>, Last(l) = key
  PROVE  \E i \in 1..Len(l) :
           IsResultOf(Picked(kind, key, ResultsOf(kind, ids, l)), kind, key, ids, l, i)
<1> DEFINE results == ResultsOf(kind, ids, l)
           same == {i \in DOMAIN results : results[i].key = key}
<1>1. /\ DOMAIN results = 1..Len(l)
      /\ \A i \in 1..Len(l) :
           results[i] = [id |-> ids[l[i]], key |-> BoundKey(kind, l[i])]
  BY DEF ResultsOf
<1>2. Len(l) \in 1..Len(l) /\ l[Len(l)] = key
  BY DEF Last
<1>3. CASE kind = "source" /\ same # {}
  <2>1. same \in SUBSET Nat
    BY <1>1
  <2>2. \E i \in same : \A j \in same : i <= j
    BY <1>3, <2>1, FirstExists
  <2>3. PICK i \in same : Picked(kind, key, results) = results[i]
    BY <1>3, <2>2 DEF Picked
  <2>4. i \in 1..Len(l) /\ results[i].key = key
    BY <1>1, <2>3
  <2>5. BoundKey(kind, l[i]) = key
    <3>1. results[i] = [id |-> ids[l[i]], key |-> BoundKey(kind, l[i])]
      BY <1>1, <2>4
    <3>. HIDE DEF results
    <3>. QED
      BY <2>4, <3>1
  <2>. QED
    BY <1>1, <1>3, <2>3, <2>4, <2>5 DEF IsResultOf
<1>4. CASE ~(kind = "source" /\ same # {})
  <2>1. Picked(kind, key, results) = Last(results)
    BY <1>4 DEF Picked
  <2>2. Len(results) = Len(l)
    BY DEF ResultsOf
  <2>. QED
    BY <1>1, <1>2, <2>1, <2>2 DEF Last, IsResultOf
<1>. QED
  BY <1>3, <1>4

\* What replacing the adapter's list does, with the helpers resolved.
LEMMA ReplaceFacts ==
  ASSUME TypeOK, ArgsInv, NEW t \in Tasks, Replace(t)
  PROVE  LET kind == call[t].kind
             ids  == NewIds(kind, list[t]) IN
         /\ pc[t] = "sent" /\ kind \in Kinds /\ call[t].key \in Keys
         /\ ids \in [Keys -> Nat]
         /\ \A key \in Keys :
              /\ ids[key] # 0 <=> key \in ToSet(list[t])
              /\ key \in ToSet(list[t]) /\ installed[kind][key] # 0 =>
                   ids[key] = installed[kind][key]
         /\ installed' = [installed EXCEPT ![kind] = ids]
         /\ installed' \in [Kinds -> [Keys -> Nat]]
         /\ nextId' \in Nat /\ nextId' >= 1
<1> DEFINE kind == call[t].kind
           ids  == NewIds(kind, list[t])
<1>1. pc[t] = "sent" /\ kind \in Kinds /\ call[t].key \in Keys /\ list[t] \in Seq(Keys)
  BY DEF Replace, ArgsInv, TypeOK, Located
<1>2. /\ ids \in [Keys -> Nat]
      /\ \A key \in Keys :
           /\ ids[key] # 0 <=> key \in ToSet(list[t])
           /\ key \in ToSet(list[t]) /\ installed[kind][key] # 0 =>
                ids[key] = installed[kind][key]
  BY <1>1, NewIdsKeep DEF ArgsInv
<1>3. installed' = [installed EXCEPT ![kind] = ids]
  BY DEF Replace
<1>4. nextId' \in Nat /\ nextId' >= 1
  BY <1>1 DEF Replace, TypeOK, ArgsInv
<1>. HIDE DEF ids
<1>5. installed' \in [Kinds -> [Keys -> Nat]]
  BY <1>1, <1>2, <1>3 DEF TypeOK
<1>. QED
  BY <1>1, <1>2, <1>3, <1>4, <1>5 DEF ids

\* A step that replaces the list of the adapter keeps the ids of what stays.
LEMMA AcceptedFacts ==
  ASSUME TypeOK, ArgsInv, NEW t \in Tasks, Accepted(t)
  PROVE  LET kind == call[t].kind
             ids  == NewIds(kind, list[t]) IN
         /\ issued' \subseteq [id : Nat, kind : Kinds, key : Keys, asked : Keys]
         /\ issued \subseteq issued'
         /\ call[t].op = "set" =>
              /\ match' = [match EXCEPT ![t] = match'[t]]
              /\ \E key \in ToSet(list[t]) :
                   /\ match'[t] = [id |-> ids[key], key |-> BoundKey(kind, key)]
                   /\ key = call[t].key
                      \/ (kind = "source" /\ BoundKey(kind, key) = call[t].key)
                   /\ [id |-> ids[key], kind |-> kind, key |-> BoundKey(kind, key),
                       asked |-> key] \in issued'
         /\ call[t].op # "set" => match' = match
<1> DEFINE kind == call[t].kind
           ids  == NewIds(kind, list[t])
           results == ResultsOf(kind, ids, list[t])
<1>0. Replace(t)
  BY DEF Accepted
<1>1. pc[t] = "sent" /\ kind \in Kinds /\ call[t].key \in Keys /\ list[t] \in Seq(Keys)
  BY <1>0, ReplaceFacts DEF TypeOK
<1>2. ids \in [Keys -> Nat]
  BY <1>0, ReplaceFacts
<1>. HIDE DEF ids
<1>3. issued' = issued \cup
        {[id |-> ids[key], kind |-> kind, key |-> BoundKey(kind, key), asked |-> key] :
           key \in ToSet(list[t])}
  BY DEF Accepted, ids
<1>4. ToSet(list[t]) \subseteq Keys
  BY <1>1 DEF ToSet
<1>5. boundTo \in [Keys -> Keys]
      /\ issued \subseteq [id : Nat, kind : Kinds, key : Keys, asked : Keys]
  BY DEF TypeOK
<1>6. \A key \in Keys : ids[key] \in Nat /\ BoundKey(kind, key) \in Keys
  BY <1>2, <1>5 DEF BoundKey
<1>7. issued' \subseteq [id : Nat, kind : Kinds, key : Keys, asked : Keys]
  BY <1>1, <1>3, <1>4, <1>5, <1>6
<1>8. ASSUME call[t].op = "set"
      PROVE  /\ match' = [match EXCEPT ![t] = match'[t]]
             /\ \E key \in ToSet(list[t]) :
                   /\ match'[t] = [id |-> ids[key], key |-> BoundKey(kind, key)]
                   /\ key = call[t].key
                      \/ (kind = "source" /\ BoundKey(kind, key) = call[t].key)
                   /\ [id |-> ids[key], kind |-> kind, key |-> BoundKey(kind, key),
                       asked |-> key] \in issued'
  <2>1. match' = [match EXCEPT ![t] = Picked(kind, call[t].key, results)]
    BY <1>8 DEF Accepted, ids
  <2>2. match'[t] = Picked(kind, call[t].key, results) /\ match' = [match EXCEPT ![t] = match'[t]]
    BY <2>1 DEF TypeOK
  <2>3. list[t] # <<>> /\ Last(list[t]) = call[t].key
    BY <1>1, <1>8 DEF ArgsInv
  <2>4. PICK i \in 1..Len(list[t]) :
           IsResultOf(Picked(kind, call[t].key, results), kind, call[t].key, ids, list[t], i)
    <3>1. /\ boundTo \in [Keys -> Keys] /\ kind \in Kinds /\ call[t].key \in Keys
          /\ ids \in [Keys -> Nat] /\ list[t] \in Seq(Keys)
      BY <1>1, <1>2, <1>5
    <3>. QED
      BY <2>3, <3>1, PickedIsAResult, Zenon
  <2>5. list[t][i] \in ToSet(list[t])
    BY <1>1 DEF ToSet
  <2>6. PICK key \in ToSet(list[t]) : key = list[t][i]
    BY <2>5
  <2>7. /\ match'[t] = [id |-> ids[key], key |-> BoundKey(kind, key)]
        /\ key = call[t].key \/ (kind = "source" /\ BoundKey(kind, key) = call[t].key)
    BY <2>2, <2>4, <2>6, Zenon DEF IsResultOf
  <2>8. [id |-> ids[key], kind |-> kind, key |-> BoundKey(kind, key), asked |-> key] \in issued'
    BY <1>3, <2>6
  <2>. QED
    BY <2>2, <2>6, <2>7, <2>8
<1>9. call[t].op # "set" => match' = match
  BY DEF Accepted
<1>10. issued \subseteq issued'
  BY <1>3
<1>. QED
  BY <1>7, <1>8, <1>9, <1>10 DEF ids

\* Types, and what a handler knows at its place, are kept by every step.
LEMMA TypeInit == Init => TypeOK /\ ArgsInv
<1> SUFFICES ASSUME Init PROVE TypeOK /\ ArgsInv
  OBVIOUS
<1>1. NoLists \in [Kinds -> Seq(Keys)] /\ Nowhere \in [Kinds -> [Keys -> Nat]]
  BY DEF NoLists, Nowhere
<1>2. TypeOK
  BY <1>1 DEF Init, TypeOK, PCs, NoCall, AllRead
<1>3. ArgsInv
  BY DEF Init, ArgsInv, Working, Located
<1>. QED
  BY <1>2, <1>3

\* A step of a task leaves the others where they are.
LEMMA OthersStay ==
  ASSUME TypeOK, NEW t \in Tasks, NEW from, NEW to, Goto(t, from, to)
  PROVE  /\ pc[t] = from /\ pc'[t] = to
         /\ \A u \in Tasks : u # t => pc'[u] = pc[u]
BY DEF TypeOK, Goto

LEMMA TypeStep ==
  ASSUME TypeOK, ArgsInv, [Next]_vars
  PROVE  TypeOK' /\ ArgsInv'
<1>0. Cardinality(Keys) \in Nat /\ Keys \subseteq Nat
  BY FS_CardinalityType
<1>1. ASSUME NEW t \in Tasks, SetBreakpoint(t)
      PROVE  TypeOK' /\ ArgsInv'
  <2>1. PICK kind \in Kinds, key \in Keys :
           Begin(t, [op |-> "set", kind |-> kind, key |-> key, id |-> 0], {"idle", "stopped"}, "branch")
    BY <1>1 DEF SetBreakpoint
  <2> DEFINE c == [op |-> "set", kind |-> kind, key |-> key, id |-> 0]
  <2>2. /\ c \in [op : {"none", "set", "remove"}, kind : Kinds \cup {"none"},
                  key : Keys \cup {0}, id : Nat]
        /\ c.op = "set" /\ c.kind \in Kinds /\ c.key \in Keys
    BY <1>0, <2>1 DEF TypeOK
  <2>3. /\ call' = [call EXCEPT ![t] = c] /\ calls' = calls + 1
        /\ pc' = [pc EXCEPT ![t] = "branch"]
        /\ UNCHANGED <<overlap, state, trackVars, list, match, sentIn, adapterVars, historyVars>>
    BY <2>1 DEF Begin, Goto
  <2>. HIDE DEF c
  <2>4. /\ call' \in [Tasks -> [op : {"none", "set", "remove"}, kind : Kinds \cup {"none"},
                              key : Keys \cup {0}, id : Nat]]
        /\ pc' \in [Tasks -> PCs] /\ calls' \in Nat
    BY <2>2, <2>3 DEF TypeOK, PCs
  <2>5. TypeOK'
    BY <2>3, <2>4, SMTT(60) DEF TypeOK, trackVars, adapterVars, historyVars
  <2>6. ArgsInv'
    BY <2>2, <2>3 DEF ArgsInv, Working, Located, TypeOK, PCs, trackVars, taskVars, adapterVars, historyVars
  <2>. QED
    BY <2>5, <2>6
<1>2. ASSUME NEW t \in Tasks, RemoveBreakpoint(t)
      PROVE  TypeOK' /\ ArgsInv'
  <2>1. PICK id \in 1..(nextId - 1) :
           Begin(t, [op |-> "remove", kind |-> "none", key |-> 0, id |-> id], {"stopped"}, "peek")
    BY <1>2 DEF RemoveBreakpoint
  <2> DEFINE c == [op |-> "remove", kind |-> "none", key |-> 0, id |-> id]
  <2>2. /\ c \in [op : {"none", "set", "remove"}, kind : Kinds \cup {"none"},
                  key : Keys \cup {0}, id : Nat]
        /\ c.op = "remove"
    BY <1>0, <2>1 DEF TypeOK
  <2>3. /\ call' = [call EXCEPT ![t] = c] /\ calls' = calls + 1
        /\ pc' = [pc EXCEPT ![t] = "peek"]
        /\ UNCHANGED <<overlap, state, trackVars, list, match, sentIn, adapterVars, historyVars>>
    BY <2>1 DEF Begin, Goto
  <2>. HIDE DEF c
  <2>4. /\ call' \in [Tasks -> [op : {"none", "set", "remove"}, kind : Kinds \cup {"none"},
                              key : Keys \cup {0}, id : Nat]]
        /\ pc' \in [Tasks -> PCs] /\ calls' \in Nat
    BY <2>2, <2>3 DEF TypeOK, PCs
  <2>5. TypeOK'
    BY <2>3, <2>4, SMTT(60) DEF TypeOK, trackVars, adapterVars, historyVars
  <2>6. ArgsInv'
    BY <2>2, <2>3 DEF ArgsInv, Working, Located, TypeOK, PCs, trackVars, taskVars, adapterVars, historyVars
  <2>. QED
    BY <2>5, <2>6
<1>3. ASSUME NEW t \in Tasks, Branch(t)
      PROVE  TypeOK' /\ ArgsInv'
  <2>1. TypeOK'
    BY <1>3 DEF Branch, Goto, TypeOK, PCs, trackVars, taskVars, adapterVars, historyVars
  <2>2. ArgsInv'
    BY <1>3 DEF Branch, Goto, ArgsInv, Working, Located, TypeOK, PCs, trackVars, taskVars, adapterVars, historyVars
  <2>. QED
    BY <2>1, <2>2
<1>4. ASSUME NEW t \in Tasks, AddPending(t)
      PROVE  TypeOK' /\ ArgsInv'
  <2>1. call[t].kind \in Kinds /\ call[t].key \in Keys
    BY <1>4 DEF AddPending, Goto, ArgsInv, Working, Located
  <2> DEFINE l == Append(pending[call[t].kind], call[t].key)
  <2>7. pending \in [Kinds -> Seq(Keys)] /\ pending[call[t].kind] \in Seq(Keys)
    BY <2>1 DEF TypeOK
  <2>5. l \in Seq(Keys)
    BY <2>1, <2>7, AppendAdds
  <2>6. pending' = [pending EXCEPT ![call[t].kind] = l]
    BY <1>4 DEF AddPending
  <2>. HIDE DEF l
  <2>8. pending' \in [Kinds -> Seq(Keys)]
    BY <2>1, <2>5, <2>6, <2>7
  <2>9. pc' \in [Tasks -> PCs]
    BY <1>4 DEF AddPending, Goto, TypeOK, PCs
  <2>2. pending' \in [Kinds -> Seq(Keys)] /\ pc' \in [Tasks -> PCs]
    BY <2>8, <2>9
  <2>3. TypeOK'
    BY <1>4, <2>2 DEF AddPending, TypeOK, trackVars, taskVars, adapterVars, historyVars
  <2>4. ArgsInv'
    BY <1>4 DEF AddPending, Goto, ArgsInv, Working, Located, TypeOK, PCs, trackVars, taskVars, adapterVars, historyVars
  <2>. QED
    BY <2>3, <2>4
<1>5. ASSUME NEW t \in Tasks, ProposeSet(t)
      PROVE  TypeOK' /\ ArgsInv'
  <2>1. call[t].kind \in Kinds /\ call[t].key \in Keys /\ active[call[t].kind] \in Seq(Keys)
    BY <1>5 DEF ProposeSet, ArgsInv, Working, Located, TypeOK
  <2> DEFINE l == Append(active[call[t].kind], call[t].key)
  <2>2. l \in Seq(Keys) /\ l # <<>> /\ Last(l) = call[t].key
    BY <2>1, AppendAdds
  <2>3. list' = [list EXCEPT ![t] = l]
    BY <1>5 DEF ProposeSet, Send
  <2>. HIDE DEF l
  <2>4. /\ pc' = [pc EXCEPT ![t] = "sent"] /\ sentIn' = [sentIn EXCEPT ![t] = epoch]
        /\ UNCHANGED <<overlap, state, trackVars, call, match, adapterVars, calls, historyVars>>
    BY <1>5 DEF ProposeSet, Send
  <2>5. /\ list' \in [Tasks -> Seq(Keys)] /\ pc' \in [Tasks -> PCs]
        /\ sentIn' \in [Tasks -> Nat]
    BY <2>2, <2>3, <2>4 DEF TypeOK, PCs
  <2>6. TypeOK'
    BY <2>4, <2>5 DEF TypeOK, trackVars, adapterVars, historyVars
  <2>7. call[t].op = "set"
    BY <1>5 DEF ProposeSet, ArgsInv, Working
  <2>8. list'[t] = l /\ \A u \in Tasks : u # t => list'[u] = list[u] /\ pc'[u] = pc[u]
    BY <2>3, <2>4 DEF TypeOK
  <2>9. pc'[t] = "sent" /\ call' = call /\ match' = match /\ nextId' = nextId
    BY <2>4 DEF TypeOK, adapterVars
  <2>10. ArgsInv'
    BY <2>1, <2>2, <2>7, <2>8, <2>9 DEF ArgsInv, Working, Located
  <2>. QED
    BY <2>6, <2>10
<1>6. ASSUME NEW t \in Tasks, ProposeRemove(t)
      PROVE  TypeOK' /\ ArgsInv'
  <2>1. call[t].kind \in Kinds /\ call[t].key \in Keys /\ active[call[t].kind] \in Seq(Keys)
    BY <1>6 DEF ProposeRemove, ArgsInv, Located, TypeOK
  <2> DEFINE l == Remaining(t)
  <2>2. l \in Seq(Keys)
    BY <2>1, RemoveFirstKeeps DEF Remaining
  <2>3. list' = [list EXCEPT ![t] = l]
    BY <1>6 DEF ProposeRemove, Send
  <2>. HIDE DEF l
  <2>4. /\ pc' = [pc EXCEPT ![t] = "sent"] /\ sentIn' = [sentIn EXCEPT ![t] = epoch]
        /\ UNCHANGED <<overlap, state, trackVars, call, match, adapterVars, calls, historyVars>>
    BY <1>6 DEF ProposeRemove, Send
  <2>5. /\ list' \in [Tasks -> Seq(Keys)] /\ pc' \in [Tasks -> PCs]
        /\ sentIn' \in [Tasks -> Nat]
    BY <2>2, <2>3, <2>4 DEF TypeOK, PCs
  <2>6. TypeOK'
    BY <2>4, <2>5 DEF TypeOK, trackVars, adapterVars, historyVars
  <2>7. call[t].op = "remove"
    BY <1>6 DEF ProposeRemove, ArgsInv
  <2>8. \A u \in Tasks : u # t => list'[u] = list[u] /\ pc'[u] = pc[u]
    BY <2>3, <2>4 DEF TypeOK
  <2>9. pc'[t] = "sent" /\ call' = call /\ match' = match /\ nextId' = nextId
    BY <2>4 DEF TypeOK, adapterVars
  <2>10. ArgsInv'
    BY <2>1, <2>7, <2>8, <2>9 DEF ArgsInv, Working, Located
  <2>. QED
    BY <2>6, <2>10
<1>18. ASSUME NEW t \in Tasks, Peek(t)
      PROVE  TypeOK' /\ ArgsInv'
  <2>1. PICK b \in info :
           call' = [call EXCEPT ![t] = [op |-> "remove", kind |-> b.kind, key |-> b.key, id |-> b.id]]
    BY <1>18 DEF Peek
  <2> DEFINE c == [op |-> "remove", kind |-> b.kind, key |-> b.key, id |-> b.id]
  <2>2. /\ c \in [op : {"none", "set", "remove"}, kind : Kinds \cup {"none"},
                  key : Keys \cup {0}, id : Nat]
        /\ c.op = "remove" /\ c.kind \in Kinds /\ c.key \in Keys
    BY DEF TypeOK
  <2>3. call' = [call EXCEPT ![t] = c]
    BY <2>1
  <2>4. /\ pc' = [pc EXCEPT ![t] = "fetch"]
        /\ UNCHANGED <<overlap, state, trackVars, list, match, sentIn, adapterVars, calls,
                       historyVars>>
    BY <1>18 DEF Peek, Goto
  <2>. HIDE DEF c
  <2>5. /\ call' \in [Tasks -> [op : {"none", "set", "remove"}, kind : Kinds \cup {"none"},
                              key : Keys \cup {0}, id : Nat]]
        /\ pc' \in [Tasks -> PCs]
    BY <2>2, <2>3, <2>4 DEF TypeOK, PCs
  <2>6. TypeOK'
    BY <2>4, <2>5 DEF TypeOK, trackVars, adapterVars, historyVars
  <2>7. /\ pc'[t] = "fetch" /\ call'[t] = c
        /\ \A u \in Tasks : u # t => pc'[u] = pc[u] /\ call'[u] = call[u]
    BY <2>3, <2>4 DEF TypeOK
  <2>8. ArgsInv'
    BY <2>2, <2>4, <2>7 DEF ArgsInv, Working, Located, adapterVars
  <2>. QED
    BY <2>6, <2>8
<1>19. ASSUME NEW t \in Tasks, NoBackend(t)
      PROVE  TypeOK' /\ ArgsInv'
  <2>1. TypeOK'
    BY <1>19 DEF NoBackend, Goto, TypeOK, PCs, trackVars, taskVars, adapterVars, historyVars
  <2>2. ArgsInv'
    BY <1>19 DEF NoBackend, Goto, ArgsInv, Working, Located, TypeOK, PCs, trackVars, taskVars, adapterVars, historyVars
  <2>. QED
    BY <2>1, <2>2
<1>20. ASSUME NEW t \in Tasks, Malformed(t)
      PROVE  TypeOK' /\ ArgsInv'
  <2>1. /\ call[t].kind \in Kinds /\ nextId' \in Nat /\ nextId' >= 1
        /\ installed' \in [Kinds -> [Keys -> Nat]]
    BY <1>20, ReplaceFacts DEF Malformed
  <2>2. garbled' \in [Kinds -> {"never", "last", "earlier"}]
    BY <1>20, <2>1 DEF Malformed, TypeOK
  <2>3. TypeOK'
    BY <1>20, <2>1, <2>2 DEF Malformed, TypeOK, PCs, trackVars, taskVars
  <2>4. ArgsInv'
    BY <1>20, <2>1 DEF Malformed, ArgsInv, Working, Located, TypeOK, trackVars, taskVars
  <2>. QED
    BY <2>3, <2>4
<1>7. ASSUME NEW t \in Tasks, RemoveUnknown(t)
      PROVE  TypeOK' /\ ArgsInv'
  <2>1. TypeOK'
    BY <1>7 DEF RemoveUnknown, Goto, TypeOK, PCs, trackVars, taskVars, adapterVars, historyVars
  <2>2. ArgsInv'
    BY <1>7 DEF RemoveUnknown, Goto, ArgsInv, Working, Located, TypeOK, PCs, trackVars, taskVars, adapterVars, historyVars
  <2>. QED
    BY <2>1, <2>2
<1>8. ASSUME NEW t \in Tasks, CommitList(t)
      PROVE  TypeOK' /\ ArgsInv'
  <2>1. call[t].kind \in Kinds /\ call[t].key \in Keys
    BY <1>8 DEF CommitList, Goto, ArgsInv, Working, Located
  <2> DEFINE l == Append(active[call[t].kind], call[t].key)
  <2>7. active \in [Kinds -> Seq(Keys)] /\ active[call[t].kind] \in Seq(Keys)
    BY <2>1 DEF TypeOK
  <2>5. l \in Seq(Keys)
    BY <2>1, <2>7, AppendAdds
  <2>6. active' = [active EXCEPT ![call[t].kind] = l]
    BY <1>8 DEF CommitList
  <2>. HIDE DEF l
  <2>8. active' \in [Kinds -> Seq(Keys)]
    BY <2>1, <2>5, <2>6, <2>7
  <2>9. pc' \in [Tasks -> PCs]
    BY <1>8 DEF CommitList, Goto, TypeOK, PCs
  <2>2. active' \in [Kinds -> Seq(Keys)] /\ pc' \in [Tasks -> PCs]
    BY <2>8, <2>9
  <2>3. TypeOK'
    BY <1>8, <2>2 DEF CommitList, TypeOK, trackVars, taskVars, adapterVars, historyVars
  <2>4. ArgsInv'
    BY <1>8 DEF CommitList, Goto, ArgsInv, Working, Located, TypeOK, PCs, trackVars, taskVars, adapterVars, historyVars
  <2>. QED
    BY <2>3, <2>4
<1>9. ASSUME NEW t \in Tasks, CommitInfo(t)
      PROVE  TypeOK' /\ ArgsInv'
  <2>1. /\ match[t].key \in Keys /\ match[t].id \in Nat
        /\ call[t].kind \in Kinds /\ call[t].key \in Keys
    BY <1>9 DEF CommitInfo, Goto, ArgsInv, Working, Located, TypeOK
  <2>2. info' \subseteq [id : Nat, kind : Kinds, key : Keys]
    BY <1>9, <2>1 DEF CommitInfo, TypeOK
  <2>5. asked' \subseteq [id : Nat, key : Keys]
    BY <1>9, <2>1 DEF CommitInfo, TypeOK
  <2>3. TypeOK'
    BY <1>9, <2>2, <2>5 DEF CommitInfo, Goto, TypeOK, PCs, trackVars, taskVars, adapterVars, historyVars
  <2>4. ArgsInv'
    BY <1>9 DEF CommitInfo, Goto, ArgsInv, Working, Located, TypeOK, PCs, trackVars, taskVars, adapterVars, historyVars
  <2>. QED
    BY <2>3, <2>4
<1>10. ASSUME NEW t \in Tasks, CommitRemove(t)
      PROVE  TypeOK' /\ ArgsInv'
  <2>1. \A b \in info :
          b.kind \in Kinds /\ b.id \in Nat /\ RemoveFirst(active[b.kind], b.key) \in Seq(Keys)
    BY RemoveFirstKeeps DEF TypeOK
  <2>2. active' \in [Kinds -> Seq(Keys)] /\ removed' \subseteq Nat /\ info' \subseteq info
    <3>1. CASE \A b \in info : b.id # call[t].id
      BY <1>10, <3>1 DEF CommitRemove, TypeOK
    <3>2. CASE \E b \in info : b.id = call[t].id
      <4>1. PICK b \in info :
               /\ active' = [active EXCEPT ![b.kind] = RemoveFirst(@, b.key)]
               /\ info' = info \ {b}
               /\ removed' = removed \cup {b.id}
        BY <1>10, <3>2 DEF CommitRemove
      <4>2. active' = [active EXCEPT ![b.kind] = RemoveFirst(active[b.kind], b.key)]
        BY <4>1, <2>1 DEF TypeOK
      <4> DEFINE l == RemoveFirst(active[b.kind], b.key)
      <4>3. l \in Seq(Keys) /\ b.kind \in Kinds /\ b.id \in Nat
        BY <2>1
      <4>. HIDE DEF l
      <4>4. active' = [active EXCEPT ![b.kind] = l]
        BY <4>2 DEF l
      <4>5. active' \in [Kinds -> Seq(Keys)]
        BY <4>3, <4>4 DEF TypeOK
      <4>. QED
        BY <4>1, <4>3, <4>5 DEF TypeOK
    <3>. QED
      BY <3>1, <3>2
  <2>3. TypeOK'
    BY <1>10, <2>2 DEF CommitRemove, Goto, TypeOK, PCs, trackVars, taskVars, adapterVars, historyVars
  <2>4. ArgsInv'
    BY <1>10 DEF CommitRemove, Goto, ArgsInv, Working, Located, TypeOK, PCs, trackVars, taskVars, adapterVars, historyVars
  <2>. QED
    BY <2>3, <2>4
<1>11. ASSUME NEW t \in Tasks, Accepted(t)
      PROVE  TypeOK' /\ ArgsInv'
  <2> DEFINE kind == call[t].kind
             ids  == NewIds(kind, list[t])
  <2>0. Replace(t)
    BY <1>11 DEF Accepted
  <2>1. /\ kind \in Kinds /\ ids \in [Keys -> Nat]
        /\ installed' \in [Kinds -> [Keys -> Nat]]
        /\ issued' \subseteq [id : Nat, kind : Kinds, key : Keys, asked : Keys]
    BY <1>11, <2>0, AcceptedFacts, ReplaceFacts
  <2>2. /\ call[t].op = "set" =>
             /\ match' = [match EXCEPT ![t] = match'[t]]
             /\ match'[t] \in [id : Nat, key : Keys]
        /\ call[t].op # "set" => match' = match
    <3>1. call[t].op # "set" => match' = match
      BY <1>11, AcceptedFacts
    <3>2. ASSUME call[t].op = "set"
          PROVE  /\ match' = [match EXCEPT ![t] = match'[t]]
                 /\ match'[t] \in [id : Nat, key : Keys]
      <4>1. match' = [match EXCEPT ![t] = match'[t]]
        BY <1>11, <3>2, AcceptedFacts
      <4>2. PICK key \in ToSet(list[t]) :
               match'[t] = [id |-> ids[key], key |-> BoundKey(kind, key)]
        BY <1>11, <3>2, AcceptedFacts
      <4>3. key \in Keys /\ BoundKey(kind, key) \in Keys
        BY DEF TypeOK, ToSet, BoundKey
      <4>. QED
        BY <2>1, <4>1, <4>2, <4>3
    <3>. QED
      BY <3>1, <3>2
  <2>. HIDE DEF ids
  <2>3. nextId' \in Nat /\ nextId' >= 1
    BY <2>0, ReplaceFacts
  <2>4. call[t].op \in {"set", "remove"} /\ call[t].key \in Keys
    BY <2>0 DEF Replace, ArgsInv, Located
  <2>5. match' \in [Tasks -> [id : Nat, key : Keys \cup {0}]]
    BY <2>2 DEF TypeOK
  <2>8. garbled' \in [Kinds -> {"never", "last", "earlier"}]
    BY <1>11, <2>1 DEF Accepted, TypeOK
  <2>6. TypeOK'
    BY <1>11, <2>1, <2>3, <2>5, <2>8 DEF Accepted, TypeOK, PCs, trackVars
  <2>7. ArgsInv'
    BY <1>11, <2>1, <2>2, <2>3, <2>4 DEF Accepted, ArgsInv, Working, Located, TypeOK, PCs, trackVars
  <2>. QED
    BY <2>6, <2>7
<1>12. ASSUME NEW t \in Tasks, Rejected(t)
      PROVE  TypeOK' /\ ArgsInv'
  <2>1. TypeOK'
    BY <1>12 DEF Rejected, Goto, TypeOK, PCs, trackVars, taskVars, adapterVars, historyVars
  <2>2. ArgsInv'
    BY <1>12 DEF Rejected, Goto, ArgsInv, Working, Located, TypeOK, PCs, trackVars, taskVars, adapterVars, historyVars
  <2>. QED
    BY <2>1, <2>2
<1>13. ASSUME Launch
      PROVE  TypeOK' /\ ArgsInv'
  <2>1. active' \in [Kinds -> Seq(Keys)] /\ pending' \in [Kinds -> Seq(Keys)]
    BY <1>13, ConcatJoins DEF Launch, TypeOK, NoLists
  <2>2. TypeOK'
    BY <1>13, <2>1 DEF Launch, TypeOK, PCs, Nowhere, AllRead, trackVars, taskVars, adapterVars, historyVars
  <2>3. ArgsInv'
    BY <1>13 DEF Launch, ArgsInv, Working, Located, trackVars, taskVars, adapterVars, historyVars
  <2>. QED
    BY <2>2, <2>3
<1>14. ASSUME Launched
      PROVE  TypeOK' /\ ArgsInv'
  <2>1. nextId' \in Nat /\ nextId' >= 1
    BY <1>0, <1>14 DEF Launched, TypeOK, ArgsInv
  <2>2. installed' \in [Kinds -> [Keys -> Nat]]
    <3> SUFFICES ASSUME NEW kind \in Kinds PROVE installed'[kind] \in [Keys -> Nat]
      BY <1>14 DEF Launched
    <3>1. CASE flushed \cap ({kind} \X Keys) = {}
      BY <1>14, <3>1 DEF Launched, TypeOK
    <3>2. CASE flushed \cap ({kind} \X Keys) # {}
      <4>1. installed'[kind] = [key \in Keys |->
                  CASE <<kind, key>> \notin flushed -> 0
                    [] <<kind, key>> \in flushed /\ installed[kind][key] # 0 ->
                         installed[kind][key]
                    [] OTHER -> nextId + 2 * key + (IF kind = "source" THEN 0 ELSE 1)]
        BY <1>14, <3>2 DEF Launched
      <4> SUFFICES ASSUME NEW key \in Keys PROVE installed'[kind][key] \in Nat
        BY <4>1
      <4>2. key \in Nat /\ installed[kind][key] \in Nat /\ nextId \in Nat
        BY <1>0 DEF TypeOK
      <4>. QED
        BY <4>1, <4>2
    <3>. QED
      BY <3>1, <3>2
  <2>3. TypeOK'
    BY <1>14, <2>1, <2>2 DEF Launched, TypeOK, PCs, trackVars, taskVars, adapterVars, historyVars
  <2>4. ArgsInv'
    BY <1>14, <2>1 DEF Launched, ArgsInv, Working, Located, trackVars, taskVars, adapterVars, historyVars
  <2>. QED
    BY <2>3, <2>4
<1>15. ASSUME Attached
      PROVE  TypeOK' /\ ArgsInv'
  <2>1. TypeOK'
    BY <1>15 DEF Attached, Nowhere, TypeOK, PCs, AllRead, trackVars, taskVars, adapterVars, historyVars
  <2>2. ArgsInv'
    BY <1>15 DEF Attached, Nowhere, ArgsInv, Working, Located, TypeOK, PCs, trackVars, taskVars, adapterVars, historyVars
  <2>. QED
    BY <2>1, <2>2
<1>16. ASSUME Reset
      PROVE  TypeOK' /\ ArgsInv'
  <2>1. TypeOK'
    BY <1>16 DEF Reset, Nowhere, NoLists, TypeOK, PCs, AllRead, trackVars, taskVars, adapterVars, historyVars
  <2>2. ArgsInv'
    BY <1>16 DEF Reset, Nowhere, NoLists, ArgsInv, Working, Located, TypeOK, PCs, trackVars, taskVars, adapterVars, historyVars
  <2>. QED
    BY <2>1, <2>2
<1>17. CASE UNCHANGED vars
  <2>1. TypeOK'
    BY <1>17 DEF vars, TypeOK, trackVars, taskVars, adapterVars, historyVars
  <2>2. ArgsInv'
    BY <1>17 DEF vars, ArgsInv, Working, Located, trackVars, taskVars, adapterVars, historyVars
  <2>. QED
    BY <2>1, <2>2
<1>. QED
  BY <1>1, <1>2, <1>3, <1>4, <1>5, <1>6, <1>7, <1>8, <1>9, <1>10, <1>11, <1>12, <1>13, <1>14, <1>15, <1>16, <1>17, <1>18, <1>19, <1>20, Zenon DEF Next

\* Every variable stays within its type: the tool handlers, the tables of
\* SessionManager and the adapter's breakpoints.
THEOREM TypeCorrect == Spec => []TypeOK
<1>1. Init => TypeOK /\ ArgsInv
  BY TypeInit
<1>2. (TypeOK /\ ArgsInv) /\ [Next]_vars => (TypeOK /\ ArgsInv)'
  BY TypeStep
<1>. QED
  BY <1>1, <1>2, PTL DEF Spec

----------------------------------------------------------------------------
(* What is listed *)

\* Records of commits that were under way before a step stay as they were.
LEMMA IssuedKept ==
  ASSUME IssuedInv, info' \subseteq info, asked' = asked, issued \subseteq issued',
         \A u \in Tasks : pc'[u] \in {"commitList", "commitInfo"} =>
           /\ pc[u] \in {"commitList", "commitInfo"}
           /\ call'[u] = call[u] /\ match'[u] = match[u]
  PROVE  IssuedInv'
<1>1. \A r : r \in issued => r \in issued'
  OBVIOUS
<1>2. ListedIdIsItsOwn'
  BY <1>1 DEF IssuedInv, ListedIdIsItsOwn, GivenFor
<1>3. ASSUME NEW u \in Tasks, pc'[u] \in {"commitList", "commitInfo"}
      PROVE  GivenFor(Recorded(u), call[u].key)'
  <2>1. Recorded(u)' = Recorded(u) /\ call'[u].key = call[u].key
    BY <1>3 DEF Recorded
  <2>2. GivenFor(Recorded(u), call[u].key)
    BY <1>3 DEF IssuedInv
  <2>. QED
    BY <1>1, <2>1, <2>2 DEF GivenFor
<1>. QED
  BY <1>2, <1>3 DEF IssuedInv

LEMMA IssuedStep ==
  ASSUME TypeOK, ArgsInv, IssuedInv, [Next]_vars
  PROVE  IssuedInv'
<1>1. ASSUME NEW t \in Tasks, Moves(t) \/ CommitRemove(t) \/ Malformed(t)
      PROVE  IssuedInv'
  <2>1. info' \subseteq info /\ issued' = issued /\ asked' = asked /\ match' = match
    BY <1>1 DEF Moves, SetBreakpoint, Begin, Branch, AddPending, ProposeSet, Send,
                RemoveBreakpoint, Peek, ProposeRemove, RemoveUnknown, NoBackend, CommitRemove,
                Malformed, Rejected, trackVars, taskVars, historyVars
  <2>2. /\ pc'[t] \notin {"commitList", "commitInfo"}
        /\ \A u \in Tasks : u # t => pc'[u] = pc[u] /\ call'[u] = call[u]
    BY <1>1 DEF Moves, SetBreakpoint, Begin, Goto, Branch, AddPending, ProposeSet, Send,
                RemoveBreakpoint, Peek, ProposeRemove, RemoveUnknown, NoBackend, CommitRemove,
                Malformed, Rejected, taskVars, TypeOK
  <2>. QED
    BY <2>1, <2>2, IssuedKept
<1>2. ASSUME NEW t \in Tasks, CommitList(t)
      PROVE  IssuedInv'
  <2>1. info' = info /\ issued' = issued /\ asked' = asked /\ match' = match /\ call' = call
    BY <1>2 DEF CommitList, taskVars, historyVars
  <2>2. pc[t] = "commitList" /\ \A u \in Tasks : u # t => pc'[u] = pc[u]
    BY <1>2 DEF CommitList, Goto, TypeOK
  <2>. QED
    BY <2>1, <2>2, IssuedKept
<1>3. ASSUME NEW t \in Tasks, CommitInfo(t)
      PROVE  IssuedInv'
  <2>1. issued' = issued /\ match' = match /\ call' = call
    BY <1>3 DEF CommitInfo, taskVars, historyVars
  <2>2. pc[t] = "commitInfo" /\ pc'[t] = "free" /\ \A u \in Tasks : u # t => pc'[u] = pc[u]
    BY <1>3 DEF CommitInfo, Goto, TypeOK
  <2>3. /\ info' = {b \in info : b.id # match[t].id} \cup {Recorded(t)}
        /\ Recorded(t).id = match[t].id
    BY <1>3 DEF CommitInfo, Recorded
  <2>4. asked' = {a \in asked : a.id # match[t].id} \cup
                   [id : {match[t].id}, key : {call[t].key}]
    BY <1>3 DEF CommitInfo
  <2>5. GivenFor(Recorded(t), call[t].key)
    BY <2>2 DEF IssuedInv
  <2>6. ASSUME NEW b \in info'
        PROVE  \E a \in asked' : a.id = b.id /\ GivenFor(b, a.key)'
    <3>1. CASE b \in info /\ b.id # match[t].id
      <4>1. PICK a \in asked : a.id = b.id /\ GivenFor(b, a.key)
        BY <3>1 DEF IssuedInv, ListedIdIsItsOwn
      <4>2. a \in asked'
        BY <2>4, <3>1, <4>1
      <4>. QED
        BY <2>1, <4>1, <4>2 DEF GivenFor
    <3>2. CASE b = Recorded(t)
      <4> DEFINE a == [id |-> match[t].id, key |-> call[t].key]
      <4>1. a \in asked' /\ a.id = b.id /\ a.key = call[t].key
        BY <2>3, <2>4, <3>2
      <4>. HIDE DEF a
      <4>. QED
        BY <2>1, <2>5, <3>2, <4>1 DEF GivenFor
    <3>. QED
      BY <2>3, <3>1, <3>2
  <2>7. ListedIdIsItsOwn'
    BY <2>6 DEF ListedIdIsItsOwn
  <2>8. ASSUME NEW u \in Tasks, pc'[u] \in {"commitList", "commitInfo"}
        PROVE  GivenFor(Recorded(u), call[u].key)'
    <3>1. Recorded(u)' = Recorded(u) /\ call'[u].key = call[u].key
      BY <2>1 DEF Recorded
    <3>2. GivenFor(Recorded(u), call[u].key)
      BY <2>2, <2>8 DEF IssuedInv
    <3>. QED
      BY <2>1, <3>1, <3>2 DEF GivenFor
  <2>. QED
    BY <2>7, <2>8 DEF IssuedInv
<1>4. ASSUME NEW t \in Tasks, Accepted(t)
      PROVE  IssuedInv'
  <2>1. info' = info /\ asked' = asked /\ call' = call /\ issued \subseteq issued'
    BY <1>4, AcceptedFacts DEF Accepted, trackVars
  <2>2. /\ pc[t] = "sent" /\ \A u \in Tasks : u # t => pc'[u] = pc[u]
        /\ pc'[t] \in {"commitList", "commitInfo"} => call[t].op = "set"
    BY <1>4 DEF Accepted, Replace, TypeOK
  <2>3. \A u \in Tasks : u # t => match'[u] = match[u]
    <3>1. CASE call[t].op = "set"
      <4>1. match' = [match EXCEPT ![t] = match'[t]]
        BY <1>4, <3>1, AcceptedFacts
      <4>. QED
        BY <4>1 DEF TypeOK
    <3>2. CASE call[t].op # "set"
      BY <1>4, <3>2, AcceptedFacts
    <3>. QED
      BY <3>1, <3>2
  <2>4. ASSUME call[t].op = "set"
        PROVE  GivenFor(Recorded(t), call[t].key)'
    <3> DEFINE kind == call[t].kind
               ids  == NewIds(kind, list[t])
               bound(k) == BoundKey(kind, k)
               r(k) == [id |-> ids[k], kind |-> kind, key |-> bound(k), asked |-> k]
    <3>1. PICK key \in ToSet(list[t]) :
             /\ match'[t] = [id |-> ids[key], key |-> bound(key)]
             /\ key = call[t].key \/ (kind = "source" /\ bound(key) = call[t].key)
             /\ r(key) \in issued'
      BY <1>4, <2>4, AcceptedFacts
    <3>2. kind # "source" => bound(key) = key
      BY DEF BoundKey
    <3>3. Recorded(t)' = [id |-> ids[key], kind |-> kind, key |-> bound(key)]
      <4>1. match'[t].id = ids[key] /\ match'[t].key = bound(key)
        BY <3>1
      <4>. HIDE DEF ids, bound
      <4>. QED
        BY <2>1, <3>1, <3>2, <4>1 DEF Recorded
    <3>. HIDE DEF ids, bound
    <3>4. /\ r(key).id = ids[key] /\ r(key).kind = kind
          /\ r(key).key = bound(key) /\ r(key).asked = key
      OBVIOUS
    <3>5. /\ Recorded(t)'.id = ids[key] /\ Recorded(t)'.kind = kind
          /\ Recorded(t)'.key = bound(key)
      BY <3>3
    <3>. HIDE DEF r
    <3>. QED
      BY <2>1, <3>1, <3>4, <3>5 DEF GivenFor
  <2>5. ListedIdIsItsOwn'
    BY <2>1 DEF IssuedInv, ListedIdIsItsOwn, GivenFor
  <2>6. ASSUME NEW u \in Tasks, u # t, pc'[u] \in {"commitList", "commitInfo"}
        PROVE  GivenFor(Recorded(u), call[u].key)'
    <3>1. Recorded(u)' = Recorded(u) /\ call'[u].key = call[u].key
      BY <2>1, <2>3, <2>6 DEF Recorded
    <3>2. GivenFor(Recorded(u), call[u].key)
      BY <2>2, <2>6 DEF IssuedInv
    <3>. QED
      BY <2>1, <3>1, <3>2 DEF GivenFor
  <2>. QED
    BY <2>2, <2>4, <2>5, <2>6 DEF IssuedInv
<1>5. CASE Launch \/ Launched \/ Attached \/ Reset \/ UNCHANGED vars
  BY <1>5, IssuedKept DEF Launch, Launched, Attached, Reset, vars, trackVars, taskVars, historyVars
<1>. QED
  BY <1>1, <1>2, <1>3, <1>4, <1>5, Zenon DEF Next, Moves

\* A listed id is the one the adapter gave out for the line or name its own call
\* had asked for, or for a breakpoint it had moved to that line: the list a set
\* call sends ends in what it asks for, and of the response it picks either the
\* last result or the first one on its line, whatever other calls, launches and
\* disconnects do in between.
THEOREM ListedIsIssued == Spec => []ListedIdIsItsOwn
<1>1. Init => TypeOK /\ ArgsInv /\ IssuedInv
  <2>1. Init => IssuedInv
    BY DEF Init, IssuedInv, ListedIdIsItsOwn
  <2>. QED
    BY <2>1, TypeInit
<1>2. (TypeOK /\ ArgsInv /\ IssuedInv) /\ [Next]_vars => (TypeOK /\ ArgsInv /\ IssuedInv)'
  BY TypeStep, IssuedStep
<1>3. IssuedInv => ListedIdIsItsOwn
  BY DEF IssuedInv, ListedIdIsItsOwn
<1>. QED
  BY <1>1, <1>2, <1>3, PTL DEF Spec

----------------------------------------------------------------------------
(* Tables and adapter, one call at a time *)

Commits == {"commitList", "commitRemove"}

\* The session's tables and what the adapter has installed.
liveVars == <<state, active, info, installed, flushed, garbled>>

\* While one task's call is under way, no other's is.
LEMMA OthersFree ==
  ASSUME OneCall, NEW t \in Tasks, pc[t] # "free", NEW u \in Tasks, u # t
  PROVE  pc[u] = "free"
BY DEF OneCall

\* A step that only moves calls about keeps the agreement.
LEMMA LiveKept ==
  ASSUME SerialInv, ~overlap, UNCHANGED liveVars,
         \A u \in Tasks : pc[u] \notin Commits /\ pc'[u] \notin Commits
  PROVE  NotLive' /\ TrackedBut'
<1>1. NotLive'
  BY DEF SerialInv, NotLive, liveVars
<1>2. \A kind \in Kinds : InstalledKeys(kind)' = InstalledKeys(kind)
  BY DEF InstalledKeys, liveVars
<1>3. TrackedBut'
  BY <1>2 DEF SerialInv, TrackedBut, liveVars, Commits
<1>. QED
  BY <1>1, <1>3

\* Such a step leaves tables, adapter and the other handlers alone.
LEMMA MovesAlone ==
  ASSUME TypeOK, ArgsInv, SerialInv, ~overlap, NEW t \in Tasks,
         Moves(t)
  PROVE  /\ UNCHANGED liveVars
         /\ \A u \in Tasks : u # t => pc[u] = "free" /\ pc'[u] = "free"
         /\ pc[t] \notin Commits /\ pc'[t] \notin Commits
         /\ pc'[t] # "commitInfo"
         /\ state = "idle" => pc'[t] \in {"free", "branch", "pend"}
         /\ state = "configuring" => pc'[t] = "free"
         /\ state = "stopped" => pc'[t] # "pend"
<1>1. UNCHANGED liveVars
  BY DEF Moves, Peek, NoBackend, SetBreakpoint, Begin, Branch, AddPending, ProposeSet, Send, RemoveBreakpoint,
         ProposeRemove, RemoveUnknown, Rejected, liveVars, trackVars, adapterVars, historyVars
<1>2. \A u \in Tasks : u # t => pc[u] = "free" /\ pc'[u] = "free"
  <2>1. \A u \in Tasks : u # t => pc'[u] = pc[u]
    BY DEF Moves, Peek, NoBackend, SetBreakpoint, Begin, Goto, Branch, AddPending, ProposeSet, Send, RemoveBreakpoint,
           ProposeRemove, RemoveUnknown, Rejected, TypeOK
  <2>2. CASE SetBreakpoint(t) \/ RemoveBreakpoint(t)
    BY <2>1, <2>2 DEF SetBreakpoint, RemoveBreakpoint, Begin, Admitted
  <2>3. CASE ~(SetBreakpoint(t) \/ RemoveBreakpoint(t))
    <3>1. pc[t] # "free"
      BY <2>3 DEF Moves, Peek, NoBackend, Branch, AddPending, ProposeSet, ProposeRemove, RemoveUnknown, Rejected, Goto
    <3>. QED
      BY <2>1, <3>1, OthersFree DEF SerialInv
  <2>. QED
    BY <2>2, <2>3
<1>3. /\ pc[t] \notin Commits /\ pc'[t] \notin Commits
      /\ pc'[t] # "commitInfo"
      /\ state = "idle" => pc'[t] \in {"free", "branch", "pend"}
      /\ state = "configuring" => pc'[t] = "free"
      /\ state = "stopped" => pc'[t] # "pend"
  <2>1. /\ state = "idle" => pc[t] \in {"free", "branch", "pend"}
        /\ state = "configuring" => pc[t] = "free"
        /\ state = "stopped" => pc[t] # "pend"
    BY DEF SerialInv, OneCall
  <2>. QED
    BY <2>1 DEF Moves, Peek, NoBackend, SetBreakpoint, Begin, Goto, Branch, AddPending, ProposeSet, Send,
                RemoveBreakpoint, ProposeRemove, RemoveUnknown, Rejected, TypeOK, Commits
<1>. QED
  BY <1>1, <1>2, <1>3

LEMMA SerialMoves ==
  ASSUME TypeOK, ArgsInv, SerialInv, ~overlap, NEW t \in Tasks,
         Moves(t)
  PROVE  SerialInv'
<1>1. UNCHANGED liveVars
  BY MovesAlone
<1>2. \A u \in Tasks : u # t => pc[u] = "free" /\ pc'[u] = "free"
  BY MovesAlone
<1>3. /\ pc[t] \notin Commits /\ pc'[t] \notin Commits
      /\ state = "idle" => pc'[t] \in {"free", "branch", "pend"}
      /\ state = "configuring" => pc'[t] = "free"
      /\ state = "stopped" => pc'[t] # "pend"
  BY MovesAlone
<1>4. OneCall'
  BY <1>1, <1>2, <1>3 DEF OneCall, liveVars
<1>5. NotLive' /\ TrackedBut'
  <2>1. \A u \in Tasks : pc[u] \notin Commits /\ pc'[u] \notin Commits
    BY <1>2, <1>3 DEF Commits
  <2>. QED
    BY <1>1, <2>1, LiveKept
<1>6. ASSUME pc'[t] = "sent"
      PROVE  LET kind == call'[t].kind
                 key  == call'[t].key IN
             /\ list'[t] = IF call'[t].op = "set" THEN Append(active[kind], key)
                           ELSE RemoveFirst(active[kind], key)
             /\ call'[t].op = "remove" =>
                  [id |-> call'[t].id, kind |-> kind, key |-> key] \in info
  <2>1. CASE ProposeSet(t)
    <3>1. call[t].op = "set" /\ call' = call
      BY <2>1 DEF ProposeSet, Send, ArgsInv, Working
    <3>2. list'[t] = Append(active[call[t].kind], call[t].key)
      BY <2>1 DEF ProposeSet, Send, TypeOK
    <3>. QED
      BY <3>1, <3>2
  <2>2. CASE ProposeRemove(t)
    <3>1. call[t].op = "remove" /\ call' = call /\ pc[t] = "fetch"
      BY <2>2 DEF ProposeRemove, Send, ArgsInv
    <3>2. list'[t] = RemoveFirst(active[call[t].kind], call[t].key)
      BY <2>2 DEF ProposeRemove, Send, Remaining, TypeOK
    <3>3. [id |-> call[t].id, kind |-> call[t].kind, key |-> call[t].key] \in info
      BY <3>1 DEF SerialInv, RemovalKnown
    <3>. QED
      BY <3>1, <3>2, <3>3
  <2>3. CASE ~(ProposeSet(t) \/ ProposeRemove(t))
    BY <1>6, <2>3 DEF Moves, SetBreakpoint, Begin, Goto, Branch, AddPending, RemoveBreakpoint,
                      Peek, RemoveUnknown, NoBackend, Rejected, TypeOK
  <2>. QED
    BY <2>1, <2>2, <2>3
<1>8. ASSUME pc'[t] = "fetch"
      PROVE  [id |-> call'[t].id, kind |-> call'[t].kind, key |-> call'[t].key] \in info
  <2>1. Peek(t)
    BY <1>8 DEF Moves, SetBreakpoint, Begin, Goto, Branch, AddPending, ProposeSet, Send,
                RemoveBreakpoint, ProposeRemove, RemoveUnknown, NoBackend, Rejected, TypeOK
  <2>2. PICK b \in info :
           call' = [call EXCEPT ![t] = [op |-> "remove", kind |-> b.kind, key |-> b.key, id |-> b.id]]
    BY <2>1 DEF Peek
  <2>3. call'[t] = [op |-> "remove", kind |-> b.kind, key |-> b.key, id |-> b.id]
    BY <2>2 DEF TypeOK
  <2>4. b = [id |-> b.id, kind |-> b.kind, key |-> b.key]
    BY DEF TypeOK
  <2>. QED
    BY <2>3, <2>4
<1>7. RemovalKnown' /\ Proposed'
  <2>1. info' = info /\ active' = active
    BY <1>1 DEF liveVars
  <2>2. \A b, c \in info : b.id = c.id => b = c
    BY DEF SerialInv, RemovalKnown
  <2>. QED
    BY <1>2, <1>3, <1>6, <1>8, <2>1, <2>2 DEF RemovalKnown, Proposed, Commits
<1>. QED
  BY <1>4, <1>5, <1>7 DEF SerialInv

\* add_source_breakpoint, add_function_breakpoint: the tables catch up.
LEMMA SerialCommitList ==
  ASSUME TypeOK, ArgsInv, SerialInv, ~overlap, NEW t \in Tasks, CommitList(t)
  PROVE  SerialInv'
<1> DEFINE kind == call[t].kind
<1>1. /\ pc[t] = "commitList" /\ pc'[t] = "commitInfo"
      /\ \A u \in Tasks : u # t => pc[u] = "free" /\ pc'[u] = "free"
  BY OthersFree DEF CommitList, Goto, TypeOK, SerialInv
<1>2. UNCHANGED <<state, info, installed, flushed, garbled, call, list>>
  BY DEF CommitList, taskVars, adapterVars, historyVars
<1>3. state = "stopped" /\ kind \in Kinds /\ call[t].key \in Keys
  BY <1>1 DEF SerialInv, OneCall, TypeOK, ArgsInv, Located, Working
<1>4. active' = [active EXCEPT ![kind] = Append(active[kind], call[t].key)]
  BY DEF CommitList
<1>5. active \in [Kinds -> Seq(Keys)]
  BY DEF TypeOK
<1>6. ToSet(active'[kind]) = ToSet(active[kind]) \cup {call[t].key}
  <2>1. active[kind] \in Seq(Keys)
    BY <1>3, <1>5
  <2>2. active'[kind] = Append(active[kind], call[t].key)
    BY <1>3, <1>4, <1>5
  <2>. QED
    BY <1>3, <2>1, <2>2, AppendAdds
<1>7. \A k \in Kinds : k # kind => active'[k] = active[k]
  BY <1>3, <1>4, <1>5
<1>8. \A k \in Kinds : InstalledKeys(k)' = InstalledKeys(k)
  BY <1>2 DEF InstalledKeys
<1>9. /\ InstalledKeys(kind) = ToSet(active[kind]) \cup {call[t].key}
      /\ \A k \in Kinds : k # kind /\ garbled[k] # "last" => InstalledKeys(k) = ToSet(active[k])
  BY <1>1, <1>3 DEF SerialInv, TrackedBut
<1>10. TrackedBut'
  BY <1>1, <1>2, <1>6, <1>7, <1>8, <1>9 DEF TrackedBut
<1>11. OneCall' /\ NotLive' /\ RemovalKnown' /\ Proposed'
  BY <1>1, <1>2, <1>3 DEF SerialInv, OneCall, NotLive, RemovalKnown, Proposed
<1>. QED
  BY <1>10, <1>11 DEF SerialInv

\* add_breakpoint_response: only the response table changes.
LEMMA SerialCommitInfo ==
  ASSUME TypeOK, ArgsInv, SerialInv, ~overlap, NEW t \in Tasks, CommitInfo(t)
  PROVE  SerialInv'
<1>1. /\ pc[t] = "commitInfo" /\ pc'[t] = "free"
      /\ \A u \in Tasks : u # t => pc[u] = "free" /\ pc'[u] = "free"
  BY OthersFree DEF CommitInfo, Goto, TypeOK, SerialInv
<1>2. UNCHANGED <<state, active, installed, flushed, garbled, call, list>>
  BY DEF CommitInfo, taskVars, adapterVars, historyVars
<1>3. state = "stopped"
  BY <1>1 DEF SerialInv, OneCall, TypeOK
<1>4. \A k \in Kinds : /\ InstalledKeys(k)' = InstalledKeys(k)
                       /\ garbled[k] # "last" => InstalledKeys(k) = ToSet(active[k])
  BY <1>1, <1>2, <1>3 DEF SerialInv, TrackedBut, InstalledKeys
<1>5. TrackedBut'
  BY <1>1, <1>2, <1>4 DEF TrackedBut
<1>6. info' = {b \in info : b.id # match[t].id} \cup {Recorded(t)} /\ Recorded(t).id = match[t].id
  BY DEF CommitInfo, Recorded
<1>7. \A b, c \in info' : b.id = c.id => b = c
  BY <1>6 DEF SerialInv, RemovalKnown
<1>8. OneCall' /\ NotLive' /\ RemovalKnown' /\ Proposed'
  BY <1>1, <1>2, <1>3, <1>7 DEF SerialInv, OneCall, NotLive, RemovalKnown, Proposed
<1>. QED
  BY <1>5, <1>8 DEF SerialInv

\* remove_breakpoint_by_id: what it finds is the breakpoint the call is about.
LEMMA SerialCommitRemove ==
  ASSUME TypeOK, ArgsInv, SerialInv, ~overlap, NEW t \in Tasks, CommitRemove(t)
  PROVE  SerialInv'
<1> DEFINE kind == call[t].kind
<1>1. /\ pc[t] = "commitRemove" /\ pc'[t] = "free"
      /\ \A u \in Tasks : u # t => pc[u] = "free" /\ pc'[u] = "free"
  BY OthersFree DEF CommitRemove, Goto, TypeOK, SerialInv
<1>2. UNCHANGED <<state, installed, flushed, garbled, call, list>>
  BY DEF CommitRemove, taskVars, adapterVars
<1>3. state = "stopped" /\ kind \in Kinds /\ call[t].key \in Keys
  BY <1>1 DEF SerialInv, OneCall, TypeOK, ArgsInv, Located
<1>4. [id |-> call[t].id, kind |-> kind, key |-> call[t].key] \in info
  BY <1>1 DEF SerialInv, RemovalKnown
<1>5. PICK b \in info :
         /\ b.id = call[t].id
         /\ active' = [active EXCEPT ![b.kind] = RemoveFirst(@, b.key)]
         /\ info' = info \ {b}
  BY <1>4 DEF CommitRemove
<1>6. b = [id |-> call[t].id, kind |-> kind, key |-> call[t].key]
  BY <1>4, <1>5 DEF SerialInv, RemovalKnown
<1>7. active' = [active EXCEPT ![kind] = RemoveFirst(active[kind], call[t].key)]
  BY <1>5, <1>6
<1>8. /\ active'[kind] = RemoveFirst(active[kind], call[t].key)
      /\ \A k \in Kinds : k # kind => active'[k] = active[k]
  BY <1>3, <1>7 DEF TypeOK
<1>9. /\ InstalledKeys(kind) = ToSet(RemoveFirst(active[kind], call[t].key))
      /\ \A k \in Kinds : k # kind /\ garbled[k] # "last" => InstalledKeys(k) = ToSet(active[k])
  BY <1>1, <1>3 DEF SerialInv, TrackedBut
<1>10. \A k \in Kinds : InstalledKeys(k)' = InstalledKeys(k)
  BY <1>2 DEF InstalledKeys
<1>11. TrackedBut'
  BY <1>1, <1>2, <1>8, <1>9, <1>10 DEF TrackedBut
<1>12. \A x, y \in info' : x.id = y.id => x = y
  BY <1>5 DEF SerialInv, RemovalKnown
<1>13. OneCall' /\ NotLive' /\ RemovalKnown' /\ Proposed'
  BY <1>1, <1>2, <1>3, <1>12 DEF SerialInv, OneCall, NotLive, RemovalKnown, Proposed
<1>. QED
  BY <1>11, <1>13 DEF SerialInv

\* The adapter takes the list in flight: it is ahead by the call's change.
LEMMA SerialAccepted ==
  ASSUME TypeOK, ArgsInv, SerialInv, ~overlap, NEW t \in Tasks, Accepted(t)
  PROVE  SerialInv'
<1> DEFINE kind == call[t].kind
           key  == call[t].key
           ids  == NewIds(kind, list[t])
<1>0. Replace(t)
  BY DEF Accepted
<1>1. /\ pc[t] = "sent"
      /\ pc'[t] = IF call[t].op = "set" THEN "commitList" ELSE "commitRemove"
      /\ \A u \in Tasks : u # t => pc[u] = "free" /\ pc'[u] = "free"
  BY <1>0, OthersFree DEF Replace, Accepted, TypeOK, SerialInv
<1>2. UNCHANGED <<state, active, info, flushed, call, list>>
  BY DEF Accepted, trackVars
<1>3. state = "stopped" /\ kind \in Kinds /\ key \in Keys /\ call[t].op \in {"set", "remove"}
  BY <1>1 DEF SerialInv, OneCall, TypeOK, ArgsInv, Located
<1>4. /\ installed' = [installed EXCEPT ![kind] = ids]
      /\ \A k \in Keys : ids[k] # 0 <=> k \in ToSet(list[t])
  BY <1>0, ReplaceFacts
<1>. HIDE DEF ids
<1>5. active[kind] \in Seq(Keys) /\ ToSet(list[t]) \subseteq Keys
  <2>1. active \in [Kinds -> Seq(Keys)] /\ list[t] \in Seq(Keys)
    BY DEF TypeOK
  <2>2. active[kind] \in Seq(Keys)
    BY <1>3, <2>1
  <2>3. ToSet(list[t]) \subseteq Keys
    BY <2>1 DEF ToSet
  <2>. QED
    BY <2>2, <2>3
<1>6. /\ InstalledKeys(kind)' = ToSet(list[t])
      /\ \A k \in Kinds : k # kind => InstalledKeys(k)' = InstalledKeys(k)
  <2>1. /\ installed'[kind] = ids
        /\ \A k \in Kinds : k # kind => installed'[k] = installed[k]
    BY <1>3, <1>4 DEF TypeOK
  <2>2. \A k \in Kinds : k # kind => InstalledKeys(k)' = InstalledKeys(k)
    BY <2>1 DEF InstalledKeys
  <2>3. InstalledKeys(kind)' = {k \in Keys : ids[k] # 0}
    BY <1>2, <2>1 DEF InstalledKeys
  <2>4. {k \in Keys : ids[k] # 0} = ToSet(list[t])
    BY <1>4, <1>5
  <2>. QED
    BY <2>2, <2>3, <2>4
<1>7. list[t] = IF call[t].op = "set" THEN Append(active[kind], key)
                ELSE RemoveFirst(active[kind], key)
  BY <1>1 DEF SerialInv, Proposed
<1>8. call[t].op = "set" => ToSet(list[t]) = ToSet(active[kind]) \cup {key}
  BY <1>3, <1>5, <1>7, AppendAdds
<1>9. /\ \A k \in Kinds : k # kind /\ garbled[k] # "last" => InstalledKeys(k) = ToSet(active[k])
      /\ \A k \in Kinds : k # kind => garbled'[k] = garbled[k]
  BY <1>1, <1>3 DEF SerialInv, TrackedBut, Accepted, TypeOK
<1>10. TrackedBut'
  BY <1>1, <1>2, <1>3, <1>6, <1>7, <1>8, <1>9 DEF TrackedBut
<1>11. OneCall' /\ NotLive' /\ RemovalKnown' /\ Proposed'
  BY <1>1, <1>2, <1>3 DEF SerialInv, OneCall, NotLive, RemovalKnown, Proposed
<1>. QED
  BY <1>10, <1>11 DEF SerialInv

\* A list that was taken but whose response cannot be read: its kind is astray.
LEMMA SerialMalformed ==
  ASSUME TypeOK, ArgsInv, SerialInv, ~overlap, NEW t \in Tasks, Malformed(t)
  PROVE  SerialInv'
<1> DEFINE kind == call[t].kind
<1>0. Replace(t)
  BY DEF Malformed
<1>1. /\ pc[t] = "sent" /\ pc'[t] = "free"
      /\ \A u \in Tasks : u # t => pc[u] = "free" /\ pc'[u] = "free"
  BY <1>0, OthersFree DEF Replace, Malformed, TypeOK, SerialInv
<1>2. UNCHANGED <<state, active, info, flushed, call, list>>
  BY DEF Malformed, trackVars, taskVars
<1>3. state = "stopped" /\ kind \in Kinds
  BY <1>0, <1>1, ReplaceFacts DEF SerialInv, OneCall, TypeOK
<1>4. installed' = [installed EXCEPT ![kind] = NewIds(kind, list[t])]
  BY DEF Replace, Malformed
<1>5. \A k \in Kinds : k # kind => InstalledKeys(k)' = InstalledKeys(k)
  <2>1. \A k \in Kinds : k # kind => installed'[k] = installed[k]
    BY <1>3, <1>4 DEF TypeOK
  <2>. QED
    BY <2>1 DEF InstalledKeys
<1>6. garbled'[kind] = "last" /\ \A k \in Kinds : k # kind => garbled'[k] = garbled[k]
  BY <1>3 DEF Malformed, TypeOK
<1>7. \A k \in Kinds : k # kind /\ garbled[k] # "last" => InstalledKeys(k) = ToSet(active[k])
  BY <1>1, <1>3 DEF SerialInv, TrackedBut
<1>8. TrackedBut'
  BY <1>1, <1>2, <1>5, <1>6, <1>7 DEF TrackedBut
<1>9. OneCall' /\ NotLive' /\ RemovalKnown' /\ Proposed'
  BY <1>1, <1>2, <1>3 DEF SerialInv, OneCall, NotLive, RemovalKnown, Proposed
<1>. QED
  BY <1>8, <1>9 DEF SerialInv

\* launch, attach and disconnect, with no call under way.
LEMMA SerialSession ==
  ASSUME TypeOK, ArgsInv, SerialInv, ~overlap, Launch \/ Launched \/ Attached \/ Reset
  PROVE  SerialInv'
<1>1. pc' = pc /\ call' = call /\ list' = list /\ \A u \in Tasks : pc[u] = "free"
  BY DEF Launch, Launched, Attached, Reset, Admitted, SerialInv, OneCall, taskVars
<1>2. OneCall' /\ Proposed'
  BY <1>1 DEF OneCall, Proposed
<1>3. info' = info \/ info' = {}
  BY DEF Launch, Launched, Attached, Reset, trackVars
<1>4. RemovalKnown'
  BY <1>1, <1>3 DEF RemovalKnown, SerialInv
<1>5. \A kind \in Kinds : ToSet(NoLists[kind]) = {}
  BY DEF NoLists, ToSet
<1>6. CASE Launch
  <2>1. info = {} /\ active = NoLists
    BY <1>6 DEF Launch, SerialInv, NotLive
  <2>2. ASSUME NEW kind \in Kinds, NEW key \in Keys
        PROVE  <<kind, key>> \in flushed' <=> key \in ToSet(active'[kind])
    <3>1. pending[kind] \in Seq(Keys) /\ active[kind] \in Seq(Keys)
      BY DEF TypeOK
    <3>2. active'[kind] = active[kind] \o pending[kind]
      BY <1>6 DEF Launch
    <3>3. ToSet(active'[kind]) = ToSet(active[kind]) \cup ToSet(pending[kind])
      BY <3>1, <3>2, ConcatJoins
    <3>4. ToSet(active'[kind]) = ToSet(pending[kind])
      BY <1>5, <2>1, <3>3
    <3>5. <<kind, key>> \in flushed' <=> key \in ToSet(pending[kind])
      BY <1>6 DEF Launch
    <3>. QED
      BY <3>4, <3>5
  <2>3. NotLive' /\ TrackedBut'
    BY <1>6, <2>1, <2>2 DEF Launch, NotLive, TrackedBut
  <2>. QED
    BY <1>2, <1>4, <2>3 DEF SerialInv
<1>7. CASE Launched
  <2>1. /\ state = "configuring" /\ installed = Nowhere
        /\ \A kind \in Kinds, key \in Keys : <<kind, key>> \in flushed <=> key \in ToSet(active[kind])
    BY <1>7 DEF Launched, SerialInv, NotLive
  <2>2. ASSUME NEW kind \in Kinds, NEW key \in Keys
        PROVE  installed'[kind][key] # 0 <=> <<kind, key>> \in flushed
    <3>1. installed[kind][key] = 0
      BY <2>1 DEF Nowhere
    <3>2. CASE flushed \cap ({kind} \X Keys) = {}
      <4>1. installed'[kind] = installed[kind]
        BY <1>7, <3>2 DEF Launched
      <4>. QED
        BY <3>1, <3>2, <4>1
    <3>3. CASE flushed \cap ({kind} \X Keys) # {}
      <4>1. installed'[kind][key] =
              CASE <<kind, key>> \notin flushed -> 0
                [] <<kind, key>> \in flushed /\ installed[kind][key] # 0 ->
                     installed[kind][key]
                [] OTHER -> nextId + 2 * key + (IF kind = "source" THEN 0 ELSE 1)
        BY <1>7, <3>3 DEF Launched
      <4>2. key \in Nat /\ nextId \in Nat /\ nextId >= 1
        BY FS_CardinalityType DEF TypeOK, ArgsInv
      <4>. QED
        BY <3>1, <4>1, <4>2
    <3>. QED
      BY <3>2, <3>3
  <2>3. active' = active /\ state' = "stopped"
    BY <1>7 DEF Launched, trackVars
  <2>4. \A kind \in Kinds : ToSet(active[kind]) \subseteq Keys
    BY DEF TypeOK, ToSet
  <2>5. \A kind \in Kinds : InstalledKeys(kind)' = ToSet(active[kind])
    BY <2>1, <2>2, <2>4 DEF InstalledKeys
  <2>6. NotLive' /\ TrackedBut'
    BY <1>1, <2>3, <2>5 DEF NotLive, TrackedBut
  <2>. QED
    BY <1>2, <1>4, <2>6 DEF SerialInv
<1>8. CASE Attached
  <2>1. active = NoLists /\ active' = active /\ installed' = Nowhere /\ state' = "stopped"
    BY <1>8 DEF Attached, SerialInv, NotLive, trackVars
  <2>2. \A kind \in Kinds : InstalledKeys(kind)' = ToSet(active'[kind])
    BY <1>5, <2>1 DEF InstalledKeys, Nowhere
  <2>3. NotLive' /\ TrackedBut'
    BY <1>1, <2>1, <2>2 DEF NotLive, TrackedBut
  <2>. QED
    BY <1>2, <1>4, <2>3 DEF SerialInv
<1>9. CASE Reset
  <2>1. NotLive' /\ TrackedBut'
    BY <1>9 DEF Reset, NotLive, TrackedBut
  <2>. QED
    BY <1>2, <1>4, <2>1 DEF SerialInv
<1>. QED
  BY <1>6, <1>7, <1>8, <1>9

LEMMA SerialStep ==
  ASSUME TypeOK, ArgsInv, SerialInv, [Next]_vars
  PROVE  SerialInv'
<1>1. overlap' = overlap
  BY DEF Next, vars, SetBreakpoint, Begin, Branch, AddPending, ProposeSet, Send, RemoveBreakpoint,
         Peek, ProposeRemove, RemoveUnknown, NoBackend, CommitList, CommitInfo, CommitRemove,
         Accepted, Malformed, Rejected, Launch, Launched, Attached, Reset
<1>2. CASE overlap
  BY <1>1, <1>2 DEF SerialInv
<1>3. CASE ~overlap /\ UNCHANGED vars
  <2>1. OneCall' /\ NotLive' /\ RemovalKnown' /\ Proposed'
    BY <1>3 DEF SerialInv, vars, OneCall, NotLive, RemovalKnown, Proposed, trackVars, taskVars,
                adapterVars, historyVars
  <2>2. TrackedBut'
    BY <1>3 DEF SerialInv, vars, TrackedBut, InstalledKeys, trackVars, taskVars, adapterVars,
                historyVars
  <2>. QED
    BY <2>1, <2>2 DEF SerialInv
<1>4. CASE ~overlap /\ Next
  BY <1>4, SerialMoves, SerialCommitList, SerialCommitInfo, SerialCommitRemove, SerialAccepted,
     SerialMalformed, SerialSession DEF Next, Moves
<1>. QED
  BY <1>2, <1>3, <1>4

LEMMA SerialInit == Init => SerialInv
BY DEF Init, SerialInv, OneCall, NotLive, RemovalKnown, Proposed, TrackedBut

\* When no call is under way, the tracked lists are exactly what the adapter
\* has installed, for each kind whose last response could be read: the handlers
\* change the tables only after the adapter has taken the list, and by exactly
\* what the list changed.
THEOREM TrackedMatchesAdapter == Spec => []TrackedIsInstalled
<1>1. Init => TypeOK /\ ArgsInv /\ SerialInv
  BY TypeInit, SerialInit
<1>2. (TypeOK /\ ArgsInv /\ SerialInv) /\ [Next]_vars => (TypeOK /\ ArgsInv /\ SerialInv)'
  BY TypeStep, SerialStep
<1>3. SerialInv => TrackedIsInstalled
  BY DEF SerialInv, TrackedBut, TrackedIsInstalled, Quiescent
<1>. QED
  BY <1>1, <1>2, <1>3, PTL DEF Spec

----------------------------------------------------------------------------
(* The ids listed *)

LEMMA ListedMoves ==
  ASSUME TypeOK, ArgsInv, SerialInv, ListedBut, ~overlap, NEW t \in Tasks,
         Moves(t)
  PROVE  ListedBut'
<1>1. /\ UNCHANGED <<info, installed, garbled>>
      /\ \A u \in Tasks : /\ pc[u] # "commitRemove"
                          /\ pc'[u] \notin {"commitList", "commitInfo"}
  BY MovesAlone DEF liveVars, Commits
<1>2. \A b \in info : garbled[b.kind] = "never" => b.id > 0 /\ installed[b.kind][b.key] = b.id
  BY <1>1 DEF ListedBut
<1>. QED
  BY <1>1, <1>2 DEF ListedBut

LEMMA ListedCommitList ==
  ASSUME TypeOK, SerialInv, ListedBut, ~overlap, NEW t \in Tasks, CommitList(t)
  PROVE  ListedBut'
<1>1. /\ pc[t] = "commitList" /\ pc'[t] = "commitInfo"
      /\ \A u \in Tasks : u # t => pc[u] = "free" /\ pc'[u] = "free"
  BY OthersFree DEF CommitList, Goto, TypeOK, SerialInv
<1>2. UNCHANGED <<info, installed, garbled, call, match>>
  BY DEF CommitList, taskVars, adapterVars, historyVars
<1>. QED
  BY <1>1, <1>2 DEF ListedBut

\* What is recorded is the id the adapter has for the call's breakpoint.
LEMMA ListedCommitInfo ==
  ASSUME TypeOK, SerialInv, ListedBut, ~overlap, NEW t \in Tasks, CommitInfo(t)
  PROVE  ListedBut'
<1>1. /\ pc[t] = "commitInfo" /\ pc'[t] = "free"
      /\ \A u \in Tasks : u # t => pc[u] = "free" /\ pc'[u] = "free"
  BY OthersFree DEF CommitInfo, Goto, TypeOK, SerialInv
<1>2. UNCHANGED <<installed, garbled, call, match>>
  BY DEF CommitInfo, taskVars, adapterVars
<1>3. \A b \in info : garbled[b.kind] = "never" => b.id > 0 /\ installed[b.kind][b.key] = b.id
  BY <1>1 DEF ListedBut
<1>4. /\ match[t].key = call[t].key /\ match[t].id > 0
      /\ match[t].id = installed[call[t].kind][call[t].key]
  BY <1>1 DEF ListedBut
<1>5. \A b \in info' :
        b \in info \/ b = [id |-> match[t].id, kind |-> call[t].kind, key |-> call[t].key]
  BY <1>4 DEF CommitInfo
<1>6. \A b \in info' : garbled[b.kind] = "never" => b.id > 0 /\ installed[b.kind][b.key] = b.id
  BY <1>3, <1>4, <1>5
<1>. QED
  BY <1>1, <1>2, <1>6 DEF ListedBut

LEMMA ListedCommitRemove ==
  ASSUME TypeOK, SerialInv, ListedBut, ~overlap, NEW t \in Tasks, CommitRemove(t)
  PROVE  ListedBut'
<1>1. /\ pc[t] = "commitRemove" /\ pc'[t] = "free"
      /\ \A u \in Tasks : u # t => pc[u] = "free" /\ pc'[u] = "free"
  BY OthersFree DEF CommitRemove, Goto, TypeOK, SerialInv
<1>2. UNCHANGED <<installed, garbled, call, match>>
  BY DEF CommitRemove, taskVars, adapterVars
<1>3. [id |-> call[t].id, kind |-> call[t].kind, key |-> call[t].key] \in info
  BY <1>1 DEF SerialInv, RemovalKnown
<1>4. PICK b \in info : b.id = call[t].id /\ info' = info \ {b}
  BY <1>3 DEF CommitRemove
<1>5. \A c \in info' : c \in info /\ c.id # call[t].id
  BY <1>4 DEF SerialInv, RemovalKnown
<1>6. \A c \in info' : garbled[c.kind] = "never" => c.id > 0 /\ installed[c.kind][c.key] = c.id
  BY <1>1, <1>5 DEF ListedBut
<1>. QED
  BY <1>1, <1>2, <1>6 DEF ListedBut

\* An accepted list keeps the ids of all that stays in it, and the result
\* picked from the response is that of the call's own breakpoint.
LEMMA ListedAccepted ==
  ASSUME TypeOK, ArgsInv, SerialInv, ListedBut, ~overlap, Unmoved, NEW t \in Tasks, Accepted(t)
  PROVE  ListedBut'
<1> DEFINE kind == call[t].kind
           key  == call[t].key
           ids  == NewIds(kind, list[t])
<1>0. Replace(t)
  BY DEF Accepted
<1>1. /\ pc[t] = "sent"
      /\ pc'[t] = IF call[t].op = "set" THEN "commitList" ELSE "commitRemove"
      /\ \A u \in Tasks : u # t => pc[u] = "free" /\ pc'[u] = "free"
  BY <1>0, OthersFree DEF Replace, Accepted, TypeOK, SerialInv
<1>2. UNCHANGED <<active, info, call>>
  BY DEF Accepted, trackVars
<1>3. state = "stopped" /\ kind \in Kinds /\ key \in Keys /\ call[t].op \in {"set", "remove"}
  BY <1>1 DEF SerialInv, OneCall, TypeOK, ArgsInv, Located
<1>4. /\ ids \in [Keys -> Nat]
      /\ installed' = [installed EXCEPT ![kind] = ids]
      /\ \A k \in Keys : /\ ids[k] # 0 <=> k \in ToSet(list[t])
                         /\ k \in ToSet(list[t]) /\ installed[kind][k] # 0 =>
                              ids[k] = installed[kind][k]
  BY <1>0, ReplaceFacts
<1>5. ASSUME call[t].op = "set"
      PROVE  match'[t].key = key /\ match'[t].id = ids[key] /\ key \in ToSet(list[t])
  <2>1. PICK k \in ToSet(list[t]) :
           /\ match'[t] = [id |-> ids[k], key |-> BoundKey(kind, k)]
           /\ k = key \/ (kind = "source" /\ BoundKey(kind, k) = key)
    BY <1>5, AcceptedFacts
  <2>3. list[t] \in Seq(Keys)
    BY DEF TypeOK
  <2>4. k \in Keys
    BY <2>3 DEF ToSet
  <2>5. BoundKey(kind, k) = k
    BY <2>4 DEF BoundKey, Unmoved
  <2>2. k = key
    BY <2>1, <2>5
  <2>. QED
    BY <2>1, <2>2, <2>5
<1>. HIDE DEF ids
<1>6. /\ installed'[kind] = ids
      /\ \A k \in Kinds : k # kind => installed'[k] = installed[k]
  BY <1>3, <1>4 DEF TypeOK
<1>7. \A b \in info : /\ garbled[b.kind] = "never" =>
                           b.id > 0 /\ installed[b.kind][b.key] = b.id
                      /\ b.kind \in Kinds /\ b.key \in Keys
  BY <1>1 DEF ListedBut, TypeOK
<1>8. active[kind] \in Seq(Keys)
  BY <1>3 DEF TypeOK
<1>9. garbled[kind] # "last" => InstalledKeys(kind) = ToSet(active[kind])
  BY <1>1, <1>3 DEF SerialInv, TrackedBut
<1>10. list[t] = IF call[t].op = "set" THEN Append(active[kind], key)
                 ELSE RemoveFirst(active[kind], key)
  BY <1>1 DEF SerialInv, Proposed
<1>15. \A k \in Kinds : garbled'[k] = "never" => garbled[k] = "never"
  BY <1>3 DEF Accepted, TypeOK
<1>11. ASSUME NEW b \in info, b.kind = kind, garbled[kind] = "never"
       PROVE  installed'[b.kind][b.key] = b.id \/ (call[t].op = "remove" /\ call[t].id = b.id)
  <2>1. b.key \in ToSet(active[kind]) /\ installed[kind][b.key] # 0
    BY <1>7, <1>9, <1>11 DEF InstalledKeys
  <2>2. CASE b.key \in ToSet(list[t])
    BY <1>4, <1>6, <1>7, <1>11, <2>1, <2>2
  <2>3. CASE b.key \notin ToSet(list[t])
    <3>1. call[t].op # "set"
      BY <1>3, <1>8, <1>10, <2>1, <2>3, AppendAdds
    <3>2. b.key = key
      BY <1>8, <1>10, <2>1, <2>3, <3>1, RemoveFirstKeeps
    <3>3. [id |-> call[t].id, kind |-> kind, key |-> key] \in info
      BY <1>1, <1>3, <3>1 DEF SerialInv, RemovalKnown
    <3>4. installed[kind][key] = call[t].id
      BY <1>7, <1>11, <3>3
    <3>. QED
      BY <1>3, <1>7, <1>11, <3>1, <3>2, <3>4
  <2>. QED
    BY <2>2, <2>3
<1>12. \A b \in info : garbled[b.kind] = "never" =>
         installed'[b.kind][b.key] = b.id \/ (call[t].op = "remove" /\ call[t].id = b.id)
  BY <1>6, <1>7, <1>11
<1>13. \A b \in info' : garbled'[b.kind] = "never" =>
         /\ b.id > 0
         /\ \/ installed'[b.kind][b.key] = b.id
            \/ \E u \in Tasks : pc'[u] = "commitRemove" /\ call'[u].id = b.id
  BY <1>1, <1>2, <1>7, <1>12, <1>15
<1>14. ASSUME NEW u \in Tasks, pc'[u] \in {"commitList", "commitInfo"}
       PROVE  /\ match'[u].key = call'[u].key
              /\ match'[u].id = installed'[call'[u].kind][call'[u].key]
              /\ match'[u].id > 0
  <2>1. u = t /\ call[t].op = "set"
    BY <1>1, <1>14
  <2>2. ids[key] \in Nat /\ ids[key] # 0
    BY <1>3, <1>4, <1>5, <2>1
  <2>. QED
    BY <1>2, <1>5, <1>6, <2>1, <2>2
<1>. QED
  BY <1>13, <1>14 DEF ListedBut

\* What is listed of the other kind stays right when a response is unreadable.
LEMMA ListedMalformed ==
  ASSUME TypeOK, ArgsInv, SerialInv, ListedBut, ~overlap, NEW t \in Tasks, Malformed(t)
  PROVE  ListedBut'
<1> DEFINE kind == call[t].kind
<1>0. Replace(t)
  BY DEF Malformed
<1>1. /\ pc[t] = "sent" /\ pc'[t] = "free"
      /\ \A u \in Tasks : u # t => pc[u] = "free" /\ pc'[u] = "free"
  BY <1>0, OthersFree DEF Replace, Malformed, TypeOK, SerialInv
<1>2. info' = info /\ kind \in Kinds
  BY <1>0, ReplaceFacts DEF Malformed, trackVars
<1>3. /\ garbled'[kind] = "last"
      /\ \A k \in Kinds : k # kind => garbled'[k] = garbled[k] /\ installed'[k] = installed[k]
  BY <1>2 DEF Malformed, Replace, TypeOK
<1>4. \A b \in info : b.kind \in Kinds
  BY DEF TypeOK
<1>5. ASSUME NEW b \in info, garbled'[b.kind] = "never"
      PROVE  b.id > 0 /\ installed'[b.kind][b.key] = b.id
  <2>1. b.kind # kind /\ garbled[b.kind] = "never"
    BY <1>3, <1>4, <1>5
  <2>2. b.id > 0 /\ installed[b.kind][b.key] = b.id
    BY <1>1, <2>1 DEF ListedBut
  <2>. QED
    BY <1>3, <1>4, <2>1, <2>2
<1>. QED
  BY <1>1, <1>2, <1>5 DEF ListedBut

LEMMA ListedStep ==
  ASSUME TypeOK, ArgsInv, SerialInv, ListedInv, [Next]_vars
  PROVE  ListedInv'
<1>1. overlap' = overlap /\ boundTo' = boundTo
  BY DEF Next, vars, SetBreakpoint, Begin, Branch, AddPending, ProposeSet, Send, RemoveBreakpoint,
         Peek, ProposeRemove, RemoveUnknown, NoBackend, CommitList, CommitInfo, CommitRemove,
         Accepted, Malformed, Rejected, Launch, Launched, Attached, Reset, adapterVars
<1>2. CASE overlap \/ ~Unmoved
  BY <1>1, <1>2 DEF ListedInv, Unmoved
<1>3. CASE ~overlap /\ Unmoved /\ UNCHANGED vars
  BY <1>1, <1>3 DEF ListedInv, ListedBut, vars, trackVars, taskVars, adapterVars, historyVars
<1>4. CASE ~overlap /\ Unmoved /\ (Launch \/ Launched \/ Attached \/ Reset)
  <2>1. pc' = pc /\ \A u \in Tasks : pc[u] = "free"
    BY <1>4 DEF Launch, Launched, Attached, Reset, Admitted, SerialInv, OneCall
  <2>2. info' = {}
    BY <1>4 DEF Launch, Launched, Attached, Reset, SerialInv, NotLive, trackVars
  <2>. QED
    BY <2>1, <2>2 DEF ListedInv, ListedBut
<1>5. CASE ~overlap /\ Unmoved /\ \E t \in Tasks :
             \/ Moves(t) \/ CommitList(t) \/ CommitInfo(t) \/ CommitRemove(t)
             \/ Accepted(t) \/ Malformed(t)
  <2>1. ListedBut
    BY <1>5 DEF ListedInv
  <2>2. ListedBut'
    BY <1>5, <2>1, ListedMoves, ListedCommitList, ListedCommitInfo, ListedCommitRemove,
       ListedAccepted, ListedMalformed
  <2>. QED
    BY <2>2 DEF ListedInv
<1>. QED
  BY <1>2, <1>3, <1>4, <1>5, Zenon DEF Next, Moves

\* list_breakpoints shows only breakpoints that exist: when calls do not
\* overlap, no line is moved and every response of the kind can be read, every
\* recorded id is the one the adapter has for the kind and key recorded.
THEOREM ListedMatchesAdapter == Spec => []ListedIsInstalled
<1>1. Init => TypeOK /\ ArgsInv /\ SerialInv /\ ListedInv
  <2>1. Init => ListedInv
    BY DEF Init, ListedInv, ListedBut
  <2>. QED
    BY <2>1, TypeInit, SerialInit
<1>2. (TypeOK /\ ArgsInv /\ SerialInv /\ ListedInv) /\ [Next]_vars
        => (TypeOK /\ ArgsInv /\ SerialInv /\ ListedInv)'
  BY TypeStep, SerialStep, ListedStep
<1>3. ListedInv => ListedIsInstalled
  BY DEF ListedInv, ListedBut, ListedIsInstalled, Quiescent, Unmoved
<1>. QED
  BY <1>1, <1>2, <1>3, PTL DEF Spec
============================================================================
