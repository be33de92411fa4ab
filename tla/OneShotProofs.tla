--------------------------- MODULE OneShotProofs ---------------------------
(***************************************************************************)
(* Proofs about OneShot, for every environment, range of versions, integer *)
(* argument, width of the integers, memory content and error text.         *)
(*                                                                         *)
(* The numbers put on the wire: ForwardedIsValid alone is not inductive, a *)
(* call that finds a request there might leave it, so Inv adds that none   *)
(* is there before the call.  Detection: the search takes the first of a   *)
(* list that is shown to go from the newest to the oldest, and SearchInv   *)
(* says that adapter and repl mode are what it found.  The answers: the    *)
(* lemmas are about the operators that make them, a loop that pushes       *)
(* entries, the rows of a dump and the rewording of a text; AnswerInv adds *)
(* that the request on the wire is one of the tool that was called.        *)
(*                                                                         *)
(* What a recursive function computes is proved from a least length at     *)
(* which it would go wrong (FirstExists).                                  *)
(***************************************************************************)
EXTENDS OneShot, FiniteSetTheorems, SequenceTheorems, WellFoundedInduction, TLAPS

NothingSentYet == pc \in {"idle", "call"} => request = None

Inv == NothingSentYet /\ ForwardedIsValid

\* A non-empty set of positions has a first one.
LEMMA FirstExists ==
  ASSUME NEW S \in SUBSET Nat, S # {}
  PROVE  Min(S) \in S /\ \A m \in S : Min(S) <= m
<1> DEFINE Less == {p \in Nat \X Nat : p[1] < p[2]}
<1>1. IsWellFoundedOn(Less, Nat)
  BY NatLessThanWellFounded DEF OpToRel
<1>2. PICK n \in S : \A m \in S : <<m, n>> \notin Less
  <2> HIDE DEF Less
  <2> QED
    BY <1>1, WFMin
<1>3. \A m \in S : n <= m
  <2> SUFFICES ASSUME NEW m \in S PROVE n <= m
    OBVIOUS
  <2>1. m \in Nat /\ n \in Nat
    OBVIOUS
  <2>2. m < n => <<m, n>> \in Less
    BY <2>1
  <2> QED
    BY <1>2, <2>1, <2>2
<1> QED
  BY <1>2, <1>3 DEF Min

\* Distances are natural numbers.
LEMMA DistType == ASSUME NEW v \in Int, NEW d \in Int PROVE Dist(v, d) \in Nat
BY DEF Dist

\* Some f64 is nearest to a number, whatever the f64s are.
LEMMA NearestExists == ASSUME NEW v \in Int PROVE Nearest(v) # {}
<1> DEFINE S == {Dist(v, d) : d \in Doubles}
<1>1. \A d \in Doubles : Dist(v, d) \in Nat
  BY DistType, ArgumentsAssumption DEF ArgumentsAssumption
<1>2. S \in SUBSET Nat /\ S # {}
  BY <1>1, ArgumentsAssumption DEF ArgumentsAssumption
<1>3. PICK d \in Doubles : \A m \in S : Dist(v, d) <= m
  <2> HIDE DEF S
  <2>1. Min(S) \in S /\ \A m \in S : Min(S) <= m
    BY <1>2, FirstExists
  <2> QED
    BY <2>1 DEF S
<1>4. \A c \in Doubles : Dist(v, d) <= Dist(v, c)
  BY <1>3
<1> QED
  BY <1>3, <1>4 DEF Nearest

\* What value_as_f64 returns is an f64, and none is nearer.
LEMMA AsF64IsNearest == ASSUME NEW v \in Int PROVE AsF64(v) \in Nearest(v)
<1>1. CASE v \in Doubles
  <2>1. Dist(v, v) = 0 /\ \A c \in Doubles : Dist(v, c) \in Nat
    BY DistType, ArgumentsAssumption DEF ArgumentsAssumption, Dist
  <2>2. \A c \in Doubles : Dist(v, v) <= Dist(v, c)
    BY <2>1
  <2> QED
    BY <1>1, <2>2 DEF AsF64, Nearest
<1>2. CASE v \notin Doubles
  <2> DEFINE T == IF Even(v) = {} THEN Nearest(v) ELSE Even(v)
  <2>1. T \subseteq Nearest(v) /\ T # {}
    BY NearestExists DEF Even
  <2>2. AsF64(v) = CHOOSE d \in T : TRUE
    BY <1>2 DEF AsF64
  <2> HIDE DEF T
  <2>3. AsF64(v) \in T
    BY <2>1, <2>2
  <2> QED
    BY <2>1, <2>3
<1> QED
  BY <1>1, <1>2

\* An f64 is a number.
LEMMA AsF64Type == ASSUME NEW v \in Int PROVE AsF64(v) \in Int
BY AsF64IsNearest, ArgumentsAssumption DEF Nearest, ArgumentsAssumption

\* The cast to i64 truncates a number above zero, and saturates.
LEMMA CastTruncates ==
  ASSUME NEW f \in Int, Truncate(f) > 0
  PROVE  \/ f \in {2 * Truncate(f), 2 * Truncate(f) + 1}
         \/ Truncate(f) = MaxInt /\ f > 2 * Truncate(f)
<1>1. CASE f >= 0
  <2>1. f \div 2 \in Int /\ f \in {2 * (f \div 2), 2 * (f \div 2) + 1}
    BY <1>1
  <2>2. f \div 2 >= 0
    BY <1>1
  <2>3. Truncate(f) = IF f \div 2 > MaxInt THEN MaxInt ELSE f \div 2
    BY <1>1, <2>1, <2>2, ArgumentsAssumption DEF Truncate, Clamp, ArgumentsAssumption
  <2>4. CASE f \div 2 > MaxInt
    <3>1. Truncate(f) = MaxInt /\ MaxInt \in Nat
      BY <2>3, <2>4, ArgumentsAssumption DEF ArgumentsAssumption
    <3>2. f > 2 * MaxInt
      BY <2>1, <2>4, <3>1
    <3> QED
      BY <3>1, <3>2
  <2>5. CASE ~(f \div 2 > MaxInt)
    BY <2>1, <2>3, <2>5
  <2> QED
    BY <2>4, <2>5
<1>2. CASE f < 0
  <2>1. (-f) \div 2 \in Int /\ (-f) \div 2 >= 0
    BY <1>2
  <2>2. Truncate(f) = Clamp(-((-f) \div 2))
    BY <1>2 DEF Truncate
  <2>3. Truncate(f) <= 0
    BY <2>1, <2>2, ArgumentsAssumption DEF Clamp, ArgumentsAssumption
  <2>4. Truncate(f) \in Int
    BY <2>1, <2>2, ArgumentsAssumption DEF Clamp, ArgumentsAssumption
  <2> QED
    BY <2>3, <2>4
<1> QED
  BY <1>1, <1>2

\* The cast gives an integer.
LEMMA AsIntType == ASSUME NEW v \in Int PROVE AsInt(v) \in Int
<1> DEFINE f == AsF64(v)
<1>1. f \in Int
  BY AsF64Type
<1> HIDE DEF f
<1>2. f \div 2 \in Int /\ -((-f) \div 2) \in Int
  BY <1>1
<1>3. \A n \in Int : Clamp(n) \in Int
  BY ArgumentsAssumption DEF Clamp, ArgumentsAssumption
<1>4. Truncate(f) \in Int
  BY <1>2, <1>3 DEF Truncate
<1> QED
  BY <1>4 DEF AsInt, f

\* The integer read from a number stands for it.
LEMMA AsIntStandsFor ==
  ASSUME NEW arg, arg.type = "number", arg.value \in Int, AsInt(arg.value) > 0
  PROVE  StandsFor(AsInt(arg.value), arg)
<1> DEFINE f == AsF64(arg.value)
           n == AsInt(arg.value)
<1>1. f \in Nearest(arg.value) /\ f \in Int /\ n = Truncate(f)
  BY AsF64IsNearest, AsF64Type DEF AsInt
<1> HIDE DEF f, n
<1>2. n > 0
  BY DEF n
<1>3. \/ f \in {2 * n, 2 * n + 1}
      \/ n = MaxInt /\ f > 2 * n
  BY <1>1, <1>2, CastTruncates
<1>4. StandsFor(n, arg)
  BY <1>1, <1>2, <1>3 DEF StandsFor
<1> QED
  BY <1>4 DEF n

\* The number arguments: what is no number has no value that is used.
LEMMA NumberArgsTyped ==
  ASSUME NEW arg \in NumberArgs
  PROVE  /\ arg.type \in {"absent", "null", "string", "number"}
         /\ arg.type = "number" => arg.value \in Int
BY OneShotAssumption DEF OneShotAssumption, NumberArgs, Absent, Null, Text, Number

\* require_positive_int passes on nothing else (read_memory, set_breakpoint).
LEMMA RequiredIsPositive ==
  ASSUME NEW arg \in NumberArgs, IsOk(RequirePositiveInt(arg))
  PROVE  StandsFor(RequirePositiveInt(arg).value, arg)
<1>1. CASE arg.type = "number"
  <2>1. RequireInt(arg) = Ok(AsInt(arg.value))
    BY <1>1 DEF RequireInt
  <2>2. RequirePositiveInt(arg).value = AsInt(arg.value) /\ ~(AsInt(arg.value) <= 0)
    BY <2>1 DEF RequirePositiveInt, IsOk, Ok, Error
  <2>3. arg.value \in Int /\ AsInt(arg.value) \in Int
    BY <1>1, NumberArgsTyped, AsIntType
  <2> QED
    BY <1>1, <2>2, <2>3, AsIntStandsFor
<1>2. CASE arg.type # "number"
  <2>1. RequireInt(arg).kind = "error"
    BY <1>2, NumberArgsTyped DEF RequireInt, Error
  <2>2. RequirePositiveInt(arg).kind = "error"
    BY <2>1 DEF RequirePositiveInt, IsOk, Error
  <2> QED
    BY <2>2 DEF IsOk
<1> QED
  BY <1>1, <1>2

\* resolve_thread_id passes on nothing else (continue and the steps).
LEMMA ThreadIsPositive ==
  ASSUME NEW arg \in NumberArgs,
         NEW r, r = ExplicitPositiveThreadId(arg),
         NEW sent, sent = IF r = Fallback THEN Ok(1) ELSE r,
         IsOk(sent)
  PROVE  StandsFor(sent.value, arg)
<1>1. CASE arg.type # "number"
  <2>1. r = Fallback
    BY <1>1 DEF ExplicitPositiveThreadId
  <2>2. sent = Ok(1)
    BY <2>1
  <2> QED
    BY <1>1, <2>2 DEF Ok, StandsFor
<1>2. CASE arg.type = "number"
  <2>1. arg.value \in Int /\ AsInt(arg.value) \in Int
    BY <1>2, NumberArgsTyped, AsIntType
  <2>2. CASE AsInt(arg.value) <= 0
    <3>1. r = Error("mustBePositive")
      BY <1>2, <2>1, <2>2 DEF ExplicitPositiveThreadId
    <3>2. r.kind = "error" /\ r # Fallback
      BY <3>1 DEF Error, Fallback
    <3> QED
      BY <3>2 DEF IsOk
  <2>3. CASE AsInt(arg.value) > 0
    <3>1. r = Ok(AsInt(arg.value))
      BY <1>2, <2>1, <2>3 DEF ExplicitPositiveThreadId
    <3>2. r.kind = "ok" /\ sent = r
      BY <3>1 DEF Ok, Fallback
    <3>3. sent.value = AsInt(arg.value)
      BY <3>1, <3>2 DEF Ok
    <3> QED
      BY <1>2, <2>1, <2>3, <3>3, AsIntStandsFor
  <2> QED
    BY <2>1, <2>2, <2>3
<1> QED
  BY <1>1, <1>2

\* attach sends a pid or a name, neither of them empty.
LEMMA AttachIsValid ==
  ASSUME NEW arg \in NumberArgs, NEW waitFor,
         waitFor.type \in {"absent", "null", "string"},
         IsOk(Attach(arg, waitFor))
  PROVE  \/ arg.type = "number" /\ StandsFor(AttachFields(arg, waitFor).pid, arg)
         \/ arg.type # "number" /\ AttachFields(arg, waitFor).program # Empty
<1>1. CASE arg.type = "number"
  <2>1. arg.value \in Int /\ AsInt(arg.value) \in Int
    BY <1>1, NumberArgsTyped, AsIntType
  <2>2. Attach(arg, waitFor) = IF AsInt(arg.value) <= 0 THEN Error("mustBePositive")
                                                     ELSE Ok(AsInt(arg.value))
    BY <1>1 DEF Attach
  <2>3. Attach(arg, waitFor) = Ok(AsInt(arg.value)) /\ AsInt(arg.value) > 0
    BY <2>1, <2>2 DEF IsOk, Error
  <2>4. AttachFields(arg, waitFor).pid = AsInt(arg.value)
    BY <2>3 DEF AttachFields, Given, Ok
  <2> QED
    BY <1>1, <2>1, <2>3, <2>4, AsIntStandsFor
<1>2. CASE arg.type \in {"absent", "null"}
  <2>1. Attach(arg, waitFor) =
          IF waitFor.type = "string" /\ waitFor.value # Empty THEN Fallback
          ELSE IF waitFor.type \in {"absent", "null"} THEN Error("pidOrWaitFor")
          ELSE Error("mustBeNonEmpty")
    BY <1>2 DEF Attach
  <2>2. Attach(arg, waitFor) = Fallback /\ waitFor.value # Empty
    BY <2>1 DEF IsOk, Error
  <2> QED
    BY <1>2, <2>2 DEF AttachFields, Given, Fallback
<1>3. CASE arg.type = "string"
  <2>1. Attach(arg, waitFor) = Error("mustBeNumber")
    BY <1>3 DEF Attach
  <2> QED
    BY <2>1 DEF IsOk, Error
<1> QED
  BY <1>1, <1>2, <1>3, NumberArgsTyped

\* What a tool call sends, if it sends anything, is valid.
LEMMA ForwardKeepsInv ==
  ASSUME Inv, NEW tool, NEW arg, NEW address, NEW command, NEW number,
         Forward(tool, arg, address, command, number),
         tool \in {"read_memory", "set_breakpoint", "continue"} /\ IsOk(number)
           => StandsFor(number.value, arg),
         tool = "attach" /\ IsOk(number)
           => \/ arg.type = "number" /\ StandsFor(address.pid, arg)
              \/ arg.type # "number" /\ address.program # Empty
  PROVE  Inv'
<1>1. request = None
  BY DEF Forward, Inv, NothingSentYet
<1>2. CASE ~IsOk(number)
  <2>1. request' = None
    BY <1>1, <1>2 DEF Forward, Finish
  <2> QED
    BY <2>1 DEF Inv, NothingSentYet, ForwardedIsValid
<1>3. CASE IsOk(number)
  <2>1. /\ request' = Request(command, number.value, address)
        /\ pc' \in {"connect", "sent"}
        /\ call' = [tool |-> tool, arg |-> arg, address |-> address]
    BY <1>3 DEF Forward
  <2>2. /\ call'.tool = tool /\ call'.arg = arg
        /\ request'.number = number.value /\ request'.address = address
    BY <2>1 DEF Request
  <2>3. NothingSentYet'
    BY <2>1 DEF NothingSentYet
  <2>4. call'.tool \in {"read_memory", "set_breakpoint", "continue"}
          => StandsFor(request'.number, call'.arg)
    BY <1>3, <2>2
  <2>5. call'.tool = "attach" =>
          \/ call'.arg.type = "number" /\ StandsFor(request'.address.pid, call'.arg)
          \/ call'.arg.type # "number" /\ request'.address.program # Empty
    BY <1>3, <2>2
  <2>6. ForwardedIsValid'
    BY <2>4, <2>5 DEF ForwardedIsValid, StandsFor
  <2> QED
    BY <2>3, <2>6 DEF Inv
<1> QED
  BY <1>2, <1>3

\* Nothing is sent that was not checked, at any step of any behaviour.
LEMMA InvInductive == Spec => []Inv
<1>1. Init => Inv
  BY DEF Init, Inv, NothingSentYet, ForwardedIsValid
<1>2. Inv /\ [Next]_vars => Inv'
  <2> SUFFICES ASSUME Inv, [Next]_vars PROVE Inv'
    OBVIOUS
  <2>1. ASSUME pc' = "done", UNCHANGED <<call, request>> PROVE Inv'
    BY <2>1 DEF Inv, NothingSentYet, ForwardedIsValid
  <2>2. CASE Connect
    BY <2>2 DEF Connect, Finish, Inv, NothingSentYet, ForwardedIsValid
  <2>3. CASE ReadMemory
    <3>1. PICK arg \in NumberArgs, a \in AddressArgs :
            Forward("read_memory", arg, NormalizeHex(a), "readMemory",
                    RequirePositiveInt(arg))
      BY <2>3 DEF ReadMemory
    <3> QED
      BY <3>1, RequiredIsPositive, ForwardKeepsInv
  <2>4. CASE SetBreakpoint
    <3>1. PICK arg \in NumberArgs :
            Forward("set_breakpoint", arg, None, "setBreakpoints",
                    RequirePositiveInt(arg))
      BY <2>4 DEF SetBreakpoint
    <3> QED
      BY <3>1, RequiredIsPositive, ForwardKeepsInv
  <2>5. CASE Continue
    <3> DEFINE Chosen(arg) == LET r == ExplicitPositiveThreadId(arg)
                              IN  IF r = Fallback THEN Ok(1) ELSE r
    <3>1. PICK arg \in NumberArgs :
            Forward("continue", arg, None, "continue", Chosen(arg))
      BY <2>5 DEF Continue
    <3>2. IsOk(Chosen(arg)) => StandsFor(Chosen(arg).value, arg)
      BY <3>1, ThreadIsPositive
    <3> HIDE DEF Chosen
    <3> QED
      BY <3>1, <3>2, ForwardKeepsInv
  <2>6. CASE AttachTo
    <3>1. PICK arg \in NumberArgs, waitFor \in {Absent, Null, Text(Empty), Text(1)} :
            Forward("attach", arg, AttachFields(arg, waitFor), "attach",
                    Attach(arg, waitFor))
      BY <2>6 DEF AttachTo
    <3>2. waitFor.type \in {"absent", "null", "string"}
      BY <3>1 DEF Absent, Null, Text
    <3> QED
      BY <3>1, <3>2, AttachIsValid, ForwardKeepsInv
  <2>7. CASE Launch
    <3>1. PICK address, number : Forward("launch", Absent, address, "launch", number)
      BY <2>7 DEF Launch
    <3> QED
      BY <3>1, ForwardKeepsInv
  <2>8. CASE Backtrace
    <3>1. PICK arg, number : Forward("backtrace", arg, None, "stackTrace", number)
      BY <2>8 DEF Backtrace
    <3> QED
      BY <3>1, ForwardKeepsInv
  <2>9. CASE Disassemble
    <3>1. PICK arg, address, command, number :
            Forward("disassemble", arg, address, command, number)
      BY <2>9 DEF Disassemble
    <3> QED
      BY <3>1, ForwardKeepsInv
  <2>10. CASE ResolvePc
    BY <2>10 DEF ResolvePc, Finish, Inv, NothingSentYet, ForwardedIsValid
  <2>11. CASE RunCommand
    <3>1. Forward("run_command", Absent, Backtick, "evaluate", Ok(0))
      BY <2>11 DEF RunCommand
    <3> QED
      BY <3>1, ForwardKeepsInv
  <2>12. CASE Refused
    BY <2>1, <2>12 DEF Refused, Finish
  <2>13. CASE MemoryRead
    BY <2>1, <2>13 DEF MemoryRead, Finish
  <2>14. CASE Disassembled
    BY <2>1, <2>14 DEF Disassembled, Finish
  <2>15. CASE Answered
    BY <2>1, <2>15 DEF Answered, Finish
  <2>16. CASE ReadOutput
    <3>1. pc' = "done" /\ request' = None
      BY <2>16 DEF ReadOutput, Finish, Inv, NothingSentYet
    <3> QED
      BY <3>1 DEF Inv, NothingSentYet, ForwardedIsValid
  <2>17. CASE UNCHANGED vars
    BY <2>17 DEF vars, Inv, NothingSentYet, ForwardedIsValid
  <2> QED
    BY <2>2, <2>3, <2>4, <2>5, <2>6, <2>7, <2>8, <2>9, <2>10, <2>11, <2>12,
       <2>13, <2>14, <2>15, <2>16, <2>17 DEF Next
<1> QED
  BY <1>1, <1>2, PTL DEF Spec

\* read_memory, set_breakpoint, continue and attach never forward a number or
\* a name that their documentation rules out (mcp-tools/src/args.rs).
THEOREM WhatIsForwardedIsValid == Spec => []ForwardedIsValid
<1>1. Inv => ForwardedIsValid
  BY DEF Inv
<1> QED
  BY <1>1, InvInductive, PTL

----------------------------------------------------------------------------
(* Detection *)

\* How many versions there are above one.
Rank(v) == Cardinality({w \in Versions : w > v})

\* No two versions have the same rank, so every rank up to their number is
\* taken: this is what makes Descending a list of them all.
LEMMA RanksAreTaken ==
  /\ Cardinality(Versions) \in Nat
  /\ \A i \in 1..Cardinality(Versions) : \E v \in Versions : Rank(v) = i - 1
  /\ \A u, v \in Versions : v < u => Rank(u) < Rank(v)
<1> DEFINE Above(v) == {w \in Versions : w > v}
           n == Cardinality(Versions)
           ranks == 0..(n - 1)
           f == [v \in Versions |-> Rank(v)]
<1>1. Versions \subseteq Nat /\ IsFiniteSet(Versions) /\ n \in Nat
  BY DetectAssumption, FS_CardinalityType
<1>2. ASSUME NEW v \in Versions
      PROVE  IsFiniteSet(Above(v)) /\ Rank(v) \in Nat /\ Rank(v) = Cardinality(Above(v))
  <2>1. Above(v) \in SUBSET Versions
    OBVIOUS
  <2>2. IsFiniteSet(Above(v))
    BY <1>1, <2>1, FS_Subset
  <2> QED
    BY <2>2, FS_CardinalityType DEF Rank
<1>3. ASSUME NEW v \in Versions, NEW S \in SUBSET Versions, v \notin S,
             NEW T \in SUBSET Versions, T = S \cup {v}
      PROVE  Cardinality(S) < Cardinality(T)
  <2>1. IsFiniteSet(S) /\ IsFiniteSet(T)
    BY <1>1, <1>3, FS_Subset
  <2>2. Cardinality(T) = Cardinality(S) + 1
    BY <1>3, <2>1, FS_AddElement
  <2>3. Cardinality(S) \in Nat
    BY <2>1, FS_CardinalityType
  <2> QED
    BY <2>2, <2>3
<1>4. ASSUME NEW u \in Versions, NEW v \in Versions, v < u
      PROVE  Rank(u) < Rank(v)
  <2> DEFINE T == Above(u) \cup {u}
  <2>1. u \in Nat /\ v \in Nat /\ Versions \subseteq Nat
    BY <1>1
  <2>2. u \notin Above(u) /\ Above(u) \in SUBSET Versions /\ T \in SUBSET Versions
    BY <2>1
  <2>3. T \in SUBSET Above(v)
    <3>1. \A x \in Versions : x > u => x > v
      BY <1>4, <2>1
    <3>2. u > v
      BY <1>4, <2>1
    <3> QED
      BY <3>1, <3>2
  <2>4. Cardinality(T) <= Cardinality(Above(v)) /\ IsFiniteSet(T)
    BY <1>2, <2>3, FS_Subset
  <2>5. Cardinality(Above(u)) < Cardinality(T)
    BY <1>3, <2>2
  <2>6. Cardinality(T) \in Nat
    BY <2>4, FS_CardinalityType
  <2> QED
    BY <1>2, <2>4, <2>5, <2>6
<1>5. ASSUME NEW v \in Versions PROVE Rank(v) \in ranks
  <2> DEFINE T == Above(v) \cup {v}
  <2>1. v \in Nat /\ v \notin Above(v) /\ Above(v) \in SUBSET Versions /\ T \in SUBSET Versions
    BY <1>1
  <2>2. Cardinality(T) <= n
    BY <1>1, <2>1, FS_Subset
  <2>3. Cardinality(Above(v)) < Cardinality(T)
    BY <1>3, <2>1
  <2>4. IsFiniteSet(T)
    BY <1>1, <2>1, FS_Subset
  <2>5. Cardinality(T) \in Nat
    BY <2>4, FS_CardinalityType
  <2> QED
    BY <1>1, <1>2, <2>2, <2>3, <2>5
<1>6. f \in Injection(Versions, ranks)
  <2>1. f \in [Versions -> ranks]
    BY <1>5
  <2>2. ASSUME NEW u \in Versions, NEW v \in Versions, Rank(u) = Rank(v)
        PROVE  u = v
    <3>1. u \in Nat /\ v \in Nat /\ Rank(u) \in Nat /\ Rank(v) \in Nat
      BY <1>1, <1>2
    <3>2. ~(u < v) /\ ~(v < u)
      BY <1>4, <2>2, <3>1
    <3> QED
      BY <3>1, <3>2
  <2> QED
    BY <2>1, <2>2 DEF Injection, IsInjective
<1>7. IsFiniteSet(ranks) /\ Cardinality(ranks) = n
  <2>1. 0 \in Int /\ n - 1 \in Int
    BY <1>1
  <2>2. IsFiniteSet(ranks) /\ Cardinality(ranks) = IF 0 > n - 1 THEN 0 ELSE n - 1 - 0 + 1
    BY <2>1, FS_Interval
  <2> QED
    BY <1>1, <2>2
<1>8. f \in Surjection(Versions, ranks)
  <2> HIDE DEF f
  <2> QED
    BY <1>6, <1>7, FS_Injection
<1>9. \A i \in 1..n : i - 1 \in ranks
  BY <1>1
<1>10. \A r \in ranks : \E v \in Versions : Rank(v) = r
  BY <1>8 DEF Surjection
<1> QED
  BY <1>1, <1>4, <1>9, <1>10

\* Descending lists every version, each above the next.
LEMMA DescendingDescends ==
  /\ Descending \in Seq(Nat)
  /\ Len(Descending) \in Nat
  /\ \A i \in 1..Len(Descending) : Descending[i] \in Versions
  /\ \A i, j \in 1..Len(Descending) : i <= j => Descending[i] >= Descending[j]
<1> DEFINE n == Cardinality(Versions)
<1>1. n \in Nat /\ Versions \subseteq Nat
  BY RanksAreTaken, DetectAssumption
<1>2. ASSUME NEW i \in 1..n
      PROVE  Descending[i] \in Versions /\ Rank(Descending[i]) = i - 1
  <2>1. Descending[i] = CHOOSE v \in Versions : Rank(v) = i - 1
    BY DEF Descending, Rank
  <2> QED
    BY <2>1, RanksAreTaken
<1>3. Descending \in Seq(Nat) /\ Len(Descending) = n
  <2>1. Descending \in [1..n -> Nat]
    BY <1>1, <1>2 DEF Descending
  <2>2. Descending \in Seq(Nat)
    BY <1>1, <2>1
  <2> QED
    BY <1>1, <2>1, <2>2, LenProperties
<1>4. ASSUME NEW i \in 1..n, NEW j \in 1..n, i <= j
      PROVE  Descending[i] >= Descending[j]
  <2> DEFINE u == Descending[i]
             v == Descending[j]
  <2>1. u \in Versions /\ v \in Versions /\ Rank(u) = i - 1 /\ Rank(v) = j - 1
    BY <1>2
  <2>2. u \in Nat /\ v \in Nat
    BY <1>1, <2>1
  <2> HIDE DEF u, v
  <2>3. u < v => Rank(v) < Rank(u)
    BY <2>1, RanksAreTaken
  <2>4. ~(Rank(v) < Rank(u))
    BY <1>4, <2>1
  <2>5. u >= v
    BY <2>2, <2>3, <2>4
  <2> QED
    BY <2>5 DEF u, v
<1> QED
  BY <1>1, <1>2, <1>3, <1>4

Binaries == {"lldb-dap", "lldb-vscode"} \X Nat

\* The candidates are ordered by what AsGood says of them.
LEMMA CandidatesInOrder ==
  /\ Candidates \in Seq(Binaries) /\ Len(Candidates) \in Nat
  /\ \A i, j \in 1..Len(Candidates) : i <= j => AsGood(Candidates[i], Candidates[j])
<1> DEFINE n == Len(Descending)
           mid == [i \in DOMAIN Descending |-> <<"lldb-dap", Descending[i]>>]
           front == <<LldbDap>> \o mid
<1>1. /\ Descending \in Seq(Nat) /\ n \in Nat /\ DOMAIN Descending = 1..n
      /\ \A i \in 1..n : Descending[i] \in Nat /\ Descending[i] # 0
      /\ \A i, j \in 1..n : i <= j => Descending[i] >= Descending[j]
  BY DescendingDescends, DetectAssumption
<1>2. mid \in Seq(Binaries) /\ Len(mid) = n
  <2>1. mid \in [1..n -> Binaries]
    BY <1>1 DEF Binaries
  <2>2. mid \in Seq(Binaries)
    BY <1>1, <2>1
  <2> QED
    BY <1>1, <2>1, <2>2, LenProperties
<1>3. \A i \in 1..n : mid[i] = <<"lldb-dap", Descending[i]>>
  BY <1>1
<1>4. <<LldbDap>> \in Seq(Binaries) /\ <<LldbVscode>> \in Seq(Binaries)
  BY DEF LldbDap, LldbVscode, Binaries
<1>5. Candidates = front \o <<LldbVscode>>
  BY DEF Candidates
<1> HIDE DEF mid, n
<1>6. /\ front \in Seq(Binaries) /\ Len(front) = n + 1
      /\ front[1] = LldbDap
      /\ \A i \in 1..n : front[i + 1] = mid[i]
  <2>1. /\ front \in Seq(Binaries)
        /\ Len(front) = Len(<<LldbDap>>) + Len(mid)
        /\ \A i \in 1..(Len(<<LldbDap>>) + Len(mid)) :
             front[i] = IF i <= Len(<<LldbDap>>) THEN <<LldbDap>>[i] ELSE mid[i - Len(<<LldbDap>>)]
    BY <1>2, <1>4, ConcatProperties
  <2>2. Len(<<LldbDap>>) = 1 /\ <<LldbDap>>[1] = LldbDap
    OBVIOUS
  <2> HIDE DEF front
  <2>3. ASSUME NEW i \in 1..n PROVE front[i + 1] = mid[i]
    <3>1. i + 1 \in 1..(1 + n) /\ ~(i + 1 <= 1) /\ i + 1 - 1 = i
      BY <1>1
    <3> QED
      BY <1>2, <2>1, <2>2, <3>1
  <2> QED
    BY <1>1, <1>2, <2>1, <2>2, <2>3
<1> HIDE DEF front
<1>7. /\ Candidates \in Seq(Binaries) /\ Len(Candidates) = n + 2
      /\ \A i \in 1..(n + 1) : Candidates[i] = front[i]
      /\ Candidates[n + 2] = LldbVscode
  <2>1. /\ Candidates \in Seq(Binaries)
        /\ Len(Candidates) = Len(front) + Len(<<LldbVscode>>)
        /\ \A i \in 1..(Len(front) + Len(<<LldbVscode>>)) :
             Candidates[i] = IF i <= Len(front) THEN front[i] ELSE <<LldbVscode>>[i - Len(front)]
    BY <1>4, <1>5, <1>6, ConcatProperties
  <2>2. Len(<<LldbVscode>>) = 1 /\ <<LldbVscode>>[1] = LldbVscode
    OBVIOUS
  <2>3. Candidates[n + 2] = <<LldbVscode>>[1]
    <3>1. n + 2 \in 1..(n + 1 + 1) /\ ~(n + 2 <= n + 1) /\ n + 2 - (n + 1) = 1
      BY <1>1
    <3> QED
      BY <1>6, <2>1, <2>2, <3>1
  <2>4. \A i \in 1..(n + 1) : Candidates[i] = front[i]
    BY <1>1, <1>6, <2>1, <2>2
  <2> QED
    BY <1>1, <1>6, <2>1, <2>2, <2>3, <2>4
<1>8. /\ Candidates[1] = LldbDap
      /\ \A i \in 1..n : Candidates[i + 1] = <<"lldb-dap", Descending[i]>>
  <2>1. 1 \in 1..(n + 1) /\ \A i \in 1..n : i + 1 \in 1..(n + 1)
    BY <1>1
  <2>2. Candidates[1] = LldbDap
    BY <1>6, <1>7, <2>1
  <2>3. ASSUME NEW i \in 1..n PROVE Candidates[i + 1] = <<"lldb-dap", Descending[i]>>
    <3>1. Candidates[i + 1] = front[i + 1]
      BY <1>7, <2>1
    <3>2. front[i + 1] = mid[i] /\ mid[i] = <<"lldb-dap", Descending[i]>>
      BY <1>3, <1>6
    <3> QED
      BY <3>1, <3>2, Zenon
  <2> QED
    BY <2>2, <2>3
<1>9. \A i \in 1..Len(Candidates) :
        i = 1 \/ i = n + 2 \/ \E k \in 1..n : i = k + 1
  <2> SUFFICES ASSUME NEW i \in 1..Len(Candidates), i # 1, i # n + 2
               PROVE  \E k \in 1..n : i = k + 1
    OBVIOUS
  <2>1. i - 1 \in 1..n /\ i = (i - 1) + 1
    BY <1>1, <1>7
  <2> QED
    BY <2>1
<1>10. ASSUME NEW i \in 1..Len(Candidates), NEW j \in 1..Len(Candidates), i <= j
       PROVE  AsGood(Candidates[i], Candidates[j])
  <2>1. CASE j = n + 2
    BY <1>7, <2>1 DEF AsGood
  <2>2. CASE i = 1
    BY <1>8, <2>2 DEF AsGood
  <2>3. CASE i # 1 /\ j # n + 2
    <3>1. PICK l \in 1..n : j = l + 1
      BY <1>1, <1>9, <1>10, <2>3
    <3>2. PICK k \in 1..n : i = k + 1
      BY <1>1, <1>9, <1>10, <2>3, <3>1
    <3>3. k <= l
      BY <1>1, <1>10, <3>1, <3>2
    <3>4. /\ Candidates[i] = <<"lldb-dap", Descending[k]>>
          /\ Candidates[j] = <<"lldb-dap", Descending[l]>>
          /\ Descending[k] >= Descending[l] /\ Descending[l] # 0
      BY <1>1, <1>8, <3>1, <3>2, <3>3
    <3> QED
      BY <3>4 DEF AsGood, LldbDap
  <2> QED
    BY <2>1, <2>2, <2>3
<1> QED
  BY <1>1, <1>7, <1>10

Overridden(e) == e.override \in {"onPath", "file"}

\* What the documentation of find_lldb_dap says of the binary it returns.
IsBest(e, d) ==
  /\ Overridden(e) <=> d.path = FromEnv
  /\ ~Overridden(e) => \A c \in e.onPath : d.path \in e.onPath /\ AsGood(d.path, c)
  /\ ~IsDetected(d) => /\ e.onPath = {} /\ e.xcrun # "path"
                       /\ ToSet(Candidates) \subseteq ToSet(d.searched)

\* An lldb-dap in name, or one that can only be an lldb-dap.
IsKnown(e, d) ==
  IsDetected(d) =>
    (d.isLldbDap <=> ~(d.path = LldbVscode \/ (d.path = FromEnv /\ ~e.namesLldbDap)))

\* find_lldb_dap returns that, in every environment.
LEMMA FindsTheBest ==
  ASSUME NEW e \in Environments
  PROVE  IsBest(e, FindLldbDap(e)) /\ IsKnown(e, FindLldbDap(e))
<1> DEFINE hits == {i \in DOMAIN Candidates : Candidates[i] \in e.onPath}
<1>1. /\ e.override \in {"unset", "onPath", "file", "missing"}
      /\ e.namesLldbDap \in BOOLEAN
      /\ e.onPath \subseteq ToSet(Candidates)
      /\ e.xcrun \in {"notRun", "fails", "path"}
  BY DEF Environments
<1>2. /\ DOMAIN Candidates = 1..Len(Candidates) /\ Len(Candidates) \in Nat
      /\ Candidates \in Seq(Binaries)
  BY CandidatesInOrder
<1>3. \A b \in Binaries : b # FromEnv /\ b # FromXcrun /\ b # <<>>
  BY DEF Binaries, FromEnv, FromXcrun
<1>4. /\ FromEnv # FromXcrun /\ FromEnv # <<>> /\ FromXcrun # <<>> /\ FromXcrun # LldbVscode
      /\ FromEnv # LldbVscode
  BY DEF FromEnv, FromXcrun, LldbVscode
<1>5. CASE Overridden(e)
  <2>1. FindLldbDap(e) = Detected(FromEnv, e.namesLldbDap)
    BY <1>5 DEF FindLldbDap, Overridden
  <2>2. FindLldbDap(e).path = FromEnv /\ FindLldbDap(e).isLldbDap = e.namesLldbDap
    BY <2>1 DEF Detected
  <2> QED
    BY <1>1, <1>4, <1>5, <2>2 DEF IsBest, IsKnown, IsDetected
<1>6. CASE ~Overridden(e) /\ hits # {}
  <2> DEFINE first == Min(hits)
             found == Candidates[first]
  <2>1. hits \in SUBSET Nat
    BY <1>2
  <2>2. first \in hits /\ \A i \in hits : first <= i
    <3> HIDE DEF hits
    <3> QED
      BY <1>6, <2>1, FirstExists
  <2>3. FindLldbDap(e) = Detected(found, IsCapable(found))
    <3>1. e.override \in {"unset", "missing"} /\ e.override \notin {"onPath", "file"}
      BY <1>1, <1>6 DEF Overridden
    <3> QED
      BY <1>6, <3>1 DEF FindLldbDap
  <2> HIDE DEF first
  <2>4. found \in Binaries /\ found \in e.onPath
    BY <1>2, <2>2
  <2>5. \A c \in e.onPath : AsGood(found, c)
    <3> SUFFICES ASSUME NEW c \in e.onPath PROVE AsGood(found, c)
      OBVIOUS
    <3>1. PICK i \in DOMAIN Candidates : c = Candidates[i]
      BY <1>1 DEF ToSet
    <3>2. i \in hits
      BY <3>1
    <3> QED
      BY <1>2, <2>2, <3>1, <3>2, CandidatesInOrder
  <2> HIDE DEF found
  <2>6. FindLldbDap(e).path = found /\ FindLldbDap(e).isLldbDap = IsCapable(found)
    BY <2>3 DEF Detected
  <2>7. IsDetected(FindLldbDap(e)) /\ found # FromEnv
    BY <1>3, <2>4, <2>6 DEF IsDetected
  <2> QED
    BY <1>6, <2>4, <2>5, <2>6, <2>7 DEF IsBest, IsKnown, IsCapable
<1>7. CASE ~Overridden(e) /\ hits = {}
  <2>1. e.onPath = {}
    BY <1>1, <1>7 DEF ToSet
  <2>2. e.override \in {"unset", "missing"} /\ e.override \notin {"onPath", "file"}
    BY <1>1, <1>7 DEF Overridden
  <2>3. CASE e.xcrun = "path"
    <3>1. FindLldbDap(e) = Detected(FromXcrun, TRUE)
      BY <1>7, <2>2, <2>3 DEF FindLldbDap
    <3>2. FindLldbDap(e).path = FromXcrun /\ FindLldbDap(e).isLldbDap = TRUE
      BY <3>1 DEF Detected
    <3> QED
      BY <1>4, <1>7, <2>1, <3>2 DEF IsBest, IsKnown, IsDetected
  <2>4. CASE e.xcrun # "path"
    <3> DEFINE a == IF e.override = "missing" THEN <<FromEnv>> ELSE <<>>
               z == IF e.xcrun # "notRun" THEN <<FromXcrun>> ELSE <<>>
               All == Binaries \cup {FromEnv, FromXcrun}
    <3>1. FindLldbDap(e) = NotFound(a \o Candidates \o z)
      BY <1>7, <2>2, <2>4 DEF FindLldbDap
    <3>2. a \in Seq(All) /\ z \in Seq(All) /\ Candidates \in Seq(All)
      <4>1. a \in Seq(All) /\ z \in Seq(All)
        <5>1. FromEnv \in All /\ FromXcrun \in All
          OBVIOUS
        <5> HIDE DEF All
        <5> QED
          BY <5>1
      <4>2. Candidates \in Seq(All)
        BY <1>2
      <4> QED
        BY <4>1, <4>2
    <3> HIDE DEF a, z, All
    <3>3. ToSet(Candidates) \subseteq ToSet((a \o Candidates) \o z)
      <4>1. /\ a \o Candidates \in Seq(All) /\ Len(a \o Candidates) = Len(a) + Len(Candidates)
            /\ \A i \in 1..(Len(a) + Len(Candidates)) :
                 (a \o Candidates)[i] = IF i <= Len(a) THEN a[i] ELSE Candidates[i - Len(a)]
        BY <3>2, ConcatProperties
      <4> DEFINE b == a \o Candidates
      <4>2. b \in Seq(All)
        BY <4>1
      <4> HIDE DEF b
      <4>3. /\ b \o z \in Seq(All) /\ Len(b \o z) = Len(b) + Len(z)
            /\ \A i \in 1..(Len(b) + Len(z)) :
                 (b \o z)[i] = IF i <= Len(b) THEN b[i] ELSE z[i - Len(b)]
        BY <3>2, <4>2, ConcatProperties
      <4>4. Len(a) \in Nat /\ Len(z) \in Nat
        BY <3>2
      <4>5. ASSUME NEW i \in 1..Len(Candidates)
            PROVE  \E k \in DOMAIN (b \o z) : (b \o z)[k] = Candidates[i]
        <5>1. PICK k \in Nat : k = Len(a) + i
          BY <1>2, <4>4
        <5>2. k \in 1..(Len(a) + Len(Candidates)) /\ ~(k <= Len(a)) /\ k - Len(a) = i
          BY <1>2, <4>4, <5>1
        <5>3. b[k] = Candidates[i]
          BY <4>1, <5>2 DEF b
        <5>4. Len(b) = Len(a) + Len(Candidates)
          BY <4>1 DEF b
        <5>5. k \in 1..(Len(b) + Len(z)) /\ k <= Len(b)
          BY <1>2, <4>4, <5>2, <5>4
        <5>6. DOMAIN (b \o z) = 1..(Len(b) + Len(z))
          BY <4>3
        <5> QED
          BY <4>3, <5>3, <5>5, <5>6
      <4> QED
        BY <1>2, <4>5 DEF ToSet, b
    <3>4. FindLldbDap(e).path = <<>> /\ FindLldbDap(e).searched = (a \o Candidates) \o z
      BY <3>1 DEF NotFound
    <3> QED
      BY <1>4, <1>7, <2>1, <2>4, <3>3, <3>4 DEF IsBest, IsKnown, IsDetected
  <2> QED
    BY <2>3, <2>4
<1> QED
  BY <1>5, <1>6, <1>7

\* The adapter is what the search finds in this environment, a call that needs
\* one has one, and a command was worded for the one there is.
SearchInv ==
  /\ env \in Environments
  /\ NothingSentYet
  /\ adapter # None => adapter = FindLldbDap(env)
  /\ pc = "call" => adapter = FindLldbDap(env) /\ IsDetected(adapter)
  /\ pc = "connect" => request = None \/ request.command \in {"launch", "attach"}
  /\ request # None /\ request.command = "evaluate" =>
       adapter = FindLldbDap(env) /\ IsDetected(adapter) /\ request.address = Backtick
  /\ pc = "call" \/ (request # None /\ request.command = "evaluate") =>
       child = Spawn(adapter)

\* A tool's call leaves the adapter as it is and words a command for it.
LEMMA ForwardKeepsSearchInv ==
  ASSUME SearchInv, NEW tool, NEW arg, NEW address, NEW command, NEW number,
         Forward(tool, arg, address, command, number),
         Connects(tool) => command \in {"launch", "attach"},
         command = "evaluate" => ~Connects(tool) /\ address = Backtick
  PROVE  SearchInv'
<1>1. request = None /\ UNCHANGED <<env, adapter, child>>
  BY DEF Forward, SearchInv, NothingSentYet
<1>2. CASE ~IsOk(number)
  <2>1. request' = None /\ pc' = "done"
    BY <1>1, <1>2 DEF Forward, Finish
  <2> QED
    BY <1>1, <2>1 DEF SearchInv, NothingSentYet
<1>3. CASE IsOk(number)
  <2>1. /\ request' = Request(command, number.value, address)
        /\ pc' = IF Connects(tool) THEN "connect" ELSE "sent"
        /\ pc = IF Connects(tool) THEN "idle" ELSE "call"
    BY <1>3 DEF Forward
  <2>2. request'.command = command /\ request'.address = address
    BY <2>1 DEF Request
  <2>3. NothingSentYet' /\ (pc' = "call" => FALSE)
    BY <2>1 DEF NothingSentYet
  <2>4. pc' = "connect" => request'.command \in {"launch", "attach"}
    BY <2>1, <2>2
  <2>5. request'.command = "evaluate" =>
          adapter = FindLldbDap(env) /\ IsDetected(adapter) /\ request'.address = Backtick'
            /\ child = Spawn(adapter)
    BY <1>1, <2>1, <2>2 DEF SearchInv, Backtick, ReplMode
  <2> QED
    BY <1>1, <2>3, <2>4, <2>5 DEF SearchInv
<1> QED
  BY <1>2, <1>3

\* Every step keeps SearchInv.
LEMMA SearchInvInductive == Spec => []SearchInv
<1>1. Init => SearchInv
  BY OneShotAssumption DEF OneShotAssumption, Init, SearchInv, NothingSentYet
<1>2. SearchInv /\ [Next]_vars => SearchInv'
  <2> SUFFICES ASSUME SearchInv, [Next]_vars PROVE SearchInv'
    OBVIOUS
  <2>1. ASSUME pc' \in {"sent", "done"}, UNCHANGED <<env, adapter, child, request>> PROVE SearchInv'
    BY <2>1 DEF SearchInv, NothingSentYet, Backtick, ReplMode
  <2>2. CASE Connect
    <3>1. /\ adapter' = FindLldbDap(env) /\ UNCHANGED <<env, request>>
          /\ request = None \/ request.command \in {"launch", "attach"}
          /\ pc' \in {"call", "sent"} => IsDetected(adapter') /\ child' = Spawn(adapter')
          /\ pc' \in {"call", "sent", "done"} /\ (pc' = "call" => request = None)
      BY <2>2 DEF Connect, Finish, SearchInv
    <3> HIDE DEF SearchInv
    <3>2. env \in Environments
      BY DEF SearchInv
    <3> QED
      BY <3>1, <3>2 DEF SearchInv, NothingSentYet
  <2>3. CASE ReadMemory
    <3>1. PICK arg, address, number : Forward("read_memory", arg, address, "readMemory", number)
      BY <2>3 DEF ReadMemory
    <3> QED
      BY <3>1, ForwardKeepsSearchInv DEF Connects
  <2>4. CASE SetBreakpoint
    <3>1. PICK arg, number : Forward("set_breakpoint", arg, None, "setBreakpoints", number)
      BY <2>4 DEF SetBreakpoint
    <3> QED
      BY <3>1, ForwardKeepsSearchInv DEF Connects
  <2>5. CASE Continue
    <3>1. PICK arg, number : Forward("continue", arg, None, "continue", number)
      BY <2>5 DEF Continue
    <3> QED
      BY <3>1, ForwardKeepsSearchInv DEF Connects
  <2>6. CASE AttachTo
    <3>1. PICK arg, address, number : Forward("attach", arg, address, "attach", number)
      BY <2>6 DEF AttachTo
    <3> QED
      BY <3>1, ForwardKeepsSearchInv
  <2>7. CASE Launch
    <3>1. PICK address, number : Forward("launch", Absent, address, "launch", number)
      BY <2>7 DEF Launch
    <3> QED
      BY <3>1, ForwardKeepsSearchInv
  <2>8. CASE Backtrace
    <3>1. PICK arg, number : Forward("backtrace", arg, None, "stackTrace", number)
      BY <2>8 DEF Backtrace
    <3> QED
      BY <3>1, ForwardKeepsSearchInv DEF Connects
  <2>9. CASE Disassemble
    <3>1. PICK arg, address, command, number :
            /\ Forward("disassemble", arg, address, command, number)
            /\ command \in {"disassemble", "stackTrace"}
      BY <2>9 DEF Disassemble
    <3> QED
      BY <3>1, ForwardKeepsSearchInv DEF Connects
  <2>10. CASE ResolvePc
    <3>1. UNCHANGED <<env, adapter, child>> /\ pc = "sent" /\ pc' \in {"sent", "done"}
      BY <2>10 DEF ResolvePc, Finish
    <3>2. request' = request \/ request'.command = "disassemble"
      BY <2>10 DEF ResolvePc, Request
    <3>3. CASE request' = request
      BY <2>1, <3>1, <3>3
    <3>4. CASE request'.command = "disassemble"
      BY <3>1, <3>4 DEF SearchInv, NothingSentYet
    <3> QED
      BY <3>2, <3>3, <3>4
  <2>11. CASE RunCommand
    <3>1. Forward("run_command", Absent, Backtick, "evaluate", Ok(0))
      BY <2>11 DEF RunCommand
    <3> QED
      BY <3>1, ForwardKeepsSearchInv DEF Connects
  <2>12. CASE Refused
    BY <2>1, <2>12 DEF Refused, Finish
  <2>13. CASE MemoryRead
    BY <2>1, <2>13 DEF MemoryRead, Finish
  <2>14. CASE Disassembled
    BY <2>1, <2>14 DEF Disassembled, Finish
  <2>15. CASE Answered
    BY <2>1, <2>15 DEF Answered, Finish
  <2>16. CASE ReadOutput
    BY <2>1, <2>16 DEF ReadOutput, Finish
  <2>17. CASE UNCHANGED vars
    BY <2>17 DEF vars, SearchInv, NothingSentYet, Backtick, ReplMode
  <2> QED
    BY <2>2, <2>3, <2>4, <2>5, <2>6, <2>7, <2>8, <2>9, <2>10, <2>11, <2>12,
       <2>13, <2>14, <2>15, <2>16, <2>17 DEF Next
<1> QED
  BY <1>1, <1>2, PTL DEF Spec

\* find_lldb_dap takes the override, or else the best of what is installed,
\* however many versions it knows of.
THEOREM TheBestAdapterIsFound == Spec => []PrefersTheNewest
<1>1. SearchInv => PrefersTheNewest
  <2> SUFFICES ASSUME SearchInv, adapter # None PROVE PrefersTheNewest
    BY DEF PrefersTheNewest
  <2>1. env \in Environments /\ adapter = FindLldbDap(env)
    BY DEF SearchInv
  <2>2. IsBest(env, adapter)
    BY <2>1, FindsTheBest
  <2> QED
    BY <2>2 DEF IsBest, Overridden, PrefersTheNewest
<1> QED
  BY <1>1, SearchInvInductive, PTL

\* run_command words its text for the binary that detection chose and that
\* the factory spawned.
THEOREM CommandsFitTheAdapter == Spec => []CommandFitsTheAdapter
<1>1. SearchInv => CommandFitsTheAdapter
  <2> DEFINE legacy(path) == path = LldbVscode \/ (path = FromEnv /\ ~env.namesLldbDap)
  <2> SUFFICES ASSUME SearchInv, request # None, request.command = "evaluate"
               PROVE  /\ child.replMode <=> ~legacy(child.path)
                      /\ request.address = IF child.replMode THEN "raw" ELSE "backtick"
    BY DEF CommandFitsTheAdapter
  <2>1. /\ env \in Environments /\ adapter = FindLldbDap(env)
        /\ IsDetected(adapter) /\ request.address = Backtick /\ child = Spawn(adapter)
    BY DEF SearchInv
  <2>2. child.path = adapter.path /\ child.replMode = adapter.isLldbDap
    BY <2>1 DEF Spawn
  <2>3. adapter.isLldbDap <=> ~legacy(adapter.path)
    BY <2>1, FindsTheBest DEF IsKnown
  <2> QED
    BY <2>1, <2>2, <2>3 DEF Backtick, ReplMode
<1> QED
  BY <1>1, SearchInvInductive, PTL

----------------------------------------------------------------------------
(* read_output *)

\* One turn of the loop over the entries, for the bucket's string so far.
Push(text, entry, bucket) ==
  IF Bucket(entry.category) = bucket THEN Append(text, entry) ELSE text

\* f[k] is the bucket's string after k entries.
Pushes(f, n, entries, bucket) ==
  f = [k \in 0..n |-> IF k = 0 THEN <<>> ELSE Push(f[k - 1], entries[k], bucket)]

\* The loop can be run to any length: were there a first length it cannot,
\* the run before it and one more turn would be a run of that length.
LEMMA PushesExist ==
  ASSUME NEW entries, NEW bucket, NEW n \in Nat
  PROVE  \E f : Pushes(f, n, entries, bucket)
<1> DEFINE Stuck == {k \in Nat : ~ \E f : Pushes(f, k, entries, bucket)}
<1>1. ASSUME Stuck # {} PROVE FALSE
  <2>1. PICK m \in Stuck : \A k \in Stuck : m <= k
    <3>1. Stuck \in SUBSET Nat
      OBVIOUS
    <3> HIDE DEF Stuck
    <3> QED
      BY <1>1, <3>1, FirstExists
  <2>2. m \in Nat /\ ~ \E f : Pushes(f, m, entries, bucket)
    BY <2>1
  <2>3. CASE m = 0
    <3>1. Pushes([k \in 0..0 |-> <<>>], 0, entries, bucket)
      BY DEF Pushes
    <3> QED
      BY <2>2, <2>3, <3>1
  <2>4. CASE m # 0
    <3>1. m - 1 \in Nat /\ m - 1 \notin Stuck
      BY <2>1, <2>2, <2>4
    <3>2. PICK f : Pushes(f, m - 1, entries, bucket)
      BY <3>1
    <3> DEFINE g == [k \in 0..m |-> IF k = m THEN Push(f[m - 1], entries[m], bucket) ELSE f[k]]
    <3>3. ASSUME NEW k \in 0..m
          PROVE  g[k] = IF k = 0 THEN <<>> ELSE Push(g[k - 1], entries[k], bucket)
      <4>1. CASE k = m
        <5>1. m - 1 \in 0..m /\ m - 1 # m
          BY <2>2, <2>4
        <5>2. g[m - 1] = f[m - 1]
          BY <5>1
        <5> QED
          BY <2>4, <4>1, <5>2
      <4>2. CASE k # m
        <5>1. k \in 0..(m - 1)
          BY <2>2, <4>2
        <5>2. f[k] = IF k = 0 THEN <<>> ELSE Push(f[k - 1], entries[k], bucket)
          BY <3>2, <5>1 DEF Pushes
        <5>3. k # 0 => k - 1 \in 0..m /\ k - 1 # m
          BY <5>1, <2>2
        <5>4. k # 0 => g[k - 1] = f[k - 1]
          BY <5>3
        <5> QED
          BY <4>2, <5>2, <5>4
      <4> QED
        BY <4>1, <4>2
    <3>4. Pushes(g, m, entries, bucket)
      <4>1. g = [k \in 0..m |-> g[k]]
        OBVIOUS
      <4> HIDE DEF g
      <4>2. [k \in 0..m |-> g[k]] =
              [k \in 0..m |-> IF k = 0 THEN <<>> ELSE Push(g[k - 1], entries[k], bucket)]
        BY <3>3
      <4> QED
        BY <4>1, <4>2 DEF Pushes
    <3> QED
      BY <2>2, <3>4
  <2> QED
    BY <2>3, <2>4
<1> QED
  BY <1>1

\* Every entry of the bucket is there, in the order of the entries.
InOrder(text, n, entries, bucket) ==
  /\ text \in Seq({entries[i] : i \in 1..n})
  /\ \A i \in 1..n : Bucket(entries[i].category) = bucket =>
       \E m \in DOMAIN text : text[m] = entries[i]
  /\ \A i, j \in 1..n :
       i < j /\ Bucket(entries[i].category) = bucket /\ Bucket(entries[j].category) = bucket =>
         \E m, k \in DOMAIN text : m < k /\ text[m] = entries[i] /\ text[k] = entries[j]

\* One turn of the loop keeps the order.
LEMMA PushKeepsOrder ==
  ASSUME NEW entries, NEW bucket, NEW n \in Nat \ {0}, NEW text,
         InOrder(text, n - 1, entries, bucket)
  PROVE  InOrder(Push(text, entries[n], bucket), n, entries, bucket)
<1> DEFINE pushed == Push(text, entries[n], bucket)
           E == {entries[i] : i \in 1..n}
<1>1. text \in Seq(E)
  <2>1. {entries[i] : i \in 1..(n - 1)} \subseteq E
    OBVIOUS
  <2>2. text \in Seq({entries[i] : i \in 1..(n - 1)})
    BY DEF InOrder
  <2> QED
    BY <2>1, <2>2
<1>2. entries[n] \in E
  OBVIOUS
<1>3. \A i \in 1..n : i \in 1..(n - 1) \/ i = n
  OBVIOUS
<1>4. CASE Bucket(entries[n].category) # bucket
  <2>1. pushed = text
    BY <1>4 DEF Push
  <2>2. /\ \A i \in 1..n : Bucket(entries[i].category) = bucket =>
             \E m \in DOMAIN text : text[m] = entries[i]
        /\ \A i, j \in 1..n :
             i < j /\ Bucket(entries[i].category) = bucket /\ Bucket(entries[j].category) = bucket =>
               \E m, k \in DOMAIN text : m < k /\ text[m] = entries[i] /\ text[k] = entries[j]
    BY <1>3, <1>4 DEF InOrder
  <2> QED
    BY <1>1, <2>1, <2>2 DEF InOrder
<1>5. CASE Bucket(entries[n].category) = bucket
  <2> DEFINE longer == Append(text, entries[n])
  <2>1. pushed = longer
    BY <1>5 DEF Push
  <2>2. /\ longer \in Seq(E)
        /\ Len(text) \in Nat
        /\ DOMAIN text = 1..Len(text)
        /\ DOMAIN longer = 1..(Len(text) + 1)
        /\ \A m \in 1..Len(text) : longer[m] = text[m]
        /\ longer[Len(text) + 1] = entries[n]
    <3> HIDE DEF E
    <3> QED
      BY <1>1, <1>2, AppendProperties
  <2> HIDE DEF longer, E
  <2>3. ASSUME NEW i \in 1..n, Bucket(entries[i].category) = bucket
        PROVE  \E m \in DOMAIN longer : longer[m] = entries[i] /\ (i # n => m <= Len(text))
    <3>1. CASE i = n
      BY <2>2, <3>1
    <3>2. CASE i \in 1..(n - 1)
      <4>1. PICK m \in DOMAIN text : text[m] = entries[i]
        BY <2>3, <3>2 DEF InOrder
      <4> QED
        BY <2>2, <4>1
    <3> QED
      BY <1>3, <3>1, <3>2
  <2>4. ASSUME NEW i \in 1..n, NEW j \in 1..n, i < j,
               Bucket(entries[i].category) = bucket, Bucket(entries[j].category) = bucket
        PROVE  \E m, k \in DOMAIN longer : m < k /\ longer[m] = entries[i] /\ longer[k] = entries[j]
    <3>1. CASE j = n
      <4>1. PICK m \in DOMAIN longer : longer[m] = entries[i] /\ m <= Len(text)
        BY <2>3, <2>4, <3>1
      <4>2. Len(text) + 1 \in DOMAIN longer /\ m < Len(text) + 1
        BY <2>2, <4>1
      <4> QED
        BY <2>2, <3>1, <4>1, <4>2
    <3>2. CASE j # n
      <4>1. i \in 1..(n - 1) /\ j \in 1..(n - 1)
        BY <2>4, <3>2
      <4>2. PICK m, k \in DOMAIN text : m < k /\ text[m] = entries[i] /\ text[k] = entries[j]
        BY <2>4, <4>1 DEF InOrder
      <4> QED
        BY <2>2, <4>2
    <3> QED
      BY <3>1, <3>2
  <2> QED
    BY <2>1, <2>2, <2>3, <2>4 DEF InOrder, E
<1> QED
  BY <1>4, <1>5

\* A bucket's string holds the entries of that bucket in their order.
LEMMA PushedInOrder ==
  ASSUME NEW S, NEW entries \in Seq(S), NEW bucket
  PROVE  InOrder(Pushed(entries, bucket), Len(entries), entries, bucket)
<1> DEFINE upTo == CHOOSE f : Pushes(f, Len(entries), entries, bucket)
<1>1. Len(entries) \in Nat
  OBVIOUS
<1>2. Pushes(upTo, Len(entries), entries, bucket)
  BY <1>1, PushesExist
<1>3. Pushed(entries, bucket) = upTo[Len(entries)]
  BY DEF Pushed, Pushes, Push
<1> HIDE DEF upTo
<1> DEFINE Wrong == {k \in 0..Len(entries) : ~InOrder(upTo[k], k, entries, bucket)}
<1>4. ASSUME Wrong # {} PROVE FALSE
  <2>1. PICK m \in Wrong : \A k \in Wrong : m <= k
    <3>1. Wrong \in SUBSET Nat
      BY <1>1
    <3> HIDE DEF Wrong
    <3> QED
      BY <1>4, <3>1, FirstExists
  <2>2. m \in 0..Len(entries) /\ ~InOrder(upTo[m], m, entries, bucket)
    BY <2>1
  <2>3. CASE m = 0
    <3>1. upTo[0] = <<>>
      BY <1>1, <1>2 DEF Pushes
    <3>2. InOrder(<<>>, 0, entries, bucket)
      BY DEF InOrder
    <3> QED
      BY <2>2, <2>3, <3>1, <3>2
  <2>4. CASE m # 0
    <3>1. m \in Nat \ {0} /\ m - 1 \in 0..Len(entries) /\ m - 1 \notin Wrong
      BY <1>1, <2>1, <2>2, <2>4
    <3>2. InOrder(upTo[m - 1], m - 1, entries, bucket)
      BY <3>1
    <3>3. upTo[m] = Push(upTo[m - 1], entries[m], bucket)
      BY <1>2, <2>2, <2>4 DEF Pushes
    <3> QED
      BY <2>2, <3>1, <3>2, <3>3, PushKeepsOrder
  <2> QED
    BY <2>3, <2>4
<1> QED
  BY <1>1, <1>3, <1>4

\* Groups that keep every two entries of a bucket in their order.
Ordered(entries, groups) ==
  \A i, j \in DOMAIN entries :
    i < j /\ Bucket(entries[i].category) = Bucket(entries[j].category) =>
      LET shown == groups[Bucket(entries[i].category)] IN
        \E m, n \in DOMAIN shown : m < n /\ shown[m] = entries[i] /\ shown[n] = entries[j]

\* Grouped keeps it.
LEMMA OutputInOrder ==
  ASSUME NEW S, NEW entries \in Seq(S)
  PROVE  Ordered(entries, Grouped(entries))
<1> SUFFICES ASSUME NEW i \in DOMAIN entries, NEW j \in DOMAIN entries, i < j,
                    Bucket(entries[i].category) = Bucket(entries[j].category)
             PROVE  LET shown == Grouped(entries)[Bucket(entries[i].category)] IN
                      \E m, n \in DOMAIN shown :
                        m < n /\ shown[m] = entries[i] /\ shown[n] = entries[j]
  BY DEF Ordered
<1>1. DOMAIN entries = 1..Len(entries)
  OBVIOUS
<1>2. Grouped(entries)[Bucket(entries[i].category)] = Pushed(entries, Bucket(entries[i].category))
  BY DEF Grouped
<1>3. InOrder(Pushed(entries, Bucket(entries[i].category)), Len(entries), entries,
              Bucket(entries[i].category))
  BY PushedInOrder
<1>4. \A text, bucket :
        /\ InOrder(text, Len(entries), entries, bucket)
        /\ Bucket(entries[i].category) = bucket /\ Bucket(entries[j].category) = bucket
        => \E m, n \in DOMAIN text : m < n /\ text[m] = entries[i] /\ text[n] = entries[j]
  BY <1>1 DEF InOrder
<1> QED
  BY <1>2, <1>3, <1>4

----------------------------------------------------------------------------
(* format_hex_dump *)

\* Division with remainder, ...
LEMMA Quotient ==
  ASSUME NEW a \in Nat, NEW b \in Nat \ {0}
  PROVE  \E q \in Nat, r \in 0..(b - 1) : q = a \div b /\ r = a % b /\ a = b * q + r
OBVIOUS

\* ... and there is only one.
LEMMA QuotientUnique ==
  ASSUME NEW a \in Nat, NEW b \in Nat \ {0},
         NEW q \in Nat, NEW r \in 0..(b - 1), a = b * q + r
  PROVE  r = a % b
<1>1. PICK Q \in Nat, R \in 0..(b - 1) : Q = a \div b /\ R = a % b /\ a = b * Q + R
  BY Quotient
<1>2. ASSUME NEW m \in Nat, NEW n \in Nat, m < n PROVE b * n >= b * m + b
  <2>1. PICK d \in Nat : n = m + 1 + d
    <3>1. n = m + 1 + (n - m - 1) /\ n - m - 1 \in Nat
      BY <1>2
    <3> QED
      BY <3>1
  <2>2. b * n = b * m + b + b * d /\ b * d \in Nat
    BY <2>1
  <2> QED
    BY <2>2
<1>3. b * q \in Nat /\ b * Q \in Nat
  OBVIOUS
<1>4. ~(q < Q) /\ ~(Q < q)
  BY <1>1, <1>2, <1>3
<1>5. q = Q
  BY <1>4
<1> QED
  BY <1>1, <1>3, <1>5

\* A remainder may be taken early.
LEMMA RemainderEarly ==
  ASSUME NEW a \in Nat, NEW c \in Nat, NEW b \in Nat \ {0}
  PROVE  ((a % b) + c) % b = (a + c) % b
<1>1. PICK q \in Nat, m \in 0..(b - 1) : m = a % b /\ a = b * q + m
  BY Quotient
<1>2. m + c \in Nat
  OBVIOUS
<1>3. PICK p \in Nat, n \in 0..(b - 1) : n = (m + c) % b /\ m + c = b * p + n
  BY <1>2, Quotient
<1>4. b * (q + p) = b * q + b * p /\ q + p \in Nat /\ b * q \in Nat /\ b * p \in Nat
  OBVIOUS
<1>5. PICK k \in Nat, s \in Nat : k = q + p /\ s = a + c
  BY <1>4
<1>6. s = b * k + n
  BY <1>1, <1>3, <1>4, <1>5
<1>7. n = s % b
  BY <1>6, QuotientUnique
<1> QED
  BY <1>1, <1>3, <1>5, <1>7

\* The end of a row is that of the data, if that comes first.
LEMMA MinOfTwo ==
  ASSUME NEW a \in Nat, NEW b \in Nat
  PROVE  Min({a, b}) = IF a <= b THEN a ELSE b
<1>1. {a, b} \in SUBSET Nat /\ {a, b} # {}
  OBVIOUS
<1>2. Min({a, b}) \in {a, b} /\ \A m \in {a, b} : Min({a, b}) <= m
  BY <1>1, FirstExists
<1> QED
  BY <1>2

\* How many bytes are on the row at an offset.
Width(data, offset) == IF offset + RowBytes <= Len(data) THEN RowBytes ELSE Len(data) - offset

\* A row shows the bytes from its offset on, at the address of the first.
RowFits(row, data, start, offset) ==
  /\ Width(data, offset) \in 1..RowBytes
  /\ row.address = (start + offset) % AddressSpace
  /\ Len(row.bytes) = Width(data, offset)
  /\ DOMAIN row.bytes = 1..Width(data, offset)
  /\ \A c \in 1..Width(data, offset) : row.bytes[c] = data[offset + c]

\* Row makes such a row, at any offset in the data.
LEMMA RowShows ==
  ASSUME NEW data \in Seq(Nat), NEW start \in Nat, NEW offset \in 0..(Len(data) - 1)
  PROVE  RowFits(Row(data, start, offset), data, start, offset)
<1>0. Len(data) \in Nat /\ offset \in Nat /\ RowBytes \in Nat \ {0} /\ offset + RowBytes \in Nat
  BY OneShotAssumption DEF OneShotAssumption
<1>1. PICK last \in Nat : last = Min({offset + RowBytes, Len(data)})
         /\ last = offset + Width(data, offset)
  <2>1. Min({offset + RowBytes, Len(data)}) =
          IF offset + RowBytes <= Len(data) THEN offset + RowBytes ELSE Len(data)
    BY <1>0, MinOfTwo
  <2> QED
    BY <1>0, <2>1 DEF Width
<1>2. Width(data, offset) \in 1..RowBytes
  BY <1>0 DEF Width
<1>3. /\ Row(data, start, offset).bytes = SubSeq(data, offset + 1, last)
      /\ Row(data, start, offset).address = (start + offset) % AddressSpace
  BY <1>1 DEF Row
<1>4. last <= Len(data)
  BY <1>0, <1>1 DEF Width
<1> DEFINE bytes == SubSeq(data, offset + 1, last)
<1>5. /\ Len(bytes) = last - offset
      /\ \A c \in 1..(last - offset) : bytes[c] = data[offset + c]
      /\ bytes \in Seq(Nat)
  <2>1. /\ SubSeq(data, offset + 1, last) \in Seq(Nat)
        /\ Len(SubSeq(data, offset + 1, last)) =
             IF offset + 1 <= last THEN last - (offset + 1) + 1 ELSE 0
        /\ \A i \in 1..(last - (offset + 1) + 1) :
             SubSeq(data, offset + 1, last)[i] = data[(offset + 1) + i - 1]
    <3>1. \A i \in (offset + 1)..last : i \in 1..Len(data)
      BY <1>0, <1>4
    <3> QED
      BY <1>0, <3>1, SubSeqProperties, SMTT(30)
  <2>2. offset + 1 <= last
    BY <1>0, <1>1, <1>2
  <2>3. last - (offset + 1) + 1 = last - offset
    BY <1>0
  <2>4. ASSUME NEW c \in 1..(last - offset) PROVE bytes[c] = data[offset + c]
    <3>1. (offset + 1) + c - 1 = offset + c
      BY <1>0
    <3> QED
      BY <2>1, <2>3, <3>1
  <2> QED
    BY <2>1, <2>2, <2>3, <2>4
<1>6. last - offset = Width(data, offset)
  BY <1>0, <1>1, <1>2
<1> HIDE DEF bytes
<1>7. DOMAIN bytes = 1..Len(bytes)
  BY <1>5
<1> QED
  BY <1>2, <1>3, <1>5, <1>6, <1>7 DEF bytes, RowFits

\* How many rows, and which bytes are on each.
Rows(data) == (Len(data) + RowBytes - 1) \div RowBytes
Offset(r) == RowBytes * (r - 1)

\* Every row begins in the data, and every byte is on one of them.
LEMMA RowsCover ==
  ASSUME NEW data \in Seq(Nat), data # <<>>
  PROVE  /\ Rows(data) \in Nat
         /\ \A r \in 1..Rows(data) : Offset(r) \in 0..(Len(data) - 1)
         /\ \A i \in 1..Len(data) :
              \E r \in 1..Rows(data) : \E c \in 1..Width(data, Offset(r)) : i = Offset(r) + c
<1>1. PICK L \in Nat, R \in Nat, A \in Nat :
         /\ L = Len(data) /\ R = RowBytes /\ A = L + R - 1 /\ L >= 1 /\ R >= 1
  <2>1. Len(data) \in Nat /\ Len(data) >= 1
    BY EmptySeq
  <2>2. RowBytes \in Nat /\ RowBytes >= 1
    BY OneShotAssumption DEF OneShotAssumption
  <2> QED
    BY <2>1, <2>2
<1>2. PICK N \in Nat, M \in 0..(R - 1) : N = A \div R /\ A = R * N + M
  <2>1. R \in Nat \ {0}
    BY <1>1
  <2> QED
    BY <2>1, Quotient, Zenon
<1>3. Rows(data) = N /\ R * N \in Nat
  BY <1>1, <1>2 DEF Rows
<1>4. ASSUME NEW r \in 1..Rows(data)
      PROVE  Offset(r) \in 0..(Len(data) - 1)
  <2>1. PICK q \in Nat, d \in Nat : r = q + 1 /\ N = q + 1 + d
    <3>1. r = (r - 1) + 1 /\ N = (r - 1) + 1 + (N - r) /\ r - 1 \in Nat /\ N - r \in Nat
      BY <1>3, <1>4
    <3> QED
      BY <3>1
  <2>2. R * N = R * q + R + R * d /\ R * q \in Nat /\ R * d \in Nat
    BY <2>1
  <2>3. Offset(r) = R * q
    <3>1. r - 1 = q
      BY <2>1
    <3> QED
      BY <1>1, <3>1 DEF Offset
  <2>4. R * q + R <= L + R - 1
    BY <1>1, <1>2, <2>2
  <2> QED
    BY <1>1, <2>2, <2>3, <2>4
<1>5. ASSUME NEW i \in 1..Len(data)
      PROVE  \E r \in 1..Rows(data) : \E c \in 1..Width(data, Offset(r)) : i = Offset(r) + c
  <2>1. PICK q \in Nat, m \in 0..(R - 1) : i - 1 = R * q + m
    <3>1. PICK j \in Nat : j = i - 1
      BY <1>5
    <3>2. R \in Nat \ {0}
      BY <1>1
    <3>3. \E q \in Nat, m \in 0..(R - 1) : q = j \div R /\ m = j % R /\ j = R * q + m
      BY <3>2, Quotient, Zenon
    <3> QED
      BY <3>1, <3>3
  <2>2. R * q \in Nat
    OBVIOUS
  <2>3. q + 1 <= N
    <3>1. ASSUME NEW d \in Nat, q = N + d PROVE FALSE
      <4>1. R * q = R * N + R * d /\ R * d \in Nat
        BY <3>1
      <4>2. R * N >= L
        BY <1>1, <1>2, <1>3
      <4> QED
        BY <1>1, <1>3, <2>1, <2>2, <4>1, <4>2
    <3>2. ~(q >= N)
      <4>1. q >= N => q = N + (q - N) /\ q - N \in Nat
        OBVIOUS
      <4> QED
        BY <3>1, <4>1
    <3> QED
      BY <3>2
  <2>4. q + 1 \in 1..Rows(data) /\ Offset(q + 1) = R * q
    <3>1. (q + 1) - 1 = q
      OBVIOUS
    <3> QED
      BY <1>1, <1>3, <2>3, <3>1 DEF Offset
  <2>5. m + 1 \in 1..Width(data, R * q)
    BY <1>1, <2>1, <2>2 DEF Width
  <2>6. i = R * q + (m + 1)
    BY <2>1, <2>2
  <2> QED
    BY <2>4, <2>5, <2>6
<1> QED
  BY <1>3, <1>4, <1>5

\* Byte i and its address.
Cell(data, start, i) == <<(start + i - 1) % AddressSpace, data[i]>>

\* The rows show each byte at its address, and nothing else.
DumpFits(rows, data, start) ==
  /\ \A r \in DOMAIN rows : /\ rows[r].address < AddressSpace
                           /\ Len(rows[r].bytes) \in 1..RowBytes
  /\ UNION {{<<(rows[r].address + c - 1) % AddressSpace, rows[r].bytes[c]>> :
               c \in DOMAIN rows[r].bytes} : r \in DOMAIN rows}
       = {Cell(data, start, i) : i \in DOMAIN data}

\* HexDump makes such rows.
LEMMA DumpShows ==
  ASSUME NEW data \in Seq(Nat), data # <<>>, NEW start \in Nat
  PROVE  DumpFits(HexDump(data, start), data, start)
<1> DEFINE rows == HexDump(data, start)
<1>0. AddressSpace \in Nat \ {0} /\ DOMAIN data = 1..Len(data) /\ Len(data) \in Nat
  BY OneShotAssumption DEF OneShotAssumption
<1>1. /\ DOMAIN rows = 1..Rows(data)
      /\ \A r \in 1..Rows(data) : rows[r] = Row(data, start, Offset(r))
  <2>1. rows = [r \in 1..Rows(data) |-> Row(data, start, Offset(r))]
    BY DEF HexDump, Rows, Offset
  <2> QED
    BY <2>1
<1> HIDE DEF rows
<1>2. ASSUME NEW r \in 1..Rows(data)
      PROVE  /\ Offset(r) \in 0..(Len(data) - 1)
             /\ Width(data, Offset(r)) \in 1..RowBytes
             /\ rows[r].address = (start + Offset(r)) % AddressSpace
             /\ Len(rows[r].bytes) = Width(data, Offset(r))
             /\ DOMAIN rows[r].bytes = 1..Width(data, Offset(r))
             /\ \A c \in 1..Width(data, Offset(r)) : rows[r].bytes[c] = data[Offset(r) + c]
  <2>1. Offset(r) \in 0..(Len(data) - 1)
    BY RowsCover
  <2>2. rows[r] = Row(data, start, Offset(r))
    BY <1>1
  <2> QED
    <3>1. RowFits(Row(data, start, Offset(r)), data, start, Offset(r))
      BY <2>1, RowShows
    <3>2. RowFits(rows[r], data, start, Offset(r))
      BY <2>2, <3>1
    <3> QED
      BY <2>1, <3>2 DEF RowFits
<1>3. ASSUME NEW r \in 1..Rows(data) PROVE rows[r].address < AddressSpace
  <2>1. PICK o \in Nat : o = Offset(r)
    BY <1>0, RowsCover
  <2>2. \A n \in Nat : n % AddressSpace < AddressSpace
    BY <1>0
  <2>3. start + o \in Nat
    OBVIOUS
  <2> QED
    BY <1>2, <2>1, <2>2, <2>3
<1>4. ASSUME NEW r \in 1..Rows(data), NEW c \in 1..Width(data, Offset(r))
      PROVE  /\ Offset(r) + c \in DOMAIN data
             /\ <<(rows[r].address + c - 1) % AddressSpace, rows[r].bytes[c]>>
                  = Cell(data, start, Offset(r) + c)
  <2>1. PICK o \in Nat : o = Offset(r) /\ o \in 0..(Len(data) - 1)
    BY <1>0, <1>2
  <2>2. o + c \in 1..Len(data)
    <3>1. RowBytes \in Nat
      BY OneShotAssumption DEF OneShotAssumption
    <3> QED
      BY <1>0, <1>4, <2>1, <3>1 DEF Width
  <2>3. PICK k \in Nat : c = k + 1
    <3>1. c - 1 \in Nat /\ c = (c - 1) + 1
      BY <1>2, <1>4
    <3> QED
      BY <3>1
  <2>4. (((start + o) % AddressSpace) + k) % AddressSpace = (start + o + k) % AddressSpace
    <3>1. start + o \in Nat
      OBVIOUS
    <3> QED
      BY <1>0, <3>1, RemainderEarly
  <2>5. rows[r].address + c - 1 = ((start + o) % AddressSpace) + k
    <3>1. PICK a \in Nat : a = (start + o) % AddressSpace
      BY <1>0
    <3>2. a + c - 1 = a + k
      BY <2>3
    <3> QED
      BY <1>2, <2>1, <3>1, <3>2
  <2>6. start + (o + c) - 1 = start + o + k
    BY <2>3
  <2> QED
    BY <1>0, <1>2, <1>4, <2>1, <2>2, <2>4, <2>5, <2>6 DEF Cell
<1>5. ASSUME NEW i \in DOMAIN data
      PROVE  \E r \in DOMAIN rows : \E c \in DOMAIN rows[r].bytes :
               Cell(data, start, i) = <<(rows[r].address + c - 1) % AddressSpace, rows[r].bytes[c]>>
  <2>1. PICK r \in 1..Rows(data) : \E c \in 1..Width(data, Offset(r)) : i = Offset(r) + c
    BY <1>0, RowsCover
  <2>2. PICK c \in 1..Width(data, Offset(r)) : i = Offset(r) + c
    BY <2>1
  <2> QED
    BY <1>1, <1>2, <1>4, <2>2
<1>6. ASSUME NEW r \in DOMAIN rows, NEW c \in DOMAIN rows[r].bytes
      PROVE  \E i \in DOMAIN data :
               Cell(data, start, i) = <<(rows[r].address + c - 1) % AddressSpace, rows[r].bytes[c]>>
  BY <1>1, <1>2, <1>4
<1> DEFINE Shown(r, c) == <<(rows[r].address + c - 1) % AddressSpace, rows[r].bytes[c]>>
<1>7. UNION {{<<(rows[r].address + c - 1) % AddressSpace, rows[r].bytes[c]>> :
                 c \in DOMAIN rows[r].bytes} : r \in DOMAIN rows}
        = {Cell(data, start, i) : i \in DOMAIN data}
  <2>1. /\ \A i \in DOMAIN data : \E r \in DOMAIN rows : \E c \in DOMAIN rows[r].bytes :
             Cell(data, start, i) = Shown(r, c)
        /\ \A r \in DOMAIN rows : \A c \in DOMAIN rows[r].bytes : \E i \in DOMAIN data :
             Cell(data, start, i) = Shown(r, c)
    BY <1>5, <1>6
  <2> HIDE DEF Shown
  <2>2. UNION {{Shown(r, c) : c \in DOMAIN rows[r].bytes} : r \in DOMAIN rows}
          = {Cell(data, start, i) : i \in DOMAIN data}
    BY <2>1
  <2> QED
    BY <2>2 DEF Shown
<1> QED
  BY <1>1, <1>2, <1>3, <1>7 DEF DumpFits, rows

----------------------------------------------------------------------------
(* OpError::render_dap *)

\* Two words in front of others.
TwoThen(W, text, a, b, s) ==
  /\ text \in Seq(W) /\ Len(text) = Len(s) + 2 /\ Len(s) \in Nat
  /\ text[1] = a /\ text[2] = b
  /\ \A i \in 1..Len(s) : text[i + 2] = s[i]
  /\ ToSet(text) = {a, b} \cup ToSet(s)

\* Concatenation puts them there.
LEMMA TwoAndMore ==
  ASSUME NEW W, NEW a \in W, NEW b \in W, NEW s \in Seq(W)
  PROVE  TwoThen(W, <<a, b>> \o s, a, b, s)
<1> DEFINE text == <<a, b>> \o s
<1> DEFINE pair == <<a, b>>
<1>0. pair \in Seq(W) /\ Len(pair) = 2 /\ pair[1] = a /\ pair[2] = b /\ Len(s) \in Nat
  <2>1. Len(pair) = 2 /\ pair[1] = a /\ pair[2] = b /\ Len(s) \in Nat
    OBVIOUS
  <2>2. pair \in Seq(W)
    OBVIOUS
  <2> QED
    BY <2>1, <2>2
<1>00. text = pair \o s
  OBVIOUS
<1> HIDE DEF pair, text
<1>1. /\ pair \o s \in Seq(W) /\ Len(pair \o s) = Len(pair) + Len(s)
      /\ \A i \in 1..(Len(pair) + Len(s)) :
           (pair \o s)[i] = IF i <= Len(pair) THEN pair[i] ELSE s[i - Len(pair)]
  BY <1>0, ConcatProperties
<1>3. /\ text \in Seq(W) /\ Len(text) = Len(s) + 2
      /\ \A i \in 1..(Len(s) + 2) : text[i] = IF i <= 2 THEN pair[i] ELSE s[i - 2]
  BY <1>0, <1>00, <1>1
<1>5. text[1] = a /\ text[2] = b
  <2>1. 1 \in 1..(Len(s) + 2) /\ 2 \in 1..(Len(s) + 2)
    BY <1>0
  <2> QED
    BY <1>0, <1>3, <2>1
<1>6. ASSUME NEW i \in 1..Len(s) PROVE text[i + 2] = s[i]
  <2>1. i + 2 \in 1..(Len(s) + 2) /\ ~(i + 2 <= 2) /\ (i + 2) - 2 = i
    BY <1>0
  <2> QED
    BY <1>3, <2>1
<1>7. DOMAIN text = 1..(Len(s) + 2) /\ DOMAIN s = 1..Len(s)
  BY <1>3
<1>8. ASSUME NEW i \in DOMAIN text PROVE text[i] \in {a, b} \cup ToSet(s)
  <2>1. i = 1 \/ i = 2 \/ (i - 2 \in DOMAIN s /\ ~(i <= 2))
    BY <1>0, <1>7
  <2>2. i \in 1..(Len(s) + 2)
    BY <1>7
  <2> QED
    BY <1>3, <1>5, <2>1, <2>2 DEF ToSet
<1>9. ASSUME NEW i \in DOMAIN s PROVE s[i] \in ToSet(text)
  <2>1. i + 2 \in DOMAIN text /\ text[i + 2] = s[i]
    BY <1>0, <1>6, <1>7
  <2> QED
    BY <2>1 DEF ToSet
<1>10. 1 \in DOMAIN text /\ 2 \in DOMAIN text
  BY <1>0, <1>7
<1>11. ToSet(text) = {a, b} \cup ToSet(s)
  BY <1>5, <1>8, <1>9, <1>10 DEF ToSet
<1> QED
  BY <1>0, <1>3, <1>5, <1>6, <1>11 DEF TwoThen, text

\* What follows the second word, if that is the one searched for.
LEMMA AfterTheSecond ==
  ASSUME NEW W, NEW a \in W, NEW b \in W, a # b, NEW s \in Seq(W)
  PROVE  After(<<a, b>> \o s, b) = s
<1> DEFINE text == <<a, b>> \o s
<1>1. /\ text \in Seq(W) /\ Len(text) = Len(s) + 2 /\ Len(s) \in Nat
      /\ text[1] = a /\ text[2] = b
      /\ \A i \in 1..Len(s) : text[i + 2] = s[i]
  <2>1. TwoThen(W, text, a, b, s)
    BY TwoAndMore
  <2> HIDE DEF text
  <2> QED
    BY <2>1 DEF TwoThen
<1> HIDE DEF text
<1> DEFINE At == {i \in 1..Len(text) : text[i] = b}
<1>2. At \in SUBSET Nat /\ At # {} /\ 2 \in At /\ 1 \notin At
  BY <1>1
<1>3. \A m \in At : m \in Nat /\ m >= 1
  BY <1>1
<1> HIDE DEF At
<1>4. Min(At) \in At /\ \A m \in At : Min(At) <= m
  BY <1>2, FirstExists
<1>5. Min(At) = 2
  <2>1. PICK m \in Nat : m = Min(At) /\ m # 1 /\ m >= 1 /\ m <= 2
    BY <1>2, <1>3, <1>4
  <2> QED
    BY <2>1
<1>6. SelectInSeq(text, LAMBDA w : w = b) = 2
  BY <1>1, <1>2, <1>5 DEF SelectInSeq, At
<1>7. After(text, b) = SubSeq(text, 3, Len(text))
  <2>1. After(text, b) = SubSeq(text, SelectInSeq(text, LAMBDA w : w = b) + 1, Len(text))
    BY Zenon DEF After
  <2>2. \A n \in Nat : n = 2 => n + 1 = 3
    OBVIOUS
  <2>3. 2 \in Nat
    OBVIOUS
  <2> QED
    BY <1>6, <2>1, <2>2, <2>3, Zenon
<1>8. /\ SubSeq(text, 3, Len(text)) \in Seq(W)
      /\ Len(SubSeq(text, 3, Len(text))) = IF 3 <= Len(text) THEN Len(text) - 3 + 1 ELSE 0
      /\ \A i \in 1..(Len(text) - 3 + 1) : SubSeq(text, 3, Len(text))[i] = text[3 + i - 1]
  <2>1. \A i \in 3..Len(text) : text[i] \in W
    BY <1>1
  <2> QED
    BY <1>1, <2>1, SubSeqProperties
<1> DEFINE rest == SubSeq(text, 3, Len(text))
<1> HIDE DEF rest
<1>9. rest \in Seq(W) /\ Len(rest) = Len(s)
  BY <1>1, <1>8 DEF rest
<1>10. ASSUME NEW i \in 1..Len(s) PROVE rest[i] = s[i]
  <2>1. i \in 1..(Len(text) - 3 + 1) /\ 3 + i - 1 = i + 2
    BY <1>1
  <2> QED
    BY <1>1, <1>8, <2>1 DEF rest
<1>11. rest = s
  BY <1>9, <1>10, SeqEqual
<1> QED
  BY <1>7, <1>11 DEF rest, text

\* The words of a text, the backend's and the adapter's.
Words == STRING \cup Commands
           \cup {RequestFailed, Failed, Unexpected, "response", "malformedBody", "stderr",
               "noErrorMessage"}

\* A failed request's reply.
IsFailed(r) ==
  /\ r.kind \in Failures
  /\ r.detail \in Seq(Words) /\ r.stderr \in {<<>>, <<"stderr">>}

\* The reply as Reworded has it.
Rewording(r) ==
  CASE r.kind = "closed"    -> <<Verb, RequestFailed>> \o r.detail
    [] r.kind = "refused"   -> <<Verb, Failed>> \o Diagnostic(r.detail, r.stderr)
    [] r.kind = "malformed" -> <<"malformedBody">> \o r.detail
    [] r.kind = "protocol"  -> <<Unexpected, "response">> \o r.detail

\* A text without a separator stays as it is.
LEMMA NothingToReword ==
  ASSUME NEW text, RequestFailed \notin ToSet(text), Failed \notin ToSet(text)
  PROVE  Render(text) = text
BY DEF Render, RenderDap

\* A text with its separator in second place gets the tool's verb.
LEMMA VerbIsReplaced ==
  ASSUME NEW c \in Words, NEW w \in {RequestFailed, Failed}, NEW s \in Seq(Words),
         c \notin {RequestFailed, Failed}, w = Failed => RequestFailed \notin ToSet(s),
         Connects(call.tool) => c = Verb
  PROVE  Render(<<c, w>> \o s) = <<Verb, w>> \o s
<1> DEFINE text == <<c, w>> \o s
<1>1. w \in Words /\ RequestFailed # Failed
  BY DEF RequestFailed, Failed, Words
<1>2. ToSet(text) = {c, w} \cup ToSet(s)
  <2>1. TwoThen(Words, text, c, w, s)
    BY <1>1, TwoAndMore
  <2> HIDE DEF text
  <2> QED
    BY <2>1 DEF TwoThen
<1>3. After(text, w) = s
  BY <1>1, AfterTheSecond
<1> HIDE DEF text
<1>4. RenderDap(text) = <<Verb, w>> \o s
  <2>1. CASE w = RequestFailed
    BY <1>2, <1>3, <2>1 DEF RenderDap
  <2>2. CASE w = Failed
    BY <1>1, <1>2, <1>3, <2>2 DEF RenderDap
  <2> QED
    BY <2>1, <2>2
<1>5. CASE Connects(call.tool)
  <2>1. Render(text) = text /\ c = Verb
    BY <1>5 DEF Render
  <2> QED
    BY <2>1 DEF text
<1>6. CASE ~Connects(call.tool)
  BY <1>4, <1>6 DEF Render, text
<1> QED
  BY <1>5, <1>6

\* One word in front of others adds itself.
LEMMA OneAndMore ==
  ASSUME NEW W, NEW a \in W, NEW s \in Seq(W)
  PROVE  ToSet(<<a>> \o s) \subseteq {a} \cup ToSet(s)
<1> DEFINE one == <<a>>
           text == one \o s
<1>0. one \in Seq(W) /\ Len(one) = 1 /\ one[1] = a /\ Len(s) \in Nat
  OBVIOUS
<1> HIDE DEF one
<1>1. /\ text \in Seq(W) /\ Len(text) = Len(one) + Len(s)
      /\ \A i \in 1..(Len(one) + Len(s)) :
           text[i] = IF i <= Len(one) THEN one[i] ELSE s[i - Len(one)]
  BY <1>0, ConcatProperties
<1> HIDE DEF text
<1>2. DOMAIN text = 1..(Len(s) + 1) /\ DOMAIN s = 1..Len(s)
  BY <1>0, <1>1
<1>3. ASSUME NEW i \in DOMAIN text PROVE text[i] \in {a} \cup ToSet(s)
  <2>1. i = 1 \/ (i - 1 \in DOMAIN s /\ ~(i <= 1))
    BY <1>0, <1>2
  <2>2. text[i] = IF i <= 1 THEN one[i] ELSE s[i - 1]
    BY <1>0, <1>1, <1>2
  <2> QED
    BY <1>0, <2>1, <2>2 DEF ToSet
<1> QED
  BY <1>3 DEF ToSet, text, one

\* A text that begins with a word and goes on with the others.
WordInFront(text, a, s) == Head(text) = a /\ Tail(text) = s

\* Of one word in front of others the rest is those.
LEMMA HeadAndTail ==
  ASSUME NEW W, NEW a \in W, NEW s \in Seq(W)
  PROVE  WordInFront(<<a>> \o s, a, s)
<1> DEFINE one  == <<a>>
           text == one \o s
<1>0. one \in Seq(W) /\ Len(one) = 1 /\ one[1] = a /\ Len(s) \in Nat
  OBVIOUS
<1> HIDE DEF one
<1>1. /\ text \in Seq(W) /\ Len(text) = Len(one) + Len(s)
      /\ \A i \in 1..(Len(one) + Len(s)) :
           text[i] = IF i <= Len(one) THEN one[i] ELSE s[i - Len(one)]
  BY <1>0, ConcatProperties
<1> HIDE DEF text
<1>2. Len(text) = Len(s) + 1 /\ text # <<>> /\ text[1] = a
  BY <1>0, <1>1
<1>3. /\ Head(text) = text[1] /\ Tail(text) \in Seq(W) /\ Len(Tail(text)) = Len(s)
      /\ \A i \in 1..Len(s) : Tail(text)[i] = text[i + 1]
  BY <1>0, <1>1, <1>2, HeadTailProperties
<1>4. \A i \in 1..Len(s) : text[i + 1] = s[i]
  <2> SUFFICES ASSUME NEW i \in 1..Len(s) PROVE text[i + 1] = s[i]
    OBVIOUS
  <2>1. i + 1 \in 1..(Len(one) + Len(s)) /\ ~(i + 1 <= Len(one)) /\ (i + 1) - Len(one) = i
    BY <1>0
  <2> QED
    BY <1>1, <2>1
<1>5. Tail(text) = s
  BY <1>3, <1>4, SeqEqual
<1> QED
  BY <1>2, <1>3, <1>5 DEF WordInFront, text, one

\* What the backend makes of a failed request and render_dap of that is the
\* tool's verb and the detail, if the detail is free of separators.
LEMMA DetailIsKept ==
  ASSUME request.command \in Commands, Connects(call.tool) => request.command = call.tool,
         NEW r, IsFailed(r), ToSet(r.detail) \cap Separators(r.kind) = {}
  PROVE  ErrorText(r) = Rewording(r)
<1>1. /\ request.command \in Words /\ request.command \notin {RequestFailed, Failed}
      /\ Connects(call.tool) => request.command = Verb
  BY DEF Commands, RequestFailed, Failed, Verb, Connects, Words
<1>0. r.kind # "protocol" => ErrorText(r) = Render(BackendError(r))
  BY DEF ErrorText
<1>2. CASE r.kind = "closed"
  <2>1. BackendError(r) = <<request.command, RequestFailed>> \o r.detail
    BY <1>2 DEF BackendError
  <2>2. Rewording(r) = <<Verb, RequestFailed>> \o r.detail
    BY <1>2 DEF Rewording
  <2>3. r.detail \in Seq(Words) /\ RequestFailed # Failed
    BY DEF IsFailed, RequestFailed, Failed
  <2> QED
    BY <1>0, <1>1, <1>2, <2>1, <2>2, <2>3, VerbIsReplaced
<1>3. CASE r.kind = "refused"
  <2> DEFINE words == Diagnostic(r.detail, r.stderr)
  <2>1. BackendError(r) = <<request.command, Failed>> \o words
    BY <1>3 DEF BackendError
  <2>2. Rewording(r) = <<Verb, Failed>> \o words
    BY <1>3 DEF Rewording
  <2>3. RequestFailed \notin ToSet(r.detail)
    BY <1>3 DEF Separators
  <2>4. words \in Seq(Words) /\ RequestFailed \notin ToSet(words)
    <3>1. /\ <<"noErrorMessage">> \in Seq(Words) /\ RequestFailed \notin ToSet(<<"noErrorMessage">>)
          /\ <<"stderr">> \in Seq(Words) /\ RequestFailed \notin ToSet(<<"stderr">>)
      BY DEF ToSet, RequestFailed, Words
    <3> QED
      BY <2>3, <3>1 DEF Diagnostic, IsFailed
  <2> HIDE DEF words
  <2> QED
    BY <1>0, <1>1, <1>3, <2>1, <2>2, <2>4, VerbIsReplaced
<1>4. CASE r.kind = "malformed"
  <2> DEFINE text == <<"malformedBody">> \o r.detail
  <2>1. BackendError(r) = text
    BY <1>4 DEF BackendError
  <2>2. Rewording(r) = text
    BY <1>4 DEF Rewording
  <2>3. RequestFailed \notin ToSet(r.detail) /\ Failed \notin ToSet(r.detail)
    BY <1>4 DEF Separators
  <2>4. ToSet(text) \subseteq {"malformedBody"} \cup ToSet(r.detail)
    <3>1. "malformedBody" \in Words /\ r.detail \in Seq(Words)
      BY DEF IsFailed, Words
    <3> QED
      BY <3>1, OneAndMore
  <2>5. "malformedBody" \notin {RequestFailed, Failed}
    BY DEF RequestFailed, Failed
  <2> HIDE DEF text
  <2>6. Render(text) = text
    BY <2>3, <2>4, <2>5, NothingToReword
  <2>7. ErrorText(r) = Render(BackendError(r))
    BY <1>0, <1>4
  <2> QED
    BY <2>1, <2>2, <2>6, <2>7
<1>5. CASE r.kind = "protocol"
  <2> DEFINE stamp == <<"response">> \o r.detail
  <2>1. r.detail \in Seq(Words) /\ "response" \in Words /\ Unexpected \in Words
    BY DEF IsFailed, Words, Unexpected
  <2>2. WordInFront(stamp, "response", r.detail)
    BY <2>1, HeadAndTail
  <2>3. ErrorText(r) = <<Unexpected, "response">> \o r.detail
    <3>1. ErrorText(r) = <<Unexpected, Head(stamp)>> \o Tail(stamp)
      BY <1>5 DEF ErrorText, UnexpectedType, WrongType
    <3> HIDE DEF stamp
    <3> QED
      BY <2>2, <3>1 DEF WordInFront
  <2>4. Rewording(r) = <<Unexpected, "response">> \o r.detail
    BY <1>5 DEF Rewording
  <2> QED
    BY <2>3, <2>4
<1>6. CASE r.kind # "protocol"
  BY <1>2, <1>3, <1>4, <1>6 DEF IsFailed, Failures
<1> QED
  BY <1>5, <1>6

----------------------------------------------------------------------------
(* Answers *)

\* Nothing has come back before the end, and what is on the wire is a request
\* of the tool that was called.
AnswerInv ==
  /\ pc # "done" => reply = None
  /\ NothingSentYet
  /\ pc = "sent" \/ request # None =>
       /\ request.command \in Commands
       /\ Connects(call.tool) => request.command = call.tool
       /\ request.command = "readMemory" => request.address.digits \in Nat
  /\ AnswerShowsTheReply

\* Before the end, and where no data and no failure has come back, there is
\* nothing to show.
LEMMA NothingToShow ==
  ASSUME \/ pc' # "done"
         \/ /\ outcome'.kind \notin {"dump", "output"}
            /\ reply' = None \/ reply'.kind = "data"
  PROVE  AnswerShowsTheReply'
BY DEF AnswerShowsTheReply, DumpShowsTheMemory, OutputKeepsItsOrder, IsFailure, Failures

\* A tool's call sends its own request or ends in an error of its own.
LEMMA ForwardKeepsAnswerInv ==
  ASSUME AnswerInv, NEW tool, NEW arg, NEW address, NEW command \in Commands, NEW number,
         Forward(tool, arg, address, command, number),
         Connects(tool) => command = tool,
         command = "readMemory" => address.digits \in Nat
  PROVE  AnswerInv'
<1>1. pc # "done" /\ request = None /\ reply = None /\ reply' = None
  BY DEF Forward, AnswerInv, NothingSentYet
<1>2. CASE ~IsOk(number)
  <2>1. request' = None /\ pc' = "done" /\ outcome' = ToolError(number.text)
    BY <1>1, <1>2 DEF Forward, Finish
  <2>2. outcome'.kind = "error"
    BY <2>1 DEF ToolError
  <2>3. AnswerShowsTheReply'
    BY <1>1, <2>2, NothingToShow
  <2> QED
    BY <1>1, <2>1, <2>3 DEF AnswerInv, NothingSentYet
<1>3. CASE IsOk(number)
  <2>1. /\ request' = Request(command, number.value, address)
        /\ pc' \in {"connect", "sent"} /\ (pc' = "connect" <=> Connects(tool))
        /\ call' = [tool |-> tool, arg |-> arg, address |-> address]
    BY <1>3 DEF Forward
  <2>2. call'.tool = tool /\ request'.command = command /\ request'.address = address
    BY <2>1 DEF Request
  <2>3. AnswerShowsTheReply'
    BY <2>1, NothingToShow
  <2> QED
    BY <1>1, <2>1, <2>2, <2>3 DEF AnswerInv, NothingSentYet
<1> QED
  BY <1>2, <1>3

\* A failure is reworded and keeps its detail.
LEMMA FailureIsShown ==
  ASSUME Refused, request.command \in Commands,
         Connects(call.tool) => request.command = call.tool
  PROVE  AnswerShowsTheReply'
<1>1. PICK kind \in Failures, detail \in Details,
           stderr \in {<<>>, <<"stderr">>} :
        reply' = [kind |-> kind, detail |-> detail, stderr |-> stderr]
  BY DEF Refused
<1>2. /\ outcome' = [kind |-> "error", text |-> ErrorText(reply')]
      /\ call' = call /\ request' = request
  BY DEF Refused, Finish
<1>3. IsFailed(reply')
  <2>1. detail \in Seq(STRING)
    BY OneShotAssumption DEF OneShotAssumption
  <2>2. detail \in Seq(Words)
    BY <2>1 DEF Words
  <2> QED
    BY <1>1, <2>2 DEF IsFailed
<1>4. Reworded' = Rewording(reply')
  BY <1>2 DEF Reworded, Rewording, Verb
<1>5. ToSet(reply'.detail) \cap Separators(reply'.kind) = {}
        => ErrorText(reply') = Rewording(reply')
  BY <1>3, DetailIsKept
<1>6. outcome'.kind = "error" /\ outcome'.text = ErrorText(reply')
  BY <1>2
<1>7. DumpShowsTheMemory' /\ OutputKeepsItsOrder'
  BY <1>6 DEF DumpShowsTheMemory, OutputKeepsItsOrder
<1> QED
  BY <1>4, <1>5, <1>6, <1>7 DEF AnswerShowsTheReply

\* The dump of what was read shows it.
LEMMA MemoryIsShown ==
  ASSUME MemoryRead, request.address.digits \in Nat
  PROVE  AnswerShowsTheReply'
<1>1. PICK data \in Reads :
        /\ reply' = [kind |-> "data", data |-> data]
        /\ outcome' = IF data = <<>> THEN [kind |-> "dump", rows |-> <<>>]
                      ELSE IF request.address.digits = NotHex THEN ToolError("parseAddress")
                      ELSE [kind |-> "dump", rows |-> HexDump(data, request.address.digits)]
  BY DEF MemoryRead, Finish
<1>2. data \in Seq(Nat) /\ request' = request
  BY OneShotAssumption DEF OneShotAssumption, MemoryRead
<1>3. reply'.kind = "data" /\ reply'.data = data
  BY <1>1
<1>4. ~IsFailure'
  BY <1>3 DEF IsFailure, Failures
<1>5. OutputKeepsItsOrder'
  <2>1. outcome'.kind # "output"
    BY <1>1 DEF ToolError
  <2> QED
    BY <2>1 DEF OutputKeepsItsOrder
<1>6. DumpShowsTheMemory'
  <2>1. CASE data = <<>>
    <3>1. outcome'.rows = <<>>
      BY <1>1, <2>1
    <3>2. DOMAIN outcome'.rows = {} /\ DOMAIN reply'.data = {}
      BY <1>3, <2>1, <3>1
    <3> QED
      BY <3>2 DEF DumpShowsTheMemory
  <2>2. CASE data # <<>> /\ request.address.digits = NotHex
    <3>1. outcome'.kind = "error"
      BY <1>1, <2>2 DEF ToolError
    <3> QED
      BY <3>1 DEF DumpShowsTheMemory
  <2>3. CASE data # <<>> /\ request.address.digits # NotHex
    <3> DEFINE start == request.address.digits
               rows  == HexDump(data, start)
    <3>1. outcome'.rows = rows /\ start \in Nat /\ request'.address.digits = start
      BY <1>1, <1>2, <2>3
    <3> HIDE DEF rows, start
    <3>2. DumpFits(rows, data, start)
      BY <1>2, <2>3, <3>1, DumpShows DEF rows
    <3> QED
      BY <1>3, <3>1, <3>2 DEF DumpShowsTheMemory, DumpFits, Cell
  <2> QED
    BY <2>1, <2>2, <2>3
<1> QED
  BY <1>4, <1>5, <1>6 DEF AnswerShowsTheReply

\* The groups of what was drained show it.
LEMMA OutputIsShown ==
  ASSUME ReadOutput PROVE AnswerShowsTheReply'
<1> DEFINE Entries == [category : {"stdout", "stderr", "console", "telemetry"}, text : {1, 2}]
<1>1. PICK entries \in BoundedSeq(Entries, MaxEntries) :
        /\ reply' = [kind |-> "data", data |-> entries]
        /\ outcome' = [kind |-> "output", count |-> Len(entries), text |-> Grouped(entries)]
  BY DEF ReadOutput, Finish
<1> HIDE DEF Entries
<1>2. entries \in Seq(Entries)
  BY OneShotAssumption DEF OneShotAssumption, BoundedSeq, SeqOf
<1>3. /\ reply'.kind = "data" /\ reply'.data = entries
      /\ outcome'.kind = "output" /\ outcome'.count = Len(entries)
      /\ outcome'.text = Grouped(entries)
  BY <1>1
<1>4. ~IsFailure' /\ DumpShowsTheMemory'
  BY <1>3 DEF IsFailure, Failures, DumpShowsTheMemory
<1>5. OutputKeepsItsOrder'
  <2>1. Ordered(entries, Grouped(entries))
    BY <1>2, OutputInOrder DEF Ordered
  <2>2. Ordered(reply'.data, outcome'.text) /\ outcome'.count = Len(reply'.data)
    BY <1>3, <2>1
  <2> QED
    BY <2>2 DEF OutputKeepsItsOrder, Ordered
<1> QED
  BY <1>4, <1>5 DEF AnswerShowsTheReply

\* Every step keeps AnswerInv: the three answers that carry the adapter's data
\* by the lemmas above, the others because they carry none.
LEMMA AnswerInvInductive == Spec => []AnswerInv
<1>1. Init => AnswerInv
  BY DEF Init, AnswerInv, NothingSentYet, AnswerShowsTheReply, DumpShowsTheMemory,
         OutputKeepsItsOrder, IsFailure
<1>2. AnswerInv /\ [Next]_vars => AnswerInv'
  <2> SUFFICES ASSUME AnswerInv, [Next]_vars PROVE AnswerInv'
    OBVIOUS
  <2>1. ASSUME pc = "sent" \/ request' = None, pc' = "done",
               UNCHANGED <<call, request>> \/ request' = None, AnswerShowsTheReply'
        PROVE  AnswerInv'
    BY <2>1 DEF AnswerInv, NothingSentYet
  <2>2. CASE Connect
    <3>1. pc = "connect" /\ reply' = None /\ UNCHANGED <<call, request>>
      BY <2>2 DEF Connect, AnswerInv
    <3>2. CASE pc' = "done"
      <4>1. outcome'.kind = "error"
        BY <2>2, <3>2 DEF Connect, Finish, ToolError
      <4>2. AnswerShowsTheReply'
        BY <3>1, <4>1, NothingToShow
      <4> QED
        BY <3>1, <3>2, <4>2 DEF AnswerInv, NothingSentYet
    <3>3. CASE pc' # "done"
      <4>1. pc' = IF request = None THEN "call" ELSE "sent"
        BY <2>2, <3>3 DEF Connect, Finish
      <4>2. AnswerShowsTheReply'
        BY <3>3, NothingToShow
      <4> QED
        BY <3>1, <3>3, <4>1, <4>2 DEF AnswerInv, NothingSentYet
    <3> QED
      BY <3>2, <3>3
  <2>3. CASE ReadMemory
    <3>1. PICK arg \in NumberArgs, a \in AddressArgs :
            Forward("read_memory", arg, NormalizeHex(a), "readMemory", RequirePositiveInt(arg))
      BY <2>3 DEF ReadMemory
    <3>2. NormalizeHex(a).digits \in Nat
      <4>1. a.digits \in Nat
        <5> DEFINE P == {"", "0x", "0X"}
                   D == {0, AddressSpace - 1, NotHex}
        <5>1. a \in [prefix : P, digits : D]
          BY <3>1, Zenon DEF AddressArgs
        <5>2. D \subseteq Nat
          BY OneShotAssumption DEF NotHex, OneShotAssumption
        <5> HIDE DEF P, D
        <5> QED
          BY <5>1, <5>2
      <4>2. NormalizeHex(a).digits = a.digits
        BY DEF NormalizeHex, Address
      <4> QED
        BY <4>1, <4>2
    <3> QED
      BY <3>1, <3>2, ForwardKeepsAnswerInv DEF Commands, Connects
  <2>4. CASE SetBreakpoint
    <3>1. PICK arg, number : Forward("set_breakpoint", arg, None, "setBreakpoints", number)
      BY <2>4 DEF SetBreakpoint
    <3> QED
      BY <3>1, ForwardKeepsAnswerInv DEF Commands, Connects
  <2>5. CASE Continue
    <3>1. PICK arg, number : Forward("continue", arg, None, "continue", number)
      BY <2>5 DEF Continue
    <3> QED
      BY <3>1, ForwardKeepsAnswerInv DEF Commands, Connects
  <2>6. CASE AttachTo
    <3>1. PICK arg, address, number : Forward("attach", arg, address, "attach", number)
      BY <2>6 DEF AttachTo
    <3> QED
      BY <3>1, ForwardKeepsAnswerInv DEF Commands
  <2>7. CASE Launch
    <3>1. PICK address, number : Forward("launch", Absent, address, "launch", number)
      BY <2>7 DEF Launch
    <3> QED
      BY <3>1, ForwardKeepsAnswerInv DEF Commands
  <2>8. CASE Backtrace
    <3>1. PICK arg, number : Forward("backtrace", arg, None, "stackTrace", number)
      BY <2>8 DEF Backtrace
    <3> QED
      BY <3>1, ForwardKeepsAnswerInv DEF Commands, Connects
  <2>9. CASE Disassemble
    <3>1. PICK arg, address, command, number :
            /\ Forward("disassemble", arg, address, command, number)
            /\ command \in {"disassemble", "stackTrace"}
      BY <2>9 DEF Disassemble
    <3> QED
      BY <3>1, ForwardKeepsAnswerInv DEF Commands, Connects
  <2>10. CASE ResolvePc
    <3>1. /\ pc = "sent" /\ call.tool = "disassemble" /\ call' = call /\ reply' = None
      BY <2>10 DEF ResolvePc, AnswerInv
    <3>2. CASE pc' = "sent" /\ request'.command = "disassemble"
      <4>1. AnswerShowsTheReply'
        BY <3>2, NothingToShow
      <4> QED
        BY <3>1, <3>2, <4>1 DEF AnswerInv, NothingSentYet, Commands, Connects
    <3>3. CASE pc' = "done" /\ outcome'.kind = "error" /\ request' = request
      <4>1. AnswerShowsTheReply'
        BY <3>1, <3>3, NothingToShow
      <4> QED
        BY <2>1, <3>1, <3>3, <4>1
    <3> QED
      BY <2>10, <3>1, <3>2, <3>3 DEF ResolvePc, Request, Finish, ToolError
  <2>11. CASE RunCommand
    <3>1. Forward("run_command", Absent, Backtick, "evaluate", Ok(0))
      BY <2>11 DEF RunCommand
    <3> QED
      BY <3>1, ForwardKeepsAnswerInv DEF Commands, Connects
  <2>12. CASE Refused
    BY <2>1, <2>12, FailureIsShown DEF Refused, Finish, AnswerInv
  <2>13. CASE MemoryRead
    BY <2>1, <2>13, MemoryIsShown DEF MemoryRead, Finish, AnswerInv
  <2>14. CASE Disassembled
    <3>1. outcome'.kind = "listing" /\ reply'.kind = "data"
      BY <2>14 DEF Disassembled, Finish
    <3> QED
      BY <2>1, <2>14, <3>1, NothingToShow DEF Disassembled, Finish
  <2>15. CASE Answered
    <3>1. outcome'.kind = "answered" /\ reply' = None
      BY <2>15 DEF Answered, Finish, AnswerInv
    <3> QED
      BY <2>1, <2>15, <3>1, NothingToShow DEF Answered, Finish
  <2>16. CASE ReadOutput
    <3>1. request' = None /\ pc' = "done"
      BY <2>16 DEF ReadOutput, Finish, AnswerInv, NothingSentYet
    <3> QED
      BY <2>1, <2>16, <3>1, OutputIsShown DEF AnswerInv
  <2>17. CASE UNCHANGED vars
    BY <2>17 DEF vars, AnswerInv, NothingSentYet, AnswerShowsTheReply, DumpShowsTheMemory,
                 OutputKeepsItsOrder, IsFailure, Reworded, Verb, Failures
  <2> QED
    BY <2>2, <2>3, <2>4, <2>5, <2>6, <2>7, <2>8, <2>9, <2>10, <2>11, <2>12,
       <2>13, <2>14, <2>15, <2>16, <2>17 DEF Next
<1> QED
  BY <1>1, <1>2, PTL DEF Spec

\* The answer of read_memory shows the bytes, that of read_output the entries
\* and an error the detail that the adapter gave, whatever these are.
THEOREM AnswersShowTheReply == Spec => []AnswerShowsTheReply
<1>1. AnswerInv => AnswerShowsTheReply
  BY DEF AnswerInv
<1> QED
  BY <1>1, AnswerInvInductive, PTL

----------------------------------------------------------------------------
(* Types *)

\* What TypeOK says that the invariants above do not.
PlacesInv ==
  /\ env \in Envs
  /\ pc \in {"idle", "connect", "call", "sent", "done"}
  /\ pc \in {"idle", "connect"} => adapter = None /\ child = None
  /\ pc = "done" => outcome.kind \in Outcomes

\* A tool's call connects before there is an adapter, or ends in an error.
LEMMA ForwardKeepsPlaces ==
  ASSUME PlacesInv, NEW tool, NEW arg, NEW address, NEW command, NEW number,
         Forward(tool, arg, address, command, number)
  PROVE  PlacesInv'
<1>1. UNCHANGED <<env, adapter, child>> /\ pc \in {"idle", "call"} /\ (Connects(tool) => pc = "idle")
  BY DEF Forward
<1>2. CASE ~IsOk(number)
  <2>1. pc' = "done" /\ outcome' = ToolError(number.text)
    BY <1>2 DEF Forward, Finish
  <2>2. outcome'.kind = "error"
    BY <2>1 DEF ToolError
  <2> QED
    BY <1>1, <2>1, <2>2 DEF PlacesInv, Outcomes
<1>3. CASE IsOk(number)
  <2>1. pc' = IF Connects(tool) THEN "connect" ELSE "sent"
    BY <1>3 DEF Forward
  <2> QED
    BY <1>1, <2>1 DEF PlacesInv
<1> QED
  BY <1>2, <1>3

\* Every step keeps PlacesInv.
LEMMA PlacesInvInductive == Spec => []PlacesInv
<1>1. Init => PlacesInv
  BY DEF Init, PlacesInv
<1>2. PlacesInv /\ [Next]_vars => PlacesInv'
  <2> SUFFICES ASSUME PlacesInv, [Next]_vars PROVE PlacesInv'
    OBVIOUS
  <2>1. ASSUME NEW kind \in Outcomes, UNCHANGED env, pc' = "done", outcome'.kind = kind
        PROVE  PlacesInv'
    BY <2>1 DEF PlacesInv
  <2>2. CASE Connect
    <3>1. CASE pc' = "done"
      <4>1. outcome'.kind = "error" /\ UNCHANGED env
        BY <2>2, <3>1 DEF Connect, Finish, ToolError
      <4> QED
        BY <2>1, <3>1, <4>1 DEF Outcomes
    <3>2. CASE pc' # "done"
      <4>1. pc' \in {"call", "sent"} /\ UNCHANGED env
        BY <2>2, <3>2 DEF Connect, Finish
      <4> QED
        BY <4>1 DEF PlacesInv
    <3> QED
      BY <3>1, <3>2
  <2>3. CASE \E tool, arg, address, command, number :
               Forward(tool, arg, address, command, number)
    BY <2>3, ForwardKeepsPlaces
  <2>4. CASE ResolvePc
    <3>1. CASE pc' = "done"
      <4>1. outcome'.kind = "error" /\ UNCHANGED env
        BY <2>4, <3>1 DEF ResolvePc, Finish, ToolError
      <4> QED
        BY <2>1, <3>1, <4>1 DEF Outcomes
    <3>2. CASE pc' # "done"
      <4>1. pc' = "sent" /\ UNCHANGED env
        BY <2>4, <3>2 DEF ResolvePc, Finish
      <4> QED
        BY <4>1 DEF PlacesInv
    <3> QED
      BY <3>1, <3>2
  <2>5. CASE Refused
    <3>1. outcome'.kind = "error"
      BY <2>5 DEF Refused, Finish
    <3> QED
      BY <2>1, <2>5, <3>1 DEF Refused, Finish, Outcomes
  <2>6. CASE MemoryRead
    <3>1. PICK data \in Reads :
            Finish(IF data = <<>> THEN [kind |-> "dump", rows |-> <<>>]
                   ELSE IF request.address.digits = NotHex THEN ToolError("parseAddress")
                   ELSE [kind |-> "dump", rows |-> HexDump(data, request.address.digits)])
      BY <2>6 DEF MemoryRead
    <3>2. outcome'.kind = "dump" \/ outcome'.kind = "error"
      BY <3>1 DEF Finish, ToolError
    <3> QED
      BY <2>1, <2>6, <3>2 DEF MemoryRead, Finish, Outcomes
  <2>7. CASE Disassembled
    <3>1. outcome'.kind = "listing"
      BY <2>7 DEF Disassembled, Finish
    <3> QED
      BY <2>1, <2>7, <3>1 DEF Disassembled, Finish, Outcomes
  <2>8. CASE Answered
    <3>1. outcome'.kind = "answered"
      BY <2>8 DEF Answered, Finish
    <3> QED
      BY <2>1, <2>8, <3>1 DEF Answered, Finish, Outcomes
  <2>9. CASE ReadOutput
    <3>1. outcome'.kind = "output"
      BY <2>9 DEF ReadOutput, Finish
    <3> QED
      BY <2>1, <2>9, <3>1 DEF ReadOutput, Finish, Outcomes
  <2>10. CASE UNCHANGED vars
    BY <2>10 DEF vars, PlacesInv
  <2>11. \/ ReadMemory \/ SetBreakpoint \/ Continue \/ AttachTo \/ Launch \/ Backtrace
         \/ Disassemble \/ RunCommand
         => \E tool, arg, address, command, number :
              Forward(tool, arg, address, command, number)
    <3>1. ReadMemory => \E tool, arg, address, command, number :
                          Forward(tool, arg, address, command, number)
      BY DEF ReadMemory
    <3>2. SetBreakpoint => \E tool, arg, address, command, number :
                             Forward(tool, arg, address, command, number)
      BY DEF SetBreakpoint
    <3>3. Continue => \E tool, arg, address, command, number :
                        Forward(tool, arg, address, command, number)
      BY DEF Continue
    <3>4. AttachTo => \E tool, arg, address, command, number :
                        Forward(tool, arg, address, command, number)
      BY DEF AttachTo
    <3>5. Launch => \E tool, arg, address, command, number :
                      Forward(tool, arg, address, command, number)
      BY DEF Launch
    <3>6. Backtrace => \E tool, arg, address, command, number :
                         Forward(tool, arg, address, command, number)
      BY DEF Backtrace
    <3>7. Disassemble => \E tool, arg, address, command, number :
                           Forward(tool, arg, address, command, number)
      BY DEF Disassemble
    <3>8. RunCommand => \E tool, arg, address, command, number :
                          Forward(tool, arg, address, command, number)
      BY DEF RunCommand
    <3> QED
      BY <3>1, <3>2, <3>3, <3>4, <3>5, <3>6, <3>7, <3>8
  <2> QED
    BY <2>2, <2>3, <2>4, <2>5, <2>6, <2>7, <2>8, <2>9, <2>10, <2>11 DEF Next
<1> QED
  BY <1>1, <1>2, PTL DEF Spec

\* Whatever the tool, its arguments and the replies, a session that is used
\* has an adapter, a request that is sent is one of the tools', and a call
\* ends in an outcome (the handlers' early returns).
THEOREM TypeCorrect == Spec => []TypeOK
<1>1. SearchInv /\ AnswerInv /\ PlacesInv => TypeOK
  BY DEF SearchInv, AnswerInv, PlacesInv, TypeOK
<1> QED
  BY <1>1, SearchInvInductive, AnswerInvInductive, PlacesInvInductive, PTL
=============================================================================
