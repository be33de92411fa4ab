----------------------------- MODULE Arguments -----------------------------
(***************************************************************************)
(* How the handlers read numbers and choices from a tool call's arguments  *)
(* (mcp-tools/src/args.rs and the checks that handlers make themselves),   *)
(* and what launch and attach put on the wire (lldb-backend/src/args.rs).  *)
(*                                                                         *)
(* An argument is a type and a value.  A number is given in halves, so     *)
(* that 1 is the fraction 0.5; the code reads it as an f64, which is the   *)
(* nearest number an f64 can be, and casts it to an i64, which truncates   *)
(* toward zero and saturates.                                              *)
(***************************************************************************)
EXTENDS Integers

CONSTANTS
  MaxInt,  \* i64::MAX
  Doubles  \* the numbers, in halves, that an f64 can be; the code's include
           \* every whole number up to 2^53 and thin out above it

ASSUME ArgumentsAssumption ==
  /\ MaxInt \in Nat \ {0}
  /\ Doubles \subseteq Int
  /\ Doubles # {}

Absent       == [type |-> "absent", value |-> 0]
Null         == [type |-> "null", value |-> 0]
Text(s)      == [type |-> "string", value |-> s]  \* a string is a number here
Empty        == 0
Number(half) == [type |-> "number", value |-> half]

\* What an accessor returns: a number, nothing, or an error.
Ok(n)    == [kind |-> "ok", value |-> n]
Fallback == [kind |-> "fallback", value |-> 0]
Error(e) == [kind |-> "error", text |-> e]
IsOk(r)  == r.kind # "error"
Given(r) == r.kind = "ok"

\* value_as_f64: what is not an f64 becomes the nearest one, and halfway
\* between two, at a distance of half their gap, the even one.
Dist(v, d) == IF v <= d THEN d - v ELSE v - d
Nearest(v) == {d \in Doubles : \A c \in Doubles : Dist(v, d) <= Dist(v, c)}
Even(v)    == {d \in Nearest(v) : d % (4 * Dist(v, d)) = 0}
AsF64(v) ==
  IF v \in Doubles THEN v
  ELSE LET even == Even(v)
       IN  CHOOSE d \in (IF even = {} THEN Nearest(v) ELSE even) : TRUE

\* f as i64
Clamp(n) == IF n > MaxInt THEN MaxInt ELSE IF n < -MaxInt - 1 THEN -MaxInt - 1 ELSE n
Truncate(f) == Clamp(IF f >= 0 THEN f \div 2 ELSE -((-f) \div 2))
AsInt(v) == Truncate(AsF64(v))

\* require_int
RequireInt(arg) ==
  CASE arg.type = "absent" -> Error("notFound")
    [] arg.type = "number" -> Ok(AsInt(arg.value))
    [] OTHER -> Error("notOfTypeInt")

\* Mutant of RequirePositiveInt: the sign is checked before the truncation.
RequirePositiveNumber(arg) ==
  IF arg.type = "number" /\ arg.value <= 0 THEN Error("mustBePositive")
                                          ELSE RequireInt(arg)

\* require_positive_int: read_memory's count, set_breakpoint's line.
RequirePositiveInt(arg) ==
  LET r == RequireInt(arg) IN
  IF IsOk(r) /\ r.value <= 0 THEN Error("mustBePositive") ELSE r

\* explicit_positive_thread_id: what is no number falls back to the thread
\* that stopped last.
ExplicitPositiveThreadId(arg) ==
  IF arg.type # "number" THEN Fallback
  ELSE IF AsInt(arg.value) <= 0 THEN Error("mustBePositive")
                                ELSE Ok(AsInt(arg.value))

\* levels and instruction_count: the argument if it is above zero, and
\* truncated only then, so that 0.5 is passed on as 0.
AboveZeroOr(arg, default) ==
  IF arg.type = "number" /\ AsF64(arg.value) > 0 THEN AsInt(arg.value) ELSE default

\* attach: pid before wait_for; one of them is needed.
Attach(pid, waitFor) ==
  CASE pid.type = "number" ->
         IF AsInt(pid.value) <= 0 THEN Error("mustBePositive")
                                  ELSE Ok(AsInt(pid.value))
    [] pid.type \in {"absent", "null"} ->
         IF waitFor.type = "string" /\ waitFor.value # Empty THEN Fallback
         ELSE IF waitFor.type \in {"absent", "null"} THEN Error("pidOrWaitFor")
         ELSE Error("mustBeNonEmpty")
    [] OTHER -> Error("mustBeNumber")

\* LldbAttachArgs::new and attach_args_to_value: the fields that are sent, a
\* field with an empty value being left out.
AttachFields(pid, waitFor) ==
  LET r == Attach(pid, waitFor) IN
  IF Given(r) THEN [pid |-> r.value, stopOnEntry |-> TRUE]
              ELSE [program |-> waitFor.value, waitFor |-> TRUE, stopOnEntry |-> TRUE]

\* args and env of launch: JSON in a string.  The value is what it parses as.
ParseJson(arg, wanted) ==
  CASE arg.type \in {"absent", "null"} -> Fallback
    [] arg.type = "string" ->
         IF arg.value = wanted THEN Ok(1) ELSE Error("failedToParse")
    [] OTHER -> Error("mustBeString")

\* launch_args_to_value: the fields that are sent; what is empty or false is
\* left out.
LaunchFields(args, env, stopOnEntry) ==
  {"program"} \cup (IF Given(args) THEN {"args"} ELSE {})
              \cup (IF Given(env) THEN {"env"} ELSE {})
              \cup (IF stopOnEntry THEN {"stopOnEntry"} ELSE {})
=============================================================================
