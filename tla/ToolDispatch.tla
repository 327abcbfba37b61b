----------------------------- MODULE ToolDispatch -----------------------------
(***************************************************************************)
(* How orchestra/tools/registry.py dispatches one tool call of a model:    *)
(* parsing, schema validation, the chain of argument repairs, and the      *)
(* error text the model gets back.                                         *)
(*                                                                         *)
(* The arguments of a call are a pair: the shape of the string the model   *)
(* emitted, and the body a reader finds in it once the shape is undone.    *)
(***************************************************************************)
EXTENDS Sequences

CONSTANTS
    Tool,         \* the registered tools
    NoRequired,   \* the tools whose schema requires no field
    Chain         \* arg_repair_handlers, in the order of the registry

Shape == {"plain", "truncated", "over_escaped", "python", "stringified", "broken"}
Body == {"valid", "missing", "invalid"}
Arguments == [shape : Shape, body : Body]

\* Strings json.loads rejects: the caller falls back to {}.
Unparsable == {"truncated", "over_escaped", "python", "broken"}

Empty == [shape |-> "empty", body |-> "empty"]

Parsed(arguments) == IF arguments.shape \in Unparsable THEN Empty ELSE arguments

\* _validate_args: the first violation of the schema, "none" if there is none.
\* Arguments packed into one string lack the fields the schema requires.
Validate(tool, args) ==
    CASE args = Empty -> IF tool \in NoRequired THEN "none" ELSE "missing"
      [] args.shape = "stringified" -> IF tool \in NoRequired THEN "none" ELSE "missing"
      [] OTHER -> IF args.body = "valid" THEN "none" ELSE args.body

(* Repairs.  A helper returns its string as it came when it finds nothing  *)
(* of its own in it; what it does to the characters is left out.           *)
Undone(raw, shape) == IF raw.shape = shape THEN [raw EXCEPT !.shape = "plain"] ELSE raw

\* Keys without a value are dropped, up to eight times over.
DropEmptyPairs(raw) == Undone(raw, "truncated")

\* \" becomes " everywhere.
Unescape(raw) == Undone(raw, "over_escaped")

\* literal_eval, and back to JSON.
RoundTrip(raw) == Undone(raw, "python")

\* The fields packed into one string property are lifted out, if they are all that is required
\* and was not there; arguments that lack nothing, or hold no such string, are left alone.
Lifted(tool, args) ==
    IF tool \notin NoRequired /\ args.shape = "stringified" /\ args.body # "missing"
    THEN {[args EXCEPT !.shape = "plain"]} ELSE {}

\* What a handler that reads the raw string proposes: nothing when the parse succeeded, when
\* it was given no string, or when its helper changed nothing or left no JSON.
Reread(raw, args, repaired) ==
    IF args = Empty /\ raw # Empty /\ repaired # raw /\ repaired.shape \notin Unparsable
    THEN {repaired} ELSE {}

TruncatedJson(raw, args) == Reread(raw, args, DropEmptyPairs(raw))
OverEscapedKeys(raw, args) == Reread(raw, args, Unescape(raw))
PythonLiterals(raw, args) == Reread(raw, args, RoundTrip(raw))

\* Reads the arguments themselves, so it works without the raw string too.
StringifiedArgs(tool, args) == IF args = Empty THEN {} ELSE Lifted(tool, args)

Handler == {"truncated_json", "over_escaped_keys", "python_literals", "stringified_args"}

TryRepair(handler, tool, raw, args) ==
    CASE handler = "truncated_json" -> TruncatedJson(raw, args)
      [] handler = "over_escaped_keys" -> OverEscapedKeys(raw, args)
      [] handler = "python_literals" -> PythonLiterals(raw, args)
      [] handler = "stringified_args" -> StringifiedArgs(tool, args)

\* Every handler sees the same arguments; a candidate counts only if it validates.
Repairable(tool, raw, args) ==
    \E i \in DOMAIN Chain :
        \E candidate \in TryRepair(Chain[i], tool, raw, args) : Validate(tool, candidate) = "none"

(* dispatch(): what becomes of a call.  "run": the handler is called.      *)
(* "validation": the text starts with "validation error".  "malformed" and *)
(* "unknown": it does not.  raw is Empty when the caller has no raw string.*)
Dispatch(tool, raw, args) ==
    LET error == Validate(tool, args) IN
    CASE tool \notin Tool -> "unknown"
      [] error = "none" -> "run"
      [] error = "missing" /\ Repairable(tool, raw, args) -> "run"
      [] raw # Empty /\ args = Empty /\ raw.shape \in Unparsable -> "malformed"
      [] OTHER -> "validation"

\* _handle_tool_call dispatches with the raw string,
\* _dispatch_tools (the parallel path) without it.
DispatchInOrder(tool, raw) == Dispatch(tool, raw, Parsed(raw))
DispatchParallel(tool, raw) == Dispatch(tool, Empty, Parsed(raw))

Outcome == {"run", "validation", "malformed", "unknown"}
==============================================================================
