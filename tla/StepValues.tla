------------------------------- MODULE StepValues -------------------------------
(***************************************************************************)
(* What a workflow step reads of the trigger and of earlier steps, and     *)
(* what SET_VALUE, TRANSFORM and CONDITION make of it.                     *)
(*   lib/workflows/context.ts, executors/set-value.ts, transform.ts,       *)
(*   condition.ts                                                          *)
(*                                                                         *)
(* A value has one field, which names its type.  A reference names where   *)
(* it starts, the trigger or a step, and the path of segments from there.  *)
(* A result is a set of at most one value, empty when it throws.  The      *)
(* lengths of strings and of whole contexts are left out.                  *)
(***************************************************************************)
EXTENDS Naturals, Sequences, FiniteSets, SequencesExt

CONSTANTS
  Values,    \* values that are tried
  Paths,     \* paths that are tried
  SaveDepth, \* levels of a literal that may be saved
  MaxDepth,  \* levels of a value
  MaxItems   \* members of one array or object

Null == [null |-> TRUE]
Is(value, type) == type \in DOMAIN value
Nested(value) == Is(value, "array") \/ Is(value, "object")

Unsafe == {"__proto__", "prototype", "constructor"}
Inherited == {"toString"}  \* and the other names that every object answers to

Index == [s \in {"0", "1", "2"} |-> CASE s = "0" -> 1 [] s = "1" -> 2 [] s = "2" -> 3]

RECURSIVE Sanitized(_, _)
(* sanitizeWorkflowValue; the depth is that of the value itself.             *)
Sanitized(value, depth) ==
  CASE ~Nested(value) -> {v \in {value} : ~Is(v, "function")}
    [] Nested(value) /\ depth >= MaxDepth -> {}
    [] Is(value, "array") /\ depth < MaxDepth ->
         LET items == [i \in DOMAIN value.array |-> Sanitized(value.array[i], depth + 1)]
         IN IF Len(items) > MaxItems \/ {} \in ToSet(items) THEN {}
            ELSE {[array |-> [i \in DOMAIN items |-> CHOOSE v \in items[i] : TRUE]]}
    [] Is(value, "object") /\ depth < MaxDepth ->
         LET fields == [n \in DOMAIN value.object \ Unsafe |-> Sanitized(value.object[n], depth + 1)]
         IN IF Cardinality(DOMAIN value.object) > MaxItems \/ \E n \in DOMAIN fields : fields[n] = {}
            THEN {}
            ELSE {[object |-> [n \in DOMAIN fields |-> CHOOSE v \in fields[n] : TRUE]]}

RECURSIVE IsBounded(_, _)
(* isBoundedJsonValue, of a literal of a definition and of the input of a run *)
IsBounded(value, depth) ==
  CASE ~Nested(value) -> TRUE
    [] Is(value, "array") ->
         /\ depth < SaveDepth /\ Len(value.array) <= MaxItems
         /\ \A i \in DOMAIN value.array : IsBounded(value.array[i], depth + 1)
    [] Is(value, "object") ->
         /\ depth < SaveDepth /\ Cardinality(DOMAIN value.object) <= MaxItems
         /\ \A n \in DOMAIN value.object : IsBounded(value.object[n], depth + 1)

-------------------------------------------------------------------------------
(* "segment in current": an array has its indices and its length, and both   *)
(* have the names they inherit.                                              *)
Has(value, segment) ==
  \/ Nested(value) /\ segment \in Inherited
  \/ Is(value, "array") /\ segment = "length"
  \/ Is(value, "array") /\ segment \in DOMAIN Index /\ Index[segment] <= Len(value.array)
  \/ Is(value, "object") /\ segment \in DOMAIN value.object

(* An array answers null for what is no index of it.                         *)
At(value, segment) ==
  IF Is(value, "array")
  THEN IF segment \in DOMAIN Index THEN value.array[Index[segment]] ELSE Null
  ELSE IF segment \in DOMAIN value.object THEN value.object[segment] ELSE [function |-> segment]

(* Follows a path by one way of looking up a segment.                        *)
Follow(value, path, next(_, _)) ==
  LET upTo[n \in 0..Len(path)] ==
        IF n = 0 THEN {value} ELSE UNION {next(v, path[n]) : v \in upTo[n - 1]}
  IN upTo[Len(path)]

(* readPath                                                                  *)
Read(value, path) ==
  Follow(value, path, LAMBDA v, s : IF s \notin Unsafe /\ Has(v, s) THEN {At(v, s)} ELSE {})

(* selectPath; an array takes numbers alone.                                 *)
Selected(value, path) ==
  Follow(value, path, LAMBDA v, s :
    IF s \notin Unsafe /\ Has(v, s) /\ (Is(v, "array") => s \in DOMAIN Index)
    THEN {At(v, s)} ELSE {})

(* createWorkflowContext: every output is sanitized, or there is none.       *)
Contexts(trigger, outputs) ==
  LET values == [s \in DOMAIN outputs |-> Sanitized(outputs[s], 0)]
  IN {[trigger |-> t, steps |-> [s \in DOMAIN outputs |-> CHOOSE v \in values[s] : TRUE]] :
        t \in IF \E s \in DOMAIN outputs : values[s] = {} THEN {} ELSE Sanitized(trigger, 0)}

Literal(value) == [literal |-> value]
Reference(from, path) == [from |-> from, path |-> path]

(* parseReferencePath; where a reference starts is told apart here already.  *)
IsSafe(path) == ToSet(path) \cap Unsafe = {}

(* resolveWorkflowValue                                                      *)
Resolved(expression, context) ==
  IF "literal" \in DOMAIN expression THEN Sanitized(expression.literal, 0)
  ELSE IF ~IsSafe(expression.path) THEN {}
  ELSE IF expression.from = "trigger" THEN Read(context.trigger, expression.path)
  ELSE IF expression.from \in DOMAIN context.steps
       THEN Read(context.steps[expression.from], expression.path) ELSE {}

-------------------------------------------------------------------------------
(* An output is sanitized before it is stored.                               *)
Output(results) == UNION {Sanitized(v, 0) : v \in results}

SetValue(expression, context) == Output(Resolved(expression, context))

Select(source, path, context) ==
  Output(UNION {Selected(v, path) : v \in Resolved(source, context)})

(* The object operation                                                      *)
Assembled(fields, context) ==
  LET parts == [n \in DOMAIN fields |-> Resolved(fields[n], context)]
  IN IF \E n \in DOMAIN parts : parts[n] = {} THEN {}
     ELSE Output({[object |-> [n \in DOMAIN parts |-> CHOOSE v \in parts[n] : TRUE]]})

(* Two values are equal whatever order their fields came in.                 *)
Equal(left, right) == left = right

(* What an operator of a condition makes of two values; whether a string     *)
(* contains another is left open.                                            *)
Compared(operator, left, right) ==
  CASE operator = "equals" -> {Equal(left, right)}
    [] operator = "not_equals" -> {~Equal(left, right)}
    [] operator = "contains" ->
         IF Is(left, "array") THEN {\E item \in ToSet(left.array) : Equal(item, right)}
         ELSE IF Is(left, "string") /\ Is(right, "string") THEN BOOLEAN ELSE {}
    [] operator = "greater_than" ->
         IF Is(left, "number") /\ Is(right, "number") THEN {left.number > right.number} ELSE {}
    [] operator = "less_than" ->
         IF Is(left, "number") /\ Is(right, "number") THEN {left.number < right.number} ELSE {}

(* The branches that the condition may take.                                 *)
Condition(operator, left, right, context) ==
  IF operator = "exists" THEN {Resolved(left, context) # {}}
  ELSE UNION {Compared(operator, l, r) :
                l \in Resolved(left, context), r \in Resolved(right, context)}

-------------------------------------------------------------------------------
(* What is stored of a step is read back as it is.                           *)
ASSUME StoredIsStable ==
  \A v \in Values : \A s \in Sanitized(v, 0) : Sanitized(s, 0) = {s}

(* A reference and a select agree on a path, unless it asks an array for     *)
(* something that is not an index of it: the reference is null then.         *)
ASSUME SelectAgreesWithReference ==
  \A v \in Values, p \in Paths :
    Read(v, p) # Selected(v, p) =>
      /\ Selected(v, p) = {}
      /\ \E n \in 1..Len(p) :
           /\ p[n] \notin DOMAIN Index
           /\ \E a \in Read(v, SubSeq(p, 1, n - 1)) : Is(a, "array")

(* A condition that asks whether something exists always takes a branch, and *)
(* when it finds that it does, a SET_VALUE stores it, unless it is a name    *)
(* that every object has; a select stores what the reference does or nothing. *)
ASSUME ExistingIsStored ==
  \A v \in Values, p \in Paths : \A context \in Contexts(v, [s \in {"earlier"} |-> v]) :
    \A from \in {"trigger", "earlier", "never run"} :
      LET reference == Reference(from, p)
          exists == Condition("exists", reference, reference, context)
      IN /\ Cardinality(exists) = 1
         /\ TRUE \in exists => SetValue(reference, context) # {} \/ ToSet(p) \cap Inherited # {}
         /\ Condition("equals", reference, reference, context) = exists \ {FALSE}
         /\ Select(Reference(from, <<>>), p, context) \subseteq SetValue(reference, context)

(* What an object was assembled from is found under its names.               *)
ASSUME AssembledReadsBack ==
  \A v, w \in Values, context \in Contexts(Null, <<>>) :
    LET fields == [n \in {"x", "y"} |-> Literal(IF n = "x" THEN v ELSE w)]
    IN \A made \in Assembled(fields, context), n \in {"x", "y"} :
         Read(made, <<n>>) = Resolved(fields[n], context)

(* A literal that was saved resolves in every run; what a run may be started *)
(* with makes a context.                                                     *)
ASSUME SavedResolves ==
  \A v \in Values : IsBounded(v, 0) =>
    \E context \in Contexts(v, <<>>) : Resolved(Literal(v), context) = {context.trigger}
===============================================================================
