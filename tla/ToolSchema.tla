----------------------------- MODULE ToolSchema -----------------------------
(***************************************************************************)
(* The subset of JSON Schema that tools declare (pkg/tool/validate.go):    *)
(* which schemas a registration accepts, which values a schema admits, and *)
(* a reference meaning of schemas, as sets of values, to compare with.     *)
(*                                                                         *)
(* A value is a record: a scalar has a type only, or a text; an array has  *)
(* its items and an object its fields.  "nan" stands for the numbers that  *)
(* are not finite, "other" for any Go value that JSON does not have.       *)
(*                                                                         *)
(* Five definitions recur into the parts of a schema or a value.  They     *)
(* name a parameter there, PartX in X, that an instance sets to X: what a  *)
(* recursion is meant to satisfy is then an assumption that TLC evaluates  *)
(* and a proof may use (RecursionAssumption).                              *)
(***************************************************************************)
EXTENDS Naturals, Sequences, Functions

CONSTANTS
  Fields,      \* names of fields
  Texts,       \* values of strings
  MaxItems,    \* length of the arrays in the meaning, a bound of the model
  Depth,       \* nesting of the values in the meaning, a bound of the model
  Schemas,     \* the schemas that are met, with their parts
  Values,      \* the values that are met, with their parts
  Nesting(_),  \* of a schema or a value
  PartValid(_), PartJSONLike(_), PartErrors(_, _), PartJSON(_), PartMeaning(_, _)

Unset == "unset"  \* an empty string: a name, an ID or a choice that is not given

SupportedTypes ==
  {"array", "boolean", "integer", "null", "number", "object", "string"}

Scalar(type) == [type |-> type]
Text(t) == [type |-> "text", text |-> t]
Array(q) == [type |-> "array", items |-> q]
Object(f) == [type |-> "object", fields |-> f]

ScalarTypes == {"nil", "bool", "int", "float", "nan", "other"}

\* A nil map reads like one without fields.
FieldsOf(v) == IF v.type = "object" THEN v.fields ELSE <<>>

-----------------------------------------------------------------------------
(* Schemas: type, props (a function), required (a sequence), items (empty  *)
(* or one schema), enum, and open (additionalProperties is set and true).  *)

\* What may be a part of x.
Inner(S, x) == {y \in S : Nesting(y) < Nesting(x)}

ASSUME BoundAssumption == Depth \in Nat /\ MaxItems \in Nat /\ Texts # {}

ASSUME SchemaAssumption ==
  \A s \in Schemas :
    /\ Nesting(s) \in 0..Depth
    /\ s.props \in [DOMAIN s.props -> Inner(Schemas, s)]
    /\ DOMAIN s.props \subseteq Fields \cup {Unset}
    /\ s.required \in Seq(Fields \cup {Unset})
    /\ s.items \in Seq(Inner(Schemas, s))
    /\ s.type = "array" => Nesting(s) > 0

ASSUME ValueAssumption ==
  \A v \in Values :
    /\ Nesting(v) \in 0..Depth
    /\ \/ v.type \in ScalarTypes /\ v = Scalar(v.type)
       \/ v.type = "text" /\ v = Text(v.text) /\ v.text \in Texts
       \/ /\ v.type = "array" /\ v = Array(v.items) /\ Nesting(v) > 0
          /\ v.items \in Seq(Inner(Values, v)) /\ Len(v.items) <= MaxItems
       \/ /\ v.type = "object" /\ v = Object(v.fields) /\ Nesting(v) > 0
          /\ v.fields \in [DOMAIN v.fields -> Inner(Values, v)]
          /\ DOMAIN v.fields \subseteq Fields

\* Mutant of RequiredDeclared: a required field need not be declared.
RequiredAnywhere(s) == TRUE
RequiredDeclared(s) == Range(s.required) \subseteq DOMAIN s.props

ValidItems(s) == \A i \in DOMAIN s.items : PartValid(s.items[i])

\* Mutant of ValidItems: the schema of the items is not looked at.
ItemsUnchecked(s) == TRUE

ValidObject(s) ==
  /\ IsInjective(s.required) /\ RequiredDeclared(s)
  /\ Unset \notin DOMAIN s.props
  /\ \A f \in DOMAIN s.props : PartValid(s.props[f])

ValidSchema(s) ==
  /\ s.type \in SupportedTypes
  /\ s.type = "object" => ValidObject(s)
  /\ s.type = "array" => ValidItems(s)
  /\ s.enum # {} => s.type = "string" /\ Unset \notin s.enum

\* A tool's definition: the schemas of its input and of its output.
ValidDefinition(def) ==
  /\ def.in.type = "object" /\ ValidSchema(def.in)
  /\ ValidSchema(def.out)

-----------------------------------------------------------------------------
(* Validation of a value: the errors it may report, none when the value is *)
(* accepted.  Which of several is reported depends on the order in which a *)
(* map is ranged over.                                                     *)

Unless(condition) == IF condition THEN {} ELSE {"mismatch"}

JSONLike(v) ==
  CASE v.type = "array"  -> \A i \in DOMAIN v.items : PartJSONLike(v.items[i])
    [] v.type = "object" -> \A f \in DOMAIN v.fields : PartJSONLike(v.fields[f])
    [] OTHER             -> v.type \in {"nil", "bool", "text", "int", "float"}

IsInteger(v) == v.type = "int"

\* Mutant of IsNumber: a float need not be finite.
IsAnyNumber(v) == v.type \in {"int", "float", "nan"}
IsNumber(v) == IsInteger(v) \/ v.type = "float"

\* Mutant of UndeclaredErrors: a field that is not declared is never refused.
AllOpenErrors(v, s) == Unless(PartJSONLike(v))
UndeclaredErrors(v, s) == Unless(s.open /\ PartJSONLike(v))

ObjectErrors(v, s) ==
  IF v.type \in {"object", "nil"} /\ Range(s.required) \subseteq DOMAIN FieldsOf(v)
  THEN UNION {IF f \in DOMAIN s.props THEN PartErrors(FieldsOf(v)[f], s.props[f])
                                      ELSE UndeclaredErrors(FieldsOf(v)[f], s) :
              f \in DOMAIN FieldsOf(v)}
  ELSE {"mismatch"}

ArrayErrors(v, s) ==
  IF v.type = "array"
  THEN UNION {IF s.items = <<>> THEN Unless(PartJSONLike(v.items[i]))
                                ELSE PartErrors(v.items[i], s.items[1]) :
              i \in DOMAIN v.items}
  ELSE {"mismatch"}

Errors(v, s) ==
  CASE s.type = "object"  -> ObjectErrors(v, s)
    [] s.type = "array"   -> ArrayErrors(v, s)
    [] s.type = "string"  -> Unless(v.type = "text" /\ (s.enum # {} => v.text \in s.enum))
    [] s.type = "boolean" -> Unless(v.type = "bool")
    [] s.type = "integer" -> Unless(IsInteger(v))
    [] s.type = "number"  -> Unless(IsNumber(v))
    [] s.type = "null"    -> Unless(v.type = "nil")
    [] OTHER              -> {"unsupported"}

-----------------------------------------------------------------------------
(* The reference: the values a schema stands for (specs/040-tools.md 6),   *)
(* built from the inside out, up to a nesting.  No coercion, fields that   *)
(* are not declared only where the schema is open, nothing but JSON.       *)

Arrays(S) == {Array(q) : q \in UNION {[1..n -> S] : n \in 0..MaxItems}}
Objects(F) == {Object(f) : f \in F}

JSONScalars ==
  {Scalar(t) : t \in {"nil", "bool", "int", "float"}} \cup {Text(t) : t \in Texts}

JSON(n) ==
  JSONScalars
    \cup IF n = 0 THEN {}
         ELSE Arrays(PartJSON(n - 1))
                \cup Objects(UNION {[K -> PartJSON(n - 1)] : K \in SUBSET Fields})

\* What a field of an object may hold.
FieldMeaning(s, n, k) ==
  IF k \in DOMAIN s.props THEN PartMeaning(s.props[k], n - 1) ELSE PartJSON(n - 1)

\* The objects with fields K.
Choices(s, n, K) ==
  {f \in [K -> UNION {FieldMeaning(s, n, k) : k \in K}] :
     \A k \in K : f[k] \in FieldMeaning(s, n, k)}

Shapes(s) ==
  {K \in SUBSET (IF s.open THEN Fields ELSE DOMAIN s.props) : Range(s.required) \subseteq K}

ObjectMeaning(s, n) ==
  (IF s.required = <<>> THEN {Scalar("nil")} ELSE {})
    \cup IF n = 0 THEN {} ELSE Objects(UNION {Choices(s, n, K) : K \in Shapes(s)})

ArrayMeaning(s, n) ==
  IF n = 0 THEN {}
  ELSE Arrays(IF s.items = <<>> THEN PartJSON(n - 1) ELSE PartMeaning(s.items[1], n - 1))

Meaning(s, n) ==
  CASE s.type = "object"  -> ObjectMeaning(s, n)
    [] s.type = "array"   -> ArrayMeaning(s, n)
    [] s.type = "string"  -> {Text(t) : t \in IF s.enum = {} THEN Texts ELSE s.enum}
    [] s.type = "boolean" -> {Scalar("bool")}
    [] s.type = "integer" -> {Scalar("int")}
    [] s.type = "number"  -> {Scalar("int"), Scalar("float")}
    [] s.type = "null"    -> {Scalar("nil")}
    [] OTHER              -> {}

-----------------------------------------------------------------------------
ASSUME RecursionAssumption ==
  /\ \A s \in Schemas : PartValid(s) = ValidSchema(s)
  /\ \A v \in Values : PartJSONLike(v) = JSONLike(v)
  /\ \A v \in Values, s \in Schemas : PartErrors(v, s) = Errors(v, s)
  /\ \A n \in 0..Depth : PartJSON(n) = JSON(n)
  /\ \A n \in 0..Depth, s \in Schemas : PartMeaning(s, n) = Meaning(s, n)
=============================================================================
