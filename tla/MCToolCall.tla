----------------------------- MODULE MCToolCall -----------------------------
(***************************************************************************)
(* An instance of ToolCall for TLC.                                        *)
(***************************************************************************)
EXTENDS ToolCall, TLC

Sets == INSTANCE FiniteSetsExt

Schema(type) ==
  [type |-> type, props |-> <<>>, required |-> <<>>, items |-> <<>>, enum |-> {},
   open |-> FALSE]

Leaves ==
  {Schema(t) : t \in SupportedTypes \cup {"date"}}
    \cup {[Schema(t) EXCEPT !.enum = e] : t \in {"string", "integer"}, e \in {{"x"}, {Unset, "x"}}}

\* Arrays and objects of leaves.
Nested ==
  {[Schema("array") EXCEPT !.items = <<Schema(t)>>] : t \in {"number", "date"}}
    \cup {[Schema("object") EXCEPT !.props = "a" :> Schema("integer"), !.required = q] :
            q \in {<<>>, <<"a">>, <<"b">>}}

Props ==
  {<<>>, Unset :> Schema("integer")} \cup {"a" :> s : s \in Leaves \cup Nested}
    \cup {"a" :> s @@ "b" :> Schema("number") : s \in {Schema("string"), Schema("date")}}

ObjectSchemas ==
  {[Schema("object") EXCEPT !.props = p, !.required = q, !.open = o] :
     p \in Props, q \in {<<>>, <<"a">>, <<"b">>, <<"a", "a">>}, o \in BOOLEAN}

MCSchemas == Leaves \cup Nested \cup ObjectSchemas

Scalars == {Scalar(t) : t \in {"nil", "bool", "int", "float", "nan", "other"}}
             \cup {Text(t) : t \in Texts}

Plain == Scalars \cup Arrays(Scalars) \cup Objects({<<>>} \cup {"a" :> v : v \in Scalars}
             \cup {"b" :> v : v \in {Scalar("int")}})

MCInputs ==
  Objects({<<>>} \cup {"a" :> v : v \in Plain}
            \cup {"a" :> v @@ "b" :> w : v \in {Scalar("int"), Text("x"), Scalar("nan")},
                                 w \in {Scalar("int"), Scalar("nan")}})

MCTypical ==
  [schemas |-> {[Schema("object") EXCEPT !.props = "a" :> Schema("integer"), !.required = <<"a">>]},
   inputs  |-> Objects({<<>>, "a" :> Scalar("int")}),
   outputs |-> Objects({<<>>, "a" :> Scalar("int")})]

MCOutputs == Plain \cup Objects({"a" :> v : v \in Plain})

MCLists == {{}} \cup {{a, b} : a, b \in Written}

MCValues == Plain \cup MCInputs \cup MCOutputs

\* Of a schema (a record with props) or a value.
RECURSIVE MCNesting(_)
MCNesting(x) ==
  LET parts == IF "props" \in DOMAIN x THEN Range(x.props) \cup Range(x.items)
               ELSE CASE x.type = "array"  -> Range(x.items)
                      [] x.type = "object" -> Range(x.fields)
                      [] OTHER             -> {}
      holds == x.type = "array" \/ parts # {} \/ "fields" \in DOMAIN x
  IN  IF holds THEN 1 + Sets!Max({0} \cup {MCNesting(p) : p \in parts}) ELSE 0

\* The recursions of ToolSchema, closed.  TLC's coverage goes from a name in the cfg to
\* its definition, and on to the names in that, for ever; it stops at a LET.
MCValid(s) == LET part == ValidSchema(s) IN part
MCJSONLike(v) == LET part == JSONLike(v) IN part
MCErrors(v, s) == LET part == Errors(v, s) IN part
MCJSON(n) == LET part == JSON(n) IN part
MCMeaning(s, n) == LET part == Meaning(s, n) IN part
=============================================================================
