------------------------------ MODULE ApiSchemas ------------------------------
\* The schemas of an API file (openapi/conformance/schema_dialect.py): how an OpenAPI 3.0 schema
\* becomes the JSON Schema a validator reads, what that validator accepts, and what was meant.
EXTENDS ApiDocuments

NullValue == [t |-> "null", n |-> 0]
Values == {NullValue, [t |-> "string", n |-> 0]} \cup {[t |-> "integer", n |-> n] : n \in 0..2}

\* Mutant of Bounds: the flag is dropped and the bound stays inclusive.
BoundsInclusive(flag, bound) == [incl |-> bound, excl |-> {}]

\* _bounds: a boolean qualifies the bound in 3.0 and is the bound itself in 2020-12.
Bounds(flag, bound) ==
    [incl |-> IF flag = "true" THEN {} ELSE bound, excl |-> IF flag = "true" THEN bound ELSE {}]

\* _nullable: null joins the enum and the types; a schema without a type is offered beside null.
Nullable(s, c) ==
    IF s.nullable # "true" THEN c ELSE
    LET e == [c EXCEPT !.enum = {v \cup {NullValue} : v \in c.enum}] IN
    IF c.types # {} THEN [e EXCEPT !.types = {v \cup {"null"} : v \in c.types}] ELSE [e EXCEPT !.orNull = "yes"]

\* to_2020_12: a reference stands alone, the schemas inside are translated, then bounds and null.
\* Optional keywords are sets of at most one value; `subs` are the schemas under `kw`.
RECURSIVE To202012(_)
To202012(s) ==
    IF s.ref # "none" THEN [ref |-> s.ref] ELSE
    Nullable(s, [ref |-> "none", types |-> s.types, enum |-> s.enum, orNull |-> "no", kw |-> s.kw,
                 min |-> Bounds(s.exclusiveMinimum, s.minimum), max |-> Bounds(s.exclusiveMaximum, s.maximum),
                 subs |-> {To202012(x) : x \in s.subs}])

Combined(kw, oks) ==
    CASE kw = "none" -> TRUE
      [] kw = "not" -> TRUE \notin oks
      [] kw = "allOf" -> FALSE \notin oks
      [] kw = "anyOf" -> TRUE \in oks

\* What a 2020-12 validator accepts (jsonschema, external); `defs` are the schemas references name.
RECURSIVE Accepts(_, _, _)
Accepts(c, defs, v) ==
    IF c.ref # "none" THEN Accepts(defs[c.ref], defs, v) ELSE
    \/ c.orNull = "yes" /\ v = NullValue
    \/ /\ \A ts \in c.types : v.t \in ts
       /\ \A e \in c.enum : v \in e
       /\ v.t = "integer" => /\ \A b \in c.min.incl : v.n >= b
                             /\ \A b \in c.min.excl : v.n > b
                             /\ \A b \in c.max.incl : v.n <= b
                             /\ \A b \in c.max.excl : v.n < b
       /\ Combined(c.kw, {Accepts(x, defs, v) : x \in c.subs})

\* What OpenAPI 3.0 says of the same schema: nullable admits null to the type and the enum, or to
\* the whole schema when it has no type; a true flag makes its bound strict; a reference is all there is.
RECURSIVE Means(_, _, _)
Means(s, defs, v) ==
    LET null == s.nullable = "true" /\ v = NullValue
        within(flag, b, lo, hi) == IF flag = "true" THEN lo < hi ELSE lo <= hi
    IN  IF s.ref # "none" THEN Means(defs[s.ref], defs, v) ELSE
        \/ null /\ s.types = {}
        \/ /\ null \/ \A ts \in s.types : v.t \in ts
           /\ null \/ \A e \in s.enum : v \in e
           /\ v.t = "integer" => /\ \A b \in s.minimum : within(s.exclusiveMinimum, b, b, v.n)
                                 /\ \A b \in s.maximum : within(s.exclusiveMaximum, b, v.n, b)
           /\ Combined(s.kw, {Means(x, defs, v) : x \in s.subs})

\* translated_document: every schema of the document, the ones references name included.
TranslatedDocument(defs) == [n \in DOMAIN defs |-> To202012(defs[n])]

\* What the validator of a schema of the document says of a value.
JudgedAs(p) == [schema |-> p.schema, value |-> p.value, defs |-> p.defs,
                ok |-> Accepts(To202012(p.schema), TranslatedDocument(p.defs), p.value)]

\* A 3.0 schema means what it says after its translation: the validator accepts a value exactly
\* when OpenAPI 3.0 does, through nesting, references, nullable and exclusive bounds (schema_dialect.py).
TranslationKeepsMeaning == judged # NoSchema => judged.ok = Means(judged.schema, judged.defs, judged.value)
=============================================================================
