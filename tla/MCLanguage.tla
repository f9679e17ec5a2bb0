------------------------------ MODULE MCLanguage ------------------------------
\* The language of a TCK, one part of it per behaviour: the names a step reads, the checks of its
\* result, the validation of a package before it is compiled, and the API files it calls by.
EXTENDS Resolution, Assertions, Validation, ApiCalls, ApiSchemas
VARIABLE part
langVars == <<vVars, aVars, wVars, cVars, aVarsC>>

(* ------------------------------------------------------- checks of a result *)
C(op, v, sev) == [op |-> op, value |-> v, severity |-> sev, input |-> "published"]
Step1(u, cs, ph) == [uses |-> u, checks |-> cs, phase |-> ph]
MCTests == {<<>>} \cup
  {<<Step1("u1", <<C(p[1], v, "hard"), C(p[2], v, "soft")>>, "execution")>> : p \in Opposites, v \in Answers \cup {List(<<Int_(0), Int_(1)>>)}}
  \cup {<<Step1("u1", <<C(o, Int_(1), "hard"), C("unknown", None, "soft"), [C("not_null", None, "soft") EXCEPT !.input = "other"]>>, "execution")>> : o \in {"is_in", "matches_regex", "not_empty", "between", "length_gt", "length_lt", "length_equals", "schema"}}
  \cup {<<Step1("u1", <<C("equals", Int_(1), "hard")>>, "execution"), Step1(u, <<C("not_null", None, s)>>, "execution"), Step1("u3", <<C("not_null", None, s)>>, "teardown")>> : u \in {"u1", "u2"}, s \in {"hard", "soft"}}
Leaf(x) == [t |-> "leaf", v |-> x]
M1(m) == [t |-> "map", m |-> m]
L1(s) == [t |-> "list", s |-> s]
El(x, y) == M1([id |-> Leaf(x), p |-> L1(<<M1([id |-> Leaf(y)]), Leaf("z")>>)])
Holder(s) == M1([items |-> s, id |-> Leaf("x")])
MCTrees == {Leaf("x"), Holder(L1(<<El("x", "y"), El("y", "x"), El("y", "z")>>)), Holder(Leaf("x")),
            L1(<<L1(<<Holder(L1(<<El("x", "y")>>))>>), Holder(L1(<<El("x", "z")>>))>>), M1("0" :> Leaf("x")),
            L1(<<Holder(Leaf("z")), Holder(L1(<<El("x", "x")>>)), Leaf("x"), Holder(L1(<<El("y", "x"), El("x", "z")>>))>>), L1(<<>>)}
K(n) == [t |-> "name", name |-> n, n |-> NoNumber, bracket |-> "no"]
I(n) == [K(CASE n = -1 -> "-1" [] n = 0 -> "0" [] n = 1 -> "1" [] OTHER -> "3") EXCEPT !.n = n]
Bracket(seg) == [seg EXCEPT !.bracket = "yes"]
Pr(ks, x) == [t |-> "pred", name |-> "items", keys |-> ks, want |-> Leaf(x)]
MCPaths == LET s1 == {K("items"), I(0), I(1), I(3), I(-1), Bracket(I(0)), Bracket(K("items"))}
                     \cup {Pr(ks, x) : ks \in {<<K("id")>>, <<K("p"), K("id")>>}, x \in {"x", "y", "z"}} \cup {Pr(<<K("p"), I(0), K("id")>>, "z")}
               s2 == {K("id"), K("p"), I(0), I(-1)} IN
   {<<a>> : a \in s1} \cup {<<a, b>> : a \in s1, b \in s1 \cup s2} \cup {<<a, b, c>> : a \in s1, b \in s1, c \in s2}

(* ------------------------------------------------------ packages to validate *)
NoCond == [kind |-> "none", name |-> <<"">>]
Api0 == [id |-> "a", operation |-> "known", params |-> "fit"]
S(id, uses) == [id |-> id, uses |-> uses, refs |-> {}, cond |-> NoCond, inner |-> {}, returns |-> Publishes(uses),
                checks |-> {}, mark |-> "none", filters |-> "yes", api |-> Api0]
Ck(op, operands, input, sev, cac) == [op |-> op, operands |-> operands, input |-> input, severity |-> sev, cac |-> cac]
V(id) == [id |-> id, uses |-> "string", source |-> "value", value |-> "fits", returns |-> "declared", group |-> "", default |-> "no",
          instructions |-> "no", scope |-> "none"]
Base == [vars |-> <<V("x")>>, files |-> {<<"testdata", "d">>, <<"apis", "a">>}, missing |-> {}, extensions |-> {"labs", "cac"}, async |-> "no",
         namespace |-> "same", file |-> "parsed", steps |-> [setup |-> <<>>, execution |-> <<>>, teardown |-> <<>>]]
Test(ss) == [Base EXCEPT !.steps.execution = ss]
Ref(n, at, whole) == [name |-> n, at |-> at, whole |-> whole]
RefNames == {<<"env", "x">>, <<"env", "x", "f">>, <<"env", "q">>, <<"env", "testdata", "d", "f">>, Secret_, Append(Secret_, "f"), <<"execution", "n", "out">>,
             <<"execution", "b", "out">>, <<"*", "request", "body", "f">>, <<"*", "process", "n">>, <<"env", "apis", "a", "f">>}
RefSet == {Ref(n, at, w) : n \in RefNames, at \in {"headers", "token", "param", "check"}, w \in {"yes", "no"}}
Conds == {[kind |-> k, name |-> n] : k \in {"truthy", "compare"},
            n \in {<<"out">>, <<"x">>, <<"env", "x">>, <<"execution", "n", "out">>, <<"execution", "a", "out">>, <<"execution", "n">>, <<"execution", "b", "out">>,
                   <<"execution", "id">>, <<"url">>, <<"setup", "s", "out">>, <<"execution", "b">>, <<"execution", "s", "out", "f">>,
                   <<"env", "testdata", "d">>, <<"testdata", "d">>, <<"env", "apis", "a">>, <<"apis", "a">>}}
         \cup {[kind |-> "outcome", name |-> <<n>>] : n \in {"a", "b", "n"}} \cup {[kind |-> "unparsed", name |-> <<"">>], [kind |-> "status", name |-> <<"">>]}
Holder1(u, i) == [S("a", u) EXCEPT !.inner = {i}, !.refs = IF u = "mock" THEN {Ref(<<"*", "process", "n", "out">>, "reply", "yes")} ELSE {}]
B == S("b", "call")
ByRefs == {Test(<<[S("a", "call") EXCEPT !.refs = {r}], B>>) : r \in RefSet}
          \cup {Test(<<Holder1(u, [S("n", "call") EXCEPT !.refs = {r}]), B>>) : u \in {"flow", "mock"}, r \in RefSet}
          \cup {Test(<<Holder1("mock", Holder1("flow", [S("n", "call") EXCEPT !.refs = {r}])), B>>) : r \in RefSet}
ByConds == {[Test(<<a, [B EXCEPT !.cond = c]>>) EXCEPT !.steps.setup = <<S("s", "call")>>] :
               a \in {S("a", "call"), Holder1("flow", S("n", "call")), Holder1("mock", S("n", "call"))}, c \in Conds}
           \cup {[Test(<<S("a", "call")>>) EXCEPT !.steps.teardown = <<[B EXCEPT !.cond = c]>>] : c \in Conds}
           \cup {Test(<<Holder1("flow", [S("n", "call") EXCEPT !.cond = c])>>) : c \in Conds}
ByChecks == {Test(<<[a EXCEPT !.checks = {c}]>>) : a \in {S("a", "call"), S("a", "api"), S("a", "unknown")},
               c \in {Ck(o, w, i, v, q) : o \in {"equals", "unknown", "api_response"}, w \in {"right", "wrong"}, i \in {"", "out", "no"}, v \in {"hard", "wrong"}, q \in {"none", "uncertified"}}}
ByVars == LET vs == {[V(i) EXCEPT !.source = s, !.value = v, !.group = g, !.default = d, !.uses = u] : i \in {"x", "g"}, s \in {"none", "input", "register"},
                        v \in {"absent", "fits", "credential"}, g \in {"", "g"}, d \in {"yes", "no"}, u \in {"string", "policy"}} IN
          {[Test(<<[S("a", "call") EXCEPT !.refs = {Ref(<<"env", "x">>, "param", "yes")}]>>) EXCEPT !.vars = <<v>>] : v \in vs}
          \cup {[Test(<<S("a", "call")>>) EXCEPT !.vars = <<v, [V("y") EXCEPT !.source = "register", !.group = g, !.default = d]>>] : v \in vs, g \in {"", "g"}, d \in {"yes", "no"}}
Others == {[Test(<<S("id", "call")>>) EXCEPT !.namespace = n, !.file = f] : n \in {"same", "other"}, f \in {"parsed", "absent", "unparsed"}}
          \cup {[Test(<<[S("a", u) EXCEPT !.mark = k, !.filters = "no", !.api.id = i]>>) EXCEPT !.extensions = e, !.async = y, !.missing = z] :
                  u \in {"api", "call", "flow", "banned"}, k \in {"none", "direction", "internal_via"}, i \in {"a", "b"}, e \in {{}, {"labs"}}, y \in {"yes", "no"}, z \in {{}, {"f"}}}
IssuedRefs == {Ref(n, at, w) : n \in {<<"execution", "a", "edr">>, <<"execution", "n", "edr">>, <<"env", "edr">>}, at \in {"headers", "token", "param"}, w \in {"yes", "no"}}
ByIssued == {[Test(<<a, [B EXCEPT !.refs = {r}]>>) EXCEPT !.vars = <<V("edr")>>] :
               a \in {S("a", "edr"), [S("a", "edr") EXCEPT !.returns = {}], Holder1("flow", S("n", "edr")), Holder1("mock", S("n", "edr"))}, r \in IssuedRefs}
            \cup {[Test(<<[S("a", "flow") EXCEPT !.inner = {S("n", "edr"), [S("m", "call") EXCEPT !.refs = {r}]}]>>) EXCEPT !.vars = <<V("edr")>>] : r \in IssuedRefs}
            \cup {Test(<<S("a", u), [B EXCEPT !.cond = [kind |-> "truthy", name |-> n]], S("c", "api")>>) : u \in {"edr", "call"}, n \in {<<"edr">>, <<"execution", "a", "edr">>}}
MCDocs == ByIssued \cup ByRefs \cup ByConds \cup ByChecks \cup ByVars \cup Others

(* ------------------------------------------------------------------ API files *)
Nd(r, role) == [ref |-> r, role |-> role]
Pl(t) == [to |-> t, how |-> "plain"]
Enc(t) == [to |-> t, how |-> "encoded"]
Leaves == [n \in {"end", "i1", "i2"} |-> Nd(NoRef, "object")]
Doc0 == [digest |-> "d0", size |-> 1, text |-> "json", top |-> "mapping", openapi |-> "3.0", info |-> "complete", sections |-> {"paths"},
         shape |-> "plain", server |-> "absolute", nodes |-> Leaves, paths |-> <<>>, items |-> [n \in {} |-> <<>>]]
With(d, digest, ns) == [d EXCEPT !.digest = digest, !.nodes = ns @@ Leaves]
Chained(n) == [i \in {"a", "b", "c"} |-> CASE i = "a" -> Nd(IF n > 1 THEN Pl("b") ELSE Pl("end"), "object")
                                           [] i = "b" -> Nd(IF n > 2 THEN Pl("c") ELSE Pl("end"), "object")
                                           [] i = "c" -> Nd(Pl("end"), "object")]
MCLoaded == {Doc0, [Doc0 EXCEPT !.digest = "d1", !.size = 2, !.text = "yaml", !.openapi = "3.1", !.sections = {"webhooks"}],
             [Doc0 EXCEPT !.digest = "d2", !.size = 3]}
MCRefs == {[Doc0 EXCEPT !.digest = "d3", !.size = 4], With(Doc0, "r1", "a" :> Nd(Pl("end"), "object")), With(Doc0, "r2", "a" :> Nd(Enc("end"), "object")),
           With(Doc0, "r3", Chained(2)), With(Doc0, "r4", Chained(3)), With(Doc0, "r5", "a" :> Nd(Pl("a"), "object")),
           With(Doc0, "r6", "a" :> Nd(Pl("gone"), "object")), With(Doc0, "r7", "a" :> Nd(Pl("gone"), "name")),
           [Doc0 EXCEPT !.digest = "r8", !.shape = "deep"], [Doc0 EXCEPT !.digest = "r9", !.openapi = "2.0"], [Doc0 EXCEPT !.digest = "ra", !.text = "broken"]}
MCFiles == MCLoaded \cup MCRefs
Sch == [ref |-> "none", types |-> {}, enum |-> {}, nullable |-> "no", minimum |-> {}, exclusiveMinimum |-> "no", maximum |-> {}, exclusiveMaximum |-> "no", kw |-> "none", subs |-> {}]
Typed == {[Sch EXCEPT !.types = t, !.enum = e, !.nullable = n] : t \in {{}, {{"integer"}}}, e \in {{}, {{[t |-> "integer", n |-> 1], [t |-> "string", n |-> 0]}}}, n \in {"no", "true"}}
Bounded == {[Sch EXCEPT !.minimum = b, !.exclusiveMinimum = x, !.maximum = c, !.exclusiveMaximum = y] : b \in {{}, {1}}, c \in {{}, {1}}, x \in {"no", "true"}, y \in {"no", "false", "true"}}
Flat == Typed \cup Bounded
RefS == [Sch EXCEPT !.ref = "R", !.types = {{"string"}}]
IntNull == [Sch EXCEPT !.types = {{"integer"}}, !.nullable = "true"]
NestedS == {[Sch EXCEPT !.kw = k, !.subs = {x, y}, !.nullable = n] : k \in {"not", "allOf", "anyOf"}, x \in Typed, y \in {RefS, IntNull}, n \in {"no", "true"}}
MCProbes == {[schema |-> s, defs |-> [R |-> r], value |-> v] : s \in Flat \cup {RefS} \cup NestedS \cup {[Sch EXCEPT !.kw = "not", !.subs = {x}] : x \in Bounded}, r \in {IntNull, [Sch EXCEPT !.minimum = {1}, !.exclusiveMinimum = "true"]}, v \in Values}
Probe0 == {[schema |-> Sch, defs |-> [R |-> Sch], value |-> NullValue]}
Op(m, i) == [method |-> m, id |-> i, tags |-> {"t"}, shared |-> {}, own |-> {}, body |-> "none", bodyRef |-> "plain",
             responses |-> ("200" :> [found |-> "yes", content |-> "json", header |-> "required"]) @@ ("4XX" :> [found |-> "yes", content |-> "problem", header |-> "free"])]
Par(n, w, r) == [name |-> n, in |-> w, required |-> r]
Path(p, at, ph) == [path |-> p, at |-> at, placeholders |-> ph]
ApiDoc == [Doc0 EXCEPT !.digest = "api", !.paths = <<Path("/x", "i1", {}), Path("/y", "i2", {"id"})>>,
           !.items = ("i1" :> <<Op("GET", "list"), [Op("POST", "") EXCEPT !.body = "required", !.tags = {"u"}]>>)
                  @@ ("i2" :> <<[Op("GET", "") EXCEPT !.own = {Par("id", "path", "yes"), Par("q", "query", "no")}, !.shared = {Par("q", "query", "yes")},
                                 !.responses = "default" :> [found |-> "yes", content |-> "none", header |-> "free"]],
                                [Op("DELETE", "") EXCEPT !.shared = {Par("k", "header", "yes"), Par("c", "cookie", "yes")}, !.bodyRef = "lost"]>>)]
Shared == [ApiDoc EXCEPT !.digest = "shared", !.nodes = Leaves @@ ("z" :> Nd(Pl("i1"), "object")), !.paths = <<Path("/x", "i1", {}), Path("/z", "z", {})>>]
None0 == [n \in {} |-> "text"]
Swp(d) == [doc |-> d, operations |-> {}, exclude |-> {}, methods |-> {"GET", "POST", "DELETE"}, tags |-> {}, writes |-> "no", params |-> None0,
           headers |-> None0, bodies |-> {}, concurrency |-> 1, base |-> ""]
MCSweeps == {[Swp(ApiDoc) EXCEPT !.params = p, !.concurrency = c] : p \in {"id" :> "text", "id" :> "split"}, c \in {1, 2}}
   \cup {[Swp(d) EXCEPT !.operations = {<<"POST", "/x">>, <<"id", "list">>}, !.writes = w, !.bodies = b, !.concurrency = 2] : d \in {ApiDoc, Shared}, w \in {"yes", "no"}, b \in {{}, {<<"POST", "/x">>, <<"POST", "/z">>}}}
   \cup {[Swp(ApiDoc) EXCEPT !.exclude = {<<"id", "list">>}, !.tags = {"t"}, !.params = "id" :> "text", !.operations = {<<"GET", "/y">>, <<"DELETE", "/y">>}, !.writes = "yes", !.headers = ("k" :> "text") @@ ("cookie" :> "text")]}
Cl(n) == [doc |-> ApiDoc, name |-> n, params |-> None0, query |-> None0, headers |-> None0, body |-> "none", base |-> "", expect |-> [kind |-> "none", statuses |-> {}], plane |-> "no"]
MCCalls == {[Cl(<<"id", "list">>) EXCEPT !.expect = e] : e \in {x \in Expects : x.kind \in {"4xx", "success"}}} \cup {[Cl(<<"GET", "/y">>) EXCEPT !.params = "id" :> "text", !.plane = "yes", !.base = "absolute"], Cl(<<"GET", "/no">>)}
Ans(s, t, b, h, l) == [status |-> s, type |-> t, body |-> b, header |-> h, leak |-> l]
MCAnswers == {Ans(200, "json", "fits", "given", "no"), Ans(401, "problem", "fits", "absent", "no"), Ans(500, "text", "misfits", "absent", "yes")}

Parts == {"names", "checks", "validation", "files", "schemas", "calls"}
Doc1 == CHOOSE d \in MCDocs : TRUE
Init ==
    /\ part \in Parts
    /\ VInit /\ (part # "names" => names[Request] = Value("absent", <<>>, 0, "no"))
    /\ AInit /\ (part # "checks" => doc = <<>>)
    /\ WInit /\ (part # "validation" => tck = Doc1)
    /\ CInit /\ (part # "files" => \A p \in ApiPaths : onDisk[p] = Doc0)
    /\ EInit
Next ==
    /\ UNCHANGED part
    /\ \/ part = "names" /\ VNext /\ UNCHANGED <<aVars, wVars, cVars, aVarsC>>
       \/ part = "checks" /\ ANext /\ UNCHANGED <<vVars, wVars, cVars, aVarsC>>
       \/ part = "validation" /\ WNext /\ UNCHANGED <<vVars, aVars, cVars, aVarsC>>
       \/ /\ part = "files" /\ CNextWith(Probe0) /\ UNCHANGED <<vVars, aVars, wVars, aVarsC>>
          /\ onDisk' = onDisk \/ (onDisk["p1"] \in MCLoaded /\ onDisk'["p1"] \in MCLoaded)
       \/ /\ part = "schemas" /\ CNext /\ UNCHANGED <<vVars, aVars, wVars, aVarsC>>
          /\ loads' <= 1 /\ onDisk' = onDisk /\ reader'["w2"] = reader["w2"] /\ Len(docCache') >= Len(docCache)
       \/ part = "calls" /\ ENext /\ UNCHANGED <<vVars, aVars, wVars, cVars>>
Spec == Init /\ [][Next]_<<part, langVars>>
=============================================================================
