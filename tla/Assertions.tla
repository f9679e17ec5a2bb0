------------------------------ MODULE Assertions ------------------------------
(***************************************************************************)
(* The checks of a step and what a test makes of them: steps/assertions,   *)
(* steps/_checks, player/execution/_declared and the end of run_test; and  *)
(* the paths into a value, as checks read them (_checks/extraction) and as *)
(* util/json_path_extract does.                                            *)
(***************************************************************************)
EXTENDS Naturals, Integers, Sequences, SequencesExt, FiniteSets, FiniteSetsExt

CONSTANTS CheckedTests, \* tests: sequences of [uses, checks, phase]
          Trees,        \* values paths are read from
          Paths         \* paths: sequences of segments

VARIABLES
    doc,     \* the test that runs
    ran,     \* its results so far: [uses, status, checks], nested_declared left out
    verdict, \* the status of the test, "none" while it runs
    sum,     \* its AssertionSummary: [declared, total, passed, hard, soft]
    probe    \* a path that was read: [strict, lenient, plain, flat]
aVars == <<doc, ran, verdict, sum, probe>>

\* Values: null, booleans, numbers, texts (as the characters they have), lists, mappings (keys only).
None == [t |-> "none"]
Bool(b) == [t |-> "bool", b |-> b]
Int_(n) == [t |-> "int", n |-> n]
Str(s) == [t |-> "str", s |-> s]
List(l) == [t |-> "list", l |-> l]
Keys(k) == [t |-> "dict", k |-> k]
NoSum == [declared |-> 0, total |-> 0, passed |-> 0, hard |-> 0, soft |-> 0]
Null == [t |-> "null"]
NoProbe == [strict |-> Null, lenient |-> Null, plain |-> "yes", flat |-> "yes"]

AInit == doc \in CheckedTests /\ ran = <<>> /\ verdict = "none" /\ sum = NoSum /\ probe = NoProbe

-----------------------------------------------------------------------------
(* Operators.  Each answers "yes", "no", or "error" when its operands cannot be compared. *)

Digits == <<"0", "1", "2", "3">>
YesNo(b) == IF b THEN "yes" ELSE "no"
Not(a) == CASE a = "yes" -> "no" [] a = "no" -> "yes" [] OTHER -> a

\* as_text: as it is written, a boolean in lower case.
RECURSIVE AsText(_)
AsText(v) ==
    CASE v.t = "none" -> <<"None">>
      [] v.t = "bool" -> <<IF v.b = "yes" THEN "true" ELSE "false">>
      [] v.t = "int" -> <<Digits[v.n + 1]>>
      [] v.t = "str" -> v.s
      [] v.t = "list" -> <<"[">> \o FlattenSeq([i \in DOMAIN v.l |-> AsText(v.l[i])]) \o <<"]">>
      [] OTHER -> <<"{">> \o SetToSeq(v.k) \o <<"}">>
Occurs(a, b) == \E i \in 0..(Len(b) - Len(a)) : SubSeq(b, i + 1, i + Len(a)) = a

\* float(): of a number, a boolean or a text that is one.
Number(v) == CASE v.t = "int" -> v.n [] v.t = "bool" -> IF v.b = "yes" THEN 1 ELSE 0
               [] v.t = "str" /\ Len(v.s) = 1 /\ v.s[1] \in Range(Digits) -> (CHOOSE n \in 1..4 : Digits[n] = v.s[1]) - 1
               [] OTHER -> -1

\* same: equal (as a boolean is to a number), or written the same.
Equal(a, e) == a = e \/ ({a.t, e.t} = {"bool", "int"} /\ Number(a) = Number(e))
Same(a, e) == YesNo(Equal(a, e) \/ AsText(a) = AsText(e))

\* numeric, sized, bounded: an operand that is no number, or has no length, is an error.
Numeric(a, e, holds) == IF Number(a) < 0 \/ Number(e) < 0 THEN "error" ELSE YesNo(holds)
Length(v) == CASE v.t = "str" -> Len(v.s) [] v.t = "list" -> Len(v.l) [] v.t = "dict" -> Cardinality(v.k) [] OTHER -> -1
Sized(a, e, holds) == IF Length(a) < 0 \/ Number(e) < 0 THEN "error" ELSE YesNo(holds)
Bounded_(a, e) == IF e.t # "list" \/ Length(e) # 2 \/ Number(a) < 0 \/ Number(e.l[1]) < 0 \/ Number(e.l[2]) < 0 THEN "error"
                  ELSE YesNo(Number(e.l[1]) <= Number(a) /\ Number(a) <= Number(e.l[2]))

\* is_member: in the list, or the one value there is; a mapping cannot be looked for as a key.
IsMember(a, e) == IF e.t = "list" THEN YesNo(\E i \in DOMAIN e.l : Equal(a, e.l[i])) ELSE YesNo(Equal(a, e))
HasKey(a, e) == IF a.t # "dict" THEN "no" ELSE IF e.t \in {"list", "dict"} THEN "error"
                ELSE YesNo(e.t = "str" /\ Len(e.s) = 1 /\ e.s[1] \in a.k)

\* Mutant of NotContains: of nothing at all, nothing can be said.
NotContainsNull(a, e) == IF a = None THEN "no" ELSE YesNo(~Occurs(AsText(e), AsText(a)))
NotContains(a, e) == IF a = None THEN "yes" ELSE YesNo(~Occurs(AsText(e), AsText(a)))

\* TABLE.
Holds(op, a, e) ==
    CASE op = "not_null" -> YesNo(a # None)
      [] op = "is_null" -> YesNo(a = None)
      [] op = "not_empty" -> YesNo(Number(a) > 0 \/ Length(a) > 0)
      [] op = "equals" -> Same(a, e)
      [] op = "not_equals" -> Not(Same(a, e))
      [] op = "contains" -> YesNo(a # None /\ Occurs(AsText(e), AsText(a)))
      [] op = "not_contains" -> NotContains(a, e)
      [] op = "is_in" -> YesNo(a # None /\ AsText(a) # <<>> /\ Occurs(AsText(a), AsText(e)))
      [] op = "matches_regex" -> YesNo(a.t = "str" /\ Occurs(AsText(e), AsText(a)))
      [] op = "one_of" -> IsMember(a, e)
      [] op = "none_of" -> Not(IsMember(a, e))
      [] op = "has_key" -> HasKey(a, e)
      [] op = "not_has_key" -> Not(HasKey(a, e))
      [] op = "gt" -> Numeric(a, e, Number(a) > Number(e))
      [] op = "gte" -> Numeric(a, e, Number(a) >= Number(e))
      [] op = "lt" -> Numeric(a, e, Number(a) < Number(e))
      [] op = "lte" -> Numeric(a, e, Number(a) <= Number(e))
      [] op = "length_equals" -> Sized(a, e, Length(a) = Number(e))
      [] op = "length_gt" -> Sized(a, e, Length(a) > Number(e))
      [] op = "length_lt" -> Sized(a, e, Length(a) < Number(e))
      [] op = "between" -> Bounded_(a, e)
      [] OTHER -> "error"
Opposites == {<<"not_null", "is_null">>, <<"equals", "not_equals">>, <<"contains", "not_contains">>,
              <<"one_of", "none_of">>, <<"has_key", "not_has_key">>, <<"gt", "lte">>, <<"gte", "lt">>}

\* resolve and check_operands: the words of a check; those it has none for are no check.
Known(op) == op # "unknown"
\* check_schema_validation: what is not a schema validates nothing.
SchemaHolds(schema, fits) == IF schema = "none" THEN "error" ELSE fits

-----------------------------------------------------------------------------
(* The checks of a step. *)

\* _evaluate_one: an unknown word, severity or input fails the check, and hard.
Evaluated(c, actual) ==
    LET held == IF c.op = "schema" THEN SchemaHolds(c.value.t, YesNo(actual.t = c.value.t)) ELSE Holds(c.op, actual, c.value) IN
    [op |-> c.op, value |-> c.value, actual |-> actual, how |-> IF Known(c.op) /\ c.input = "published" THEN held ELSE "error",
     severity |-> IF c.severity = "soft" /\ Known(c.op) THEN "soft" ELSE "hard"]
Passed(r) == r.how = "yes"

\* has_hard_failure.
HardFailure(rs) == \E i \in DOMAIN rs : ~Passed(rs[i]) /\ rs[i].severity = "hard"

Due == Len(ran) + 1
StepDue == verdict = "none" /\ Due <= Len(doc)
Stopped == \E i \in DOMAIN ran : ran[i].status = "failed" /\ doc[i].phase # "teardown"
Skipped(k) == [uses |-> doc[k].uses, status |-> "skipped", checks |-> <<>>]

\* _run_step_guarded: the step answers and all its checks are evaluated, whether one fails or not.
StepAnswers(actual) ==
    /\ StepDue /\ (Stopped => doc[Due].phase = "teardown")
    /\ LET rs == [i \in DOMAIN doc[Due].checks |-> Evaluated(doc[Due].checks[i], actual)] IN
       ran' = Append(ran, [uses |-> doc[Due].uses, status |-> IF HardFailure(rs) THEN "failed" ELSE "passed", checks |-> rs])
    /\ UNCHANGED <<doc, verdict, sum, probe>>

\* ... or raises, and has no checks.
StepRaises ==
    /\ StepDue /\ (Stopped => doc[Due].phase = "teardown")
    /\ ran' = Append(ran, [Skipped(Due) EXCEPT !.status = "failed"]) /\ UNCHANGED <<doc, verdict, sum, probe>>

\* Its if: says no.
StepSkipped ==
    /\ StepDue /\ ~Stopped /\ doc[Due].phase # "teardown"
    /\ ran' = Append(ran, Skipped(Due)) /\ UNCHANGED <<doc, verdict, sum, probe>>

\* What a failure stopped has no result; it is left out of the results altogether.
StepUnreached ==
    /\ StepDue /\ Stopped /\ doc[Due].phase # "teardown"
    /\ ran' = Append(ran, [Skipped(Due) EXCEPT !.status = "unreached"]) /\ UNCHANGED <<doc, verdict, sum, probe>>

-----------------------------------------------------------------------------
(* The end of a test. *)

Count(P(_)) == LET seq == FlattenSeq([i \in DOMAIN ran |-> ran[i].checks]) IN Cardinality({i \in DOMAIN seq : P(seq[i])})

\* declared_checks: the checks of every step of the test whose "uses" is that of one that ran.
Declared ==
    LET uses == {ran[i].uses : i \in {k \in DOMAIN ran : ran[k].status \in {"passed", "failed"}}}
        each == [i \in DOMAIN doc |-> IF doc[i].uses \in uses THEN Len(doc[i].checks) ELSE 0] IN
    FoldLeft(LAMBDA x, y : x + y, 0, each)

\* AssertionEngine.build_summary.
BuildSummary ==
    [declared |-> Declared, total |-> Count(LAMBDA r : TRUE), passed |-> Count(Passed),
     hard |-> Count(LAMBDA r : ~Passed(r) /\ r.severity = "hard"), soft |-> Count(LAMBDA r : ~Passed(r) /\ r.severity = "soft")]

\* run_test: a failure in setup or execution, or checks that were declared and not evaluated.
TestDone ==
    /\ verdict = "none" /\ Len(ran) = Len(doc)
    /\ sum' = BuildSummary
    /\ verdict' = IF Stopped \/ sum'.declared > sum'.total THEN "failed" ELSE "completed"
    /\ UNCHANGED <<doc, ran, probe>>

-----------------------------------------------------------------------------
(* Paths.  A tree is a leaf, a mapping m or a list s.  A segment is a predicate, or a name; *)
(* one that is a number has it as n, and any may be put in brackets.                        *)

NoNumber == -9
Get(tree, k) == IF tree.t = "map" /\ k \in DOMAIN tree.m THEN tree.m[k] ELSE Null
At(tree, n) == IF tree.t = "list" /\ n \in 0..(Len(tree.s) - 1) THEN tree.s[n + 1] ELSE Null

\* _iter_predicate_values: what a predicate's key, a path itself, leads to; into every element of
\* a list on its way, unless it names one by its digits.
RECURSIVE Reached(_, _)
Reached(nodes, keys) ==
    IF keys = <<>> THEN nodes
    ELSE LET k == keys[1]
             one(n) == IF n.t = "list" /\ k.n < 0 THEN {Get(n.s[i], k.name) : i \in DOMAIN n.s}
                       ELSE {Get(n, k.name), At(n, k.n)} IN
         Reached(UNION {one(n) : n \in nodes} \ {Null}, Tail(keys))

\* _find_by_predicate: the first element that has the value there.
Matching(seq, seg) == {i \in DOMAIN seq : \E n \in Reached({seq[i]}, seg.keys) : n = seg.want}
FindBy(seq, seg) == IF Matching(seq, seg) = {} THEN Null ELSE seq[Min(Matching(seq, seg))]

\* _resolve_path_segment: of a list, the first element that leads anywhere, lists in it
\* included; an index is written in digits (isdigit), a bracket is part of a key's name.
RECURSIVE Segment(_, _)
Segment(tree, seg) ==
    CASE seg.t = "pred" /\ tree.t = "list" ->
           LET hits == {i \in DOMAIN tree.s : Segment(tree.s[i], seg) # Null} IN
           IF hits = {} THEN Null ELSE Segment(tree.s[Min(hits)], seg)
      [] seg.t = "pred" -> LET c == Get(tree, seg.name) IN IF c.t = "list" THEN FindBy(c.s, seg) ELSE Null
      [] seg.bracket = "yes" -> Null
      [] tree.t = "list" -> At(tree, seg.n)
      [] OTHER -> Get(tree, seg.name)

\* _traverse_dict.
RECURSIVE Lenient(_, _)
Lenient(tree, path) == IF path = <<>> \/ tree = Null THEN tree ELSE Lenient(Segment(tree, path[1]), Tail(path))

\* _resolve_predicate: of a list, the lists of that name in the mappings it has, one after the other.
Container(tree, name) ==
    IF tree.t = "list" THEN [t |-> "list", s |-> FlattenSeq([i \in DOMAIN tree.s |-> LET c == Get(tree.s[i], name) IN IF c.t = "list" THEN c.s ELSE <<>>])]
    ELSE Get(tree, name)

\* _extract_by_path: what is not there is an error, told as null here; brackets are taken off,
\* and a list takes whatever int() reads, so that a negative one counts from the end.
RECURSIVE Strict(_, _)
Strict(tree, path) ==
    IF path = <<>> \/ tree = Null THEN tree
    ELSE LET seg == path[1]
             next == CASE seg.t = "pred" -> LET c == Container(tree, seg.name) IN IF c.t = "list" THEN FindBy(c.s, seg) ELSE Null
                       [] tree.t = "list" -> At(tree, IF seg.n < 0 THEN Len(tree.s) + seg.n ELSE seg.n)
                       [] OTHER -> Get(tree, seg.name) IN
         Strict(next, Tail(path))

\* No segment is in brackets or counts from the end; no predicate meets a list in a list.
PlainPath(path) == \A i \in DOMAIN path : path[i].t = "name" => path[i].bracket = "no" /\ path[i].n \in Nat \cup {NoNumber}
RECURSIVE NoListInList(_)
NoListInList(tree) ==
    CASE tree.t = "list" -> \A i \in DOMAIN tree.s : tree.s[i].t # "list" /\ NoListInList(tree.s[i])
      [] tree.t = "map" -> \A k \in DOMAIN tree.m : NoListInList(tree.m[k])
      [] OTHER -> TRUE
FlatFor(tree, path) == NoListInList(tree) \/ \A i \in DOMAIN path : path[i].t # "pred"

ReadPath(tree, path) ==
    /\ ran = <<>> /\ probe = NoProbe /\ doc = <<>>
    /\ probe' = [strict |-> Strict(tree, path), lenient |-> Lenient(tree, path),
                 plain |-> IF PlainPath(path) THEN "yes" ELSE "no", flat |-> IF FlatFor(tree, path) THEN "yes" ELSE "no"]
    /\ UNCHANGED <<doc, ran, verdict, sum>>

\* What the step may answer, of which the checks read one field.
Answers == {None, Bool("yes"), Int_(1), Int_(2), Str(<<"1">>), Str(<<>>), Str(<<"a", "1">>), List(<<Int_(1), Str(<<"a">>)>>), Keys({"a"})}

ANext ==
    \/ \E actual \in Answers : StepAnswers(actual)
    \/ StepRaises \/ StepSkipped \/ StepUnreached \/ TestDone
    \/ \E tree \in Trees, path \in Paths : ReadPath(tree, path)

-----------------------------------------------------------------------------
\* Checks agree. Of a check and its opposite on the same value exactly one passes, and where the
\* operands cannot be compared neither does: no answer of a system under test satisfies both, or
\* slips past both (the comparators of an expect: block). And a check and json_path_extract never
\* read different values by one path, as long as no predicate meets a list that is directly in a
\* list: where the check finds any, the step finds it, and for a path of keys, digits and
\* predicates they find the same. (By [0] or -1 the step finds what is null to a check.)
ChecksAgree ==
    /\ \A i \in DOMAIN ran : \A x, y \in Range(ran[i].checks) :
        <<x.op, y.op>> \in Opposites /\ x.value = y.value /\ "error" \notin {x.how, y.how} /\ Known(x.op)
        => Passed(x) # Passed(y)
    /\ probe.flat = "yes" => probe.lenient \in {Null, probe.strict}
    /\ probe.flat = "yes" /\ probe.plain = "yes" => probe.lenient = probe.strict

\* player/execution/_declared.py: "Steps skipped by if: are excluded: a check that was never reached
\* was not dropped": a test all of whose steps passed or were skipped is not failed.
SkippedNotCounted ==
    verdict = "failed" => \E i \in DOMAIN ran : ran[i].status = "failed"
=============================================================================
