------------------------------ MODULE Resolution ------------------------------
(***************************************************************************)
(* The variables of a run and the references its steps make to them:       *)
(* player/loading/resolver and reference_origin, execution/context,        *)
(* _step_outputs, _step_outcomes, phase and _phase_step, steps/conditions, *)
(* syntax/call_scope.  One context serves all tests of a run.  A test has  *)
(* execution a and b (a may be a flow step with n in it) and teardown z;   *)
(* setup is a phase like execution.  What its author wrote is chosen when  *)
(* it is read.                                                             *)
(***************************************************************************)
EXTENDS Naturals, Sequences, SequencesExt, FiniteSets, FiniteSetsExt

CONSTANTS MaxDepth,   \* MAX_TEMPLATE_DEPTH
          MaxRuns     \* bound: tests and attempts

ASSUME ResolutionAssumption == MaxDepth \in Nat /\ MaxRuns \in Nat \ {0}

VARIABLES
    names,     \* _variables and _templates: a value for each name
    runNo,     \* how many tests and attempts there were
    place,     \* where the run is: [phase, k]
    hist,      \* the results of this phase, in order: [step, status]
    outcomes,  \* StepOutcomes: [status, origin] of the steps of this test
    stopped,   \* StepOutcomes.stopped_by
    read,      \* what the last reference came to: [tag, by, via, why, origin, of]
    fails      \* the origins of the failures of this test that do not follow from another
vVars == <<names, runNo, place, hist, outcomes, stopped, read, fails>>

\* A value: text, a text that is one reference, a text with one inside, a credential, a mapping
\* with a credential in it, a mapping; "by" is the run that wrote it, 0 for the package.
Value(tag, ref, by, tpl) == [tag |-> tag, ref |-> ref, by |-> by, tpl |-> tpl]
Absent == Value("absent", <<>>, 0, "no")
StepsFor == [execution |-> <<"a", "b">>, teardown |-> <<"z">>]
AllSteps == {<<"execution", "a">>, <<"execution", "n">>, <<"execution", "b">>, <<"teardown", "z">>}
Out(at) == Append(at, "v")
Request == <<"*", "request", "body">>
Names == {<<"e1">>, <<"e2">>, <<"key">>, <<"holder">>, <<"v">>, Request} \cup {Out(at) : at \in AllSteps}
\* The references a step may have: to the package, to a step, to a call.
Refs == {<<"e1">>, <<"v">>, <<"key">>, <<"holder">>, <<"*", "request", "body", "f">>} \cup {Out(at) : at \in AllSteps}
Unrun == [status |-> "none", origin |-> "none"]
Unread == [tag |-> "none", by |-> 0, via |-> {}, why |-> "none", origin |-> "none", of |-> <<>>, ok |-> "no"]

VInit ==
    /\ \E body \in {"absent", "dict", "full"} :
         names = [x \in Names |->
                    CASE x = <<"e1">> -> Value("ref", <<"e2">>, 0, "yes")
                      [] x = <<"e2">> -> Value("ref", <<"e2">>, 0, "yes")
                      [] x = <<"v">> -> Value("ref", <<"key">>, 0, "yes")
                      [] x = <<"key">> -> Value("cred", <<>>, 0, "no")
                      [] x = <<"holder">> -> Value("holder", <<>>, 0, "yes")
                      [] x = Request -> Value(body, <<>>, 0, "no")
                      [] OTHER -> Absent]
    /\ runNo = 0 /\ place = [phase |-> "none", k |-> 0] /\ hist = <<>>
    /\ outcomes = [at \in AllSteps |-> Unrun] /\ stopped = "none" /\ read = Unread /\ fails = {}

-----------------------------------------------------------------------------
(* Writing a variable. *)

\* Mutant of SetVariable: what was a template stays one.
SetVariableTemplate(all, x, v) == [all EXCEPT ![x] = [v EXCEPT !.tpl = all[x].tpl]]

\* set_variable: what a step writes is data, even where a template was.
SetVariable(all, x, v) == [all EXCEPT ![x] = [v EXCEPT !.tpl = "no"]]

\* store_step_outputs: a field in "returns" is published by its own name and under the step.
StoreOutputs(all, at, v) == SetVariable(SetVariable(all, <<"v">>, v), Out(at), v)

\* forget_outputs: what the steps listed in the test published, before it runs again.
ForgetOutputs(all) == [x \in Names |-> IF x \in {Out(at) : at \in AllSteps \ {<<"execution", "n">>}} THEN Absent ELSE all[x]]

-----------------------------------------------------------------------------
(* Reading one. *)

\* StepOutcomes.clear.
\* Mutant of Cleared: the outcomes of the test before stay.
ClearedNot(all) == all
Cleared(all) == [at \in AllSteps |-> Unrun]

\* origin_of: what a call did not carry is the caller's; what a step did not publish belongs to
\* whoever failed it, or stopped the test before it; everything else is the author's.
StepOf(x) == IF Len(x) < 2 THEN <<>> ELSE SubSeq(x, 1, 2)
IsStepRef(x) == StepOf(x) \in AllSteps
OriginOf(x) ==
    IF x[1] = "*" THEN "sut"
    ELSE IF ~IsStepRef(x) \/ (Out(StepOf(x)) \in Names /\ names[Out(StepOf(x))].tag # "absent") THEN "tck"
    ELSE LET o == outcomes[StepOf(x)] IN
         IF o.status = "none" THEN IF stopped = "none" THEN "tck" ELSE stopped
         ELSE IF o.origin = "none" THEN "tck" ELSE o.origin

Got(v) == [tag |-> v.tag, by |-> v.by, via |-> {}, why |-> "none", origin |-> "none", of |-> <<>>, ok |-> "no"]
FailsFor(why, origin) == [Unread EXCEPT !.tag = "error", !.why = why, !.origin = origin]

\* call_scope.lookup and _walk: the longest prefix that is a name, then into its value.
Walk(x) == LET root == names[Request] IN
           IF root.tag = "full" THEN Got([root EXCEPT !.tag = "text"]) ELSE FailsFor("unresolved", OriginOf(x))

\* _require: a variable of that name, the field of a call, or an error with its origin.
Require(x) ==
    IF x \in Names /\ names[x].tag # "absent" THEN Got(names[x])
    ELSE IF x[1] = "*" THEN Walk(x) ELSE FailsFor("unresolved", OriginOf(x))

\* _admitted: a credential only as the whole of a value that may carry one, never inside another.
Admitted(f, ok) ==
    IF f.tag = "holder" \/ (f.tag = "cred" /\ ok = "no") THEN FailsFor("misuse", "tck") ELSE f

\* resolve_str, _resolve_value and _as_text: a value of the package that is itself a reference is
\* resolved again, MaxDepth deep; data is handed on as it is; in a longer text, as text.
Texts == [tag : {"text", "ref", "mixed"}, ref : Names \cup Refs \cup {<<>>}, by : Nat, tpl : {"yes", "no"}]
Interpolated(f) ==
    CASE f.tag = "cred" -> FailsFor("misuse", "tck")
      [] f.tag = "error" -> f
      [] OTHER -> [f EXCEPT !.tag = "text"]
Through(f, by) == [f EXCEPT !.via = @ \cup {by}]
Resolves(v, ok, left, deeper) ==
    LET f == Require(v.ref) IN
    CASE v.tag = "text" -> Got(v)
      [] v.tag = "mixed" -> Interpolated(f)
      [] v.tag = "ref" /\ f.tag = "error" -> f
      [] v.tag = "ref" /\ f.tag # "error" /\ (v.ref \notin Names \/ names[v.ref].tpl = "no") -> Admitted(f, ok)
      [] OTHER -> IF left = 0 THEN FailsFor("depth", "tck")
                  ELSE IF f.tag \in {"text", "ref", "mixed"} THEN Through(deeper[names[v.ref]][ok], f.by)
                  ELSE Admitted(f, "no")
ResolveStr[left \in 0..MaxDepth] ==
    [v \in Texts |-> [ok \in {"yes", "no"} |-> Resolves(v, ok, left, ResolveStr[left - 1])]]

\* resolve_params: a parameter that may carry a credential, or any other.
ResolveParam(v, carrier) == [ResolveStr[MaxDepth][v][carrier] EXCEPT !.of = v.ref, !.ok = carrier]

-----------------------------------------------------------------------------
(* Conditions. *)

Conditions == {[kind |-> "none"], [kind |-> "status", name |-> "success"], [kind |-> "status", name |-> "failure"],
               [kind |-> "status", name |-> "always"], [kind |-> "outcome", name |-> "a", expected |-> "failure"],
               [kind |-> "truthy", name |-> <<"v">>], [kind |-> "compare", name |-> <<"e1">>]}

\* evaluate_status_fn and evaluate_step_outcome: by the results of this phase; a step that is not
\* among them counts as skipped, and so does one inside a flow step.
AnyFailed == \E i \in DOMAIN hist : hist[i].status = "failed"
OutcomeIn(step) == LET is == {i \in DOMAIN hist : hist[i].step = step} IN
                   IF is = {} THEN "skipped" ELSE hist[Max(is)].status

\* ConditionEvaluator.should_run: what is not understood runs the step.
ShouldRun(c) ==
    CASE c.kind = "status" -> c.name = "always" \/ (AnyFailed = (c.name = "failure"))
      [] c.kind = "outcome" -> (OutcomeIn(c.name) = "failed") = (c.expected = "failure")
      [] c.kind = "truthy" -> names[c.name].tag # "absent"
      [] c.kind = "compare" -> names[c.name].tag = "ref"
      [] OTHER -> TRUE

-----------------------------------------------------------------------------
(* The steps of a phase. *)

Here == <<place.phase, StepsFor[place.phase][place.k]>>
Running == place.phase # "none"

\* run_test: the next test, or an attempt at the one before, on the same context.
StartTest(again) ==
    /\ ~Running /\ runNo < MaxRuns /\ (again = "yes" => runNo > 0)
    /\ runNo' = runNo + 1 /\ place' = [phase |-> "execution", k |-> 1]
    /\ names' = IF again = "yes" THEN ForgetOutputs(names) ELSE names
    /\ outcomes' = Cleared(outcomes) /\ stopped' = "none" /\ hist' = <<>> /\ fails' = {} /\ read' = Unread

\* run_phase: on to the next step or phase; a failure stops setup and execution, not teardown.
Advance(status, origin) ==
    LET stops == status = "failed" /\ place.phase # "teardown"
        next == IF stops THEN [phase |-> "teardown", k |-> 1]
                ELSE IF place.k < Len(StepsFor[place.phase]) THEN [place EXCEPT !.k = @ + 1]
                ELSE IF place.phase = "execution" THEN [phase |-> "teardown", k |-> 1] ELSE [phase |-> "none", k |-> 0] IN
    /\ place' = next
    /\ hist' = IF next.phase = place.phase THEN Append(hist, [step |-> Here[2], status |-> status]) ELSE <<>>
    /\ stopped' = IF stops /\ stopped = "none" THEN origin ELSE stopped
    /\ fails' = IF status = "failed" /\ (read'.why = "unresolved" => read'.of[1] = "*") THEN fails \cup {origin} ELSE fails
    /\ UNCHANGED runNo

Recorded(all, at, status, origin) == [all EXCEPT ![at] = [status |-> status, origin |-> IF status = "failed" THEN origin ELSE "none"]]

\* run_phase_step: not in teardown, a condition that says no skips the step.
SkipStep(c) ==
    /\ Running /\ place.phase # "teardown" /\ ~ShouldRun(c)
    /\ outcomes' = Recorded(outcomes, Here, "skipped", "none")
    /\ read' = Unread /\ Advance("skipped", "none") /\ UNCHANGED names

\* missing_step_result: failed, and by failure_origin the system under test's.
MissingStep ==
    /\ Running /\ outcomes' = Recorded(outcomes, Here, "failed", "sut")
    /\ read' = Unread /\ Advance("failed", "sut") /\ UNCHANGED names

\* IfStep with run_and_publish: n runs in a and publishes, or fails and fails a, or is not taken.
Nested(n, all, outs) ==
    CASE n = "passed" -> [names |-> StoreOutputs(all, <<"execution", "n">>, Value("text", <<>>, runNo, "no")),
                          outs |-> Recorded(outs, <<"execution", "n">>, "passed", "none")]
      [] n = "none" -> [names |-> all, outs |-> outs]
      [] n = "untaken" -> [names |-> all, outs |-> Recorded(outs, <<"execution", "n">>, "skipped", "none")]
      [] OTHER -> [names |-> all, outs |-> Recorded(outs, <<"execution", "n">>, "failed", n)]

\* _run_step_guarded: a parameter that does not resolve fails the step; then it runs.  With an
\* output it publishes, though a check may fail it; an exception leaves nothing published.
RunStep(v, carrier, end, origin, n, value) ==
    /\ Running /\ (Here[2] # "a" => n = "none")
    /\ read' = ResolveParam(v, carrier)
    /\ LET inner == Nested(n, names, outcomes) IN
       IF read'.tag = "error"
       THEN /\ outcomes' = Recorded(outcomes, Here, "failed", read'.origin) /\ UNCHANGED names
            /\ Advance("failed", read'.origin)
       ELSE /\ names' = IF end = "raised" THEN inner.names ELSE StoreOutputs(inner.names, Here, value)
            /\ outcomes' = Recorded(inner.outs, Here, IF end = "passed" THEN "passed" ELSE "failed",
                                    IF end = "raised" THEN origin ELSE "sut")
            /\ Advance(IF end = "passed" THEN "passed" ELSE "failed", IF end = "raised" THEN origin ELSE "sut")

\* Of the references a step may have, those to a step are to one before it in its test.
Backwards(x) == IsStepRef(x) => /\ x[1] = "execution" /\ x[2] # Here[2]
                                /\ place.phase = "execution" => place.k = 2
AsWritten(x) == {Value("ref", x, 0, "no"), Value("mixed", x, 0, "no")}

VNext ==
    \/ \E again \in {"yes", "no"} : StartTest(again)
    \/ \E c \in Conditions : SkipStep(c)
    \/ MissingStep
    \/ /\ Running
       /\ \E x \in {y \in Refs : Backwards(y)} : \E v \in AsWritten(x), carrier \in {"yes", "no"} :
          \E end \in {"passed", "check_failed", "raised"}, origin \in {"sut", "engine"}, n \in {"none", "untaken", "passed", "sut"},
             value \in {Value("ref", <<"key">>, runNo, "no")} :
            /\ (carrier = "yes" => x \in {<<"e1">>, <<"v">>, <<"key">>} /\ v.tag = "ref")
            /\ (end = "check_failed" => origin = "sut") /\ (n = "sut" => end = "raised" /\ origin = "sut")
            /\ RunStep(v, carrier, end, origin, n, value)
VSpec == VInit /\ [][VNext]_vVars

-----------------------------------------------------------------------------
\* What a step wrote is data: whatever names it took, it is never resolved again as the package's
\* own values are; and a credential is handed only whole, to a parameter that may carry it.
TextStaysText == read.via \subseteq {0} /\ read.tag # "holder" /\ (read.tag = "cred" => read.ok = "yes")

\* A reference that came to nothing is the author's or has the origin of a failure of this very
\* test, never of an attempt or a test before it.
BlameIsOfThisTest == read.why = "unresolved" => read.origin \in {"tck"} \cup fails \/ read.of[1] = "*"

\* docs/tck-syntax/steps/expressions.md: "References resolve only backwards within the same test".
\* The code does not keep this one (README, divergences); no run lists it.
ReadsOwnTest == read.tag \in {"text", "ref", "cred"} /\ read.of # <<>> /\ IsStepRef(read.of) => read.by = runNo
=============================================================================
