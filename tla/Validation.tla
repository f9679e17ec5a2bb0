------------------------------ MODULE Validation ------------------------------
(***************************************************************************)
(* compiler/validation: what a TCK is refused for before it is compiled,   *)
(* first its tests (validator) and then its manifest                       *)
(* (_manifest_validation); and what a run of an accepted test then meets.  *)
(* A finding is a level and a rule; what its text says is left out.        *)
(***************************************************************************)
EXTENDS Naturals, Sequences, SequencesExt, FiniteSets, FiniteSetsExt

CONSTANTS Docs,       \* TCKs as authors write them, one test each
          MaxNesting  \* bound: how deep a step is inside others

VARIABLES
    tck,     \* the TCK
    stage,   \* "draft", "checked", "accepted", "refused"
    issues,  \* ValidationResult.issues
    played,  \* how many steps of the test a run has come to
    met      \* what it met at the last of them: [kind]
wVars == <<tck, stage, issues, played, met>>

Phases == <<"setup", "execution", "teardown">>
Issue(bad, level, rule) == IF bad THEN {<<level, rule>>} ELSE {}
Error(bad, rule) == Issue(bad, "error", rule)
Valid(found) == \A i \in found : i[1] # "error"

-----------------------------------------------------------------------------
(* What the step classes declare. *)

Publishes(uses) == CASE uses \in {"call", "api"} -> {"out"} [] uses = "mock" -> {"url"} [] uses = "edr" -> {"out", "edr"} [] OTHER -> {}
SecretOutputs(uses) == Publishes(uses) \cap {"edr"}  \* an edr_token, published as a Credential
Registered == {"call", "flow", "mock", "api", "edr"}
Holds_(uses) == uses \in {"flow", "mock"}          \* deferred_params without template_params
OfCall(uses) == uses = "mock"                      \* nested_namespace: "*.process"
Carrier(at) == at = "headers"                      \* credential_params
ByType(uses) == uses \in {"call", "api"}           \* checkpoint
ExtensionOf(uses) == IF uses \in {"mock", "api"} THEN {"labs"} ELSE {}

\* The steps in a step, n deep at n, through steps of the types that are entered.
Levels(s, entered) ==
    LET L[n \in 0..MaxNesting] ==
          IF n = 0 THEN {s} ELSE UNION {x.inner : x \in {y \in L[n - 1] : y.uses \in entered}}
    IN  L
Within(s, entered) == UNION {Levels(s, entered)[n] : n \in 1..MaxNesting}

\* nested_steps: at any depth.
Deep(s) == Within(s, {u \in Registered : Holds_(u)})

\* nested_step_ids: not those of a mock, which are of its calls.
InnerIds(s) == {i.id : i \in Within(s, {u \in Registered : Holds_(u) /\ ~OfCall(u)})}

\* written_steps: into flow steps only.
WrittenIn(s) == {s} \cup Within(s, {"flow"})
Phased(t, p) == [k \in DOMAIN t.steps[p] |-> [phase |-> p, step |-> t.steps[p][k]]]
StepsOf(t) == Phased(t, "setup") \o Phased(t, "execution") \o Phased(t, "teardown")
Every(t) == {StepsOf(t)[k].step : k \in DOMAIN StepsOf(t)}

\* The steps of a phase are a list, a condition names a sequence of parts, and no step is deeper
\* than the bound.
ASSUME ValidationAssumption ==
    /\ MaxNesting \in Nat
    /\ \A t \in Docs, p \in Range(Phases) :
          /\ t.steps[p] \in Seq(Range(t.steps[p]))
          /\ \A s \in Range(t.steps[p]) :
             /\ s.cond.name \in Seq(Range(s.cond.name))
             /\ \A x \in Levels(s, {u \in Registered : Holds_(u)})[MaxNesting] : Holds_(x.uses) => x.inner = {}

-----------------------------------------------------------------------------
(* References. *)

Take(r, n) == SubSeq(r, 1, IF Len(r) < n THEN Len(r) ELSE n)
Files == {"testdata", "schemas", "apis"}
Secret_ == <<"infrastructure", "sut", "connector", "api_key">>
Bindings == {Secret_, <<"infrastructure", "sut", "connector", "dsp_url">>}
RunNames == {<<"execution", "id">>, <<"execution", "resource_prefix">>}
Bodies == {<<"*", "request", "body">>}

\* root_of: as much of a reference as is checked; the field of an output is not.
RootOf(r) ==
    CASE r[1] = "*" -> Take(r, 3)
      [] r[1] = "infrastructure" -> Take(r, 4)
      [] r[1] = "env" /\ Len(r) > 1 /\ r[2] \in Files -> Take(r, 3)
      [] OTHER -> Take(r, 2)

Groups(t) == {v.group : v \in Range(t.vars)} \ {""}
Members(t, g) == {k \in DOMAIN t.vars : t.vars[k].group = g}

\* declared_variable_ids and _scope_of: all the steps of the test, wherever the reference is.
VariableIds(t) == {v.id : v \in Range(t.vars)} \cup Groups(t)
StepNames(t) == UNION {{<<e.phase, e.step.id>>} \cup {<<e.phase, i>> : i \in InnerIds(e.step)} : e \in Range(StepsOf(t))}
ScopeOf(t) ==
    {<<"env", x>> : x \in VariableIds(t)} \cup {<<"env", f[1], f[2]>> : f \in t.files}
    \cup StepNames(t) \cup Bindings \cup RunNames

\* unresolved_references: in a mock's steps and reply, the call and its own steps too.  The checks
\* of a step inside another are read with it, those of a step of the test are not.
BodyScope(e) ==
    IF OfCall(e.step.uses) THEN e.scope \cup Bodies \cup {<<"*", "process", i.id>> : i \in Deep(e.step)} ELSE e.scope
Scoped(s, declared) ==
    LET L[n \in 0..MaxNesting] ==
          IF n = 0 THEN {[step |-> s, scope |-> declared]}
          ELSE UNION {{[step |-> i, scope |-> BodyScope(e)] : i \in e.step.inner} : e \in {x \in L[n - 1] : Holds_(x.step.uses)}}
    IN  L
Unresolved(s, declared) ==
    UNION {UNION {{r \in e.step.refs : /\ RootOf(r.name) \notin (IF r.at = "reply" THEN BodyScope(e) ELSE e.scope)
                                      /\ (r.at = "check" => n > 0)} : e \in Scoped(s, declared)[n]} : n \in 0..MaxNesting}

\* _is_whole_credential and _references: a credential is the whole of a header, or out of place.
OutOfPlace(r) == RootOf(r.name) = Secret_ /\ ~(Carrier(r.at) /\ r.whole = "yes")

\* _misplaced: in a step and in those inside it.
Misplaced(s) == {r \in UNION {x.refs : x \in {s} \cup Deep(s)} : OutOfPlace(r)}

-----------------------------------------------------------------------------
(* Conditions: what the steps before have made readable to an if. *)

\* Mutant of Before: a step is taken to have published before its own if is read.
BeforeItself(t, k) == {j \in DOMAIN StepsOf(t) : j <= k}
\* condition_findings: published and earlier.
Before(t, k) == {j \in DOMAIN StepsOf(t) : j < k}
Earlier(t, k) == {StepsOf(t)[j].step.id : j \in {i \in Before(t, k) : StepsOf(t)[i].phase = StepsOf(t)[k].phase}}
Publishing(t, k) == UNION {{[phase |-> StepsOf(t)[j].phase, step |-> s] : s \in {StepsOf(t)[j].step} \cup Deep(StepsOf(t)[j].step)} : j \in Before(t, k)}

\* _variable_problem.
VariableProblem(t, k, name) ==
    LET from == {e \in Publishing(t, k) : <<e.phase, e.step.id>> = Take(name, 2)} IN
    IF name[1] \in Range(Phases) /\ Len(name) > 2 THEN ~(Len(name) = 3 /\ \E e \in from : name[3] \in e.step.returns)
    ELSE IF Len(name) = 2 /\ from # {} THEN TRUE
    ELSE ~\/ \E e \in Publishing(t, k) : Len(name) = 1 /\ name[1] \in e.step.returns
          \/ <<"env">> \o name \in ScopeOf(t)
          \/ name \in ScopeOf(t) /\ ~(name[1] = "env" /\ Len(name) = 2)

\* _step_problem and _outcome_problem: teardown and nested steps never read an if.
ConditionProblem(t, k) ==
    LET e == StepsOf(t)[k]  c == e.step.cond IN
    \/ \E i \in Deep(e.step) : i.cond.kind # "none"
    \/ c.kind # "none" /\ e.phase = "teardown"
    \/ c.kind \in {"unparsed", "legacy"}
    \/ c.kind = "outcome" /\ c.name[1] \notin Earlier(t, k)
    \/ c.kind \in {"compare", "truthy"} /\ VariableProblem(t, k, c.name)

-----------------------------------------------------------------------------
(* The tests. *)

\* _validate_inline_assert_inputs, severity_findings and returns_findings.
CheckProblem(s, c) ==
    \/ c.op = "unknown" \/ c.operands = "wrong"
    \/ ~(c.input = "" /\ c.op = "api_response") /\ c.input \notin s.returns \cup Publishes(s.uses)
SeverityProblem(s) == \E x \in {s} \cup Deep(s) : \E c \in x.checks : c.severity = "wrong"
ReturnsProblem(s) == s.uses \in Registered /\ ~(s.returns \subseteq Publishes(s.uses))

\* _problems of checkpoint_findings: a type that is a checkpoint keeps its direction.
MarkProblem(s) == \E x \in WrittenIn(s) : x.mark = "internal_via" \/ (ByType(x.uses) /\ x.mark = "direction")

\* _validate_step, and what validate adds.
StepIssues(t, k) ==
    LET e == StepsOf(t)[k]  s == e.step IN
    Error(s.uses \notin Registered, "unknown_step")
    \cup Error(Unresolved(s, ScopeOf(t)) # {}, "unresolved")
    \cup Error(\E c \in s.checks : s.uses \in Registered /\ CheckProblem(s, c), "check")
    \cup Error(ReturnsProblem(s), "returns") \cup Error(SeverityProblem(s), "severity")
    \cup Error(e.phase = "execution" /\ <<"execution", s.id>> \in RunNames, "reserved")
    \cup Error(ConditionProblem(t, k), "condition") \cup Error(Misplaced(s) # {}, "credential")
    \cup Error(MarkProblem(s), "checkpoint")
    \cup Issue(\E w \in WrittenIn(s) : w.uses = "api" /\ w.filters = "no", "warning", "filters")

\* experimental_warnings, entry_findings, extension_findings with _uses_of and uncertified_cac.
UsedBy(s) == ExtensionOf(s.uses) \cup {"cac" : x \in {c \in s.checks : c.cac # "none"}}
ExtensionIssues(t) ==
    LET written == UNION {WrittenIn(s) : s \in Every(t)} IN
    Issue(t.extensions # {}, "warning", "experimental")
    \cup Error(t.async = "yes" /\ "labs" \notin t.extensions, "not_enabled")
    \cup Error(~(UNION {UsedBy(s) : s \in written} \subseteq t.extensions), "not_enabled")
    \cup Error("cac" \in t.extensions /\ \E s \in written : \E c \in s.checks : c.cac = "uncertified", "cac")

\* api_step_findings: the file and operation a call and its checks name, and whether a step before
\* it published a data plane; "dataplane_url" and "edr_token" may be given.
Apis(t) == {f[2] : f \in {x \in t.files : x[1] = "apis"}}
ApiIssues(t) ==
    LET call(s) == s.uses = "api" IN
    Error(\E s \in UNION {WrittenIn(x) : x \in Every(t)} : call(s) /\ (s.api.id \notin Apis(t) \/ s.api.operation # "known" \/ s.api.params # "fit"), "api_call")
    \cup Error(\E s \in Every(t) : ~call(s) /\ \E c \in s.checks : c.op = "api_response", "api_check")
    \cup Issue(\E k \in DOMAIN StepsOf(t) : call(StepsOf(t)[k].step) /\ ~\E j \in Before(t, k) : "edr" \in Publishes(StepsOf(t)[j].step.uses),
               "warning", "dataplane")

\* validate_tck: a file that is not there or does not parse is told and not looked at further.
TestIssues(t) ==
    IF t.file # "parsed" THEN Error(TRUE, "test_file")
    ELSE (UNION {StepIssues(t, k) : k \in DOMAIN StepsOf(t)})
         \cup Error(t.namespace # "same", "namespace") \cup ExtensionIssues(t) \cup ApiIssues(t)
CheckTests ==
    /\ stage = "draft" /\ stage' = "checked" /\ issues' = TestIssues(tck)
    /\ UNCHANGED <<tck, played, met>>

-----------------------------------------------------------------------------
(* The manifest. *)

\* _check_source with check_instructions and check_alternative, _check_value, _check_returns.
SourceProblem(v) ==
    \/ v.source = "other"
    \/ v.instructions = "yes" /\ v.source # "register"
    \/ v.group # "" /\ v.source # "register"
    \/ v.default = "yes" /\ v.group = ""
    \/ v.source \in {"none", "value", "register"} /\ v.value = "absent"
EntryProblem(t, k) ==
    LET v == t.vars[k] IN
    \/ v.id = "" \/ \E j \in 1..(k - 1) : t.vars[j].id = v.id
    \/ v.uses \in {"none", "generate"} \/ SourceProblem(v)
    \/ v.value = "misfits" \/ v.returns # "declared"

\* check_one_of_groups.
GroupProblem(t, g) ==
    \/ g \in {v.id : v \in Range(t.vars)} \/ Cardinality(Members(t, g)) < 2
    \/ Cardinality({t.vars[k].uses : k \in Members(t, g)}) > 1
    \/ Cardinality({k \in Members(t, g) : t.vars[k].default = "yes"}) > 1

\* validate_variable_declarations.
DeclarationIssues(t) ==
    Error(\E k \in DOMAIN t.vars : EntryProblem(t, k), "declaration")
    \cup Error(\E v \in Range(t.vars) : v.value = "credential", "credential")
    \cup Error(\E g \in Groups(t) : GroupProblem(t, g), "group")

\* validate_tck_manifest: files, API files, declarations, scopes, banned steps, and references that
\* reach into a variable or an API file.
ManifestIssues(t) ==
    LET named == UNION {s.refs \cup UNION {i.refs : i \in Deep(s)} : s \in Every(t)} IN
    DeclarationIssues(t)
    \cup Error(t.missing # {}, "file")
    \cup Error(\E v \in Range(t.vars) : v.source = "input" /\ v.scope \notin {"engine", "sut"}, "scope")
    \cup Error(Apis(t) # {} /\ "apis" \in VariableIds(t), "apis")
    \cup Error(\E s \in Every(t) : s.uses = "banned", "banned")
    \cup Error(\E r \in named : r.name[1] = "env" /\ ((r.name[2] \in VariableIds(t) /\ Len(r.name) > 2) \/ (r.name[2] = "apis" /\ Len(r.name) > 3)), "reaches")

\* Compiler.validate and compile_plain: everything is told, and an error ends it.
CheckManifest ==
    /\ stage = "checked"
    /\ issues' = issues \cup ManifestIssues(tck)
    /\ stage' = IF Valid(issues') THEN "accepted" ELSE "refused"
    /\ UNCHANGED <<tck, played, met>>

-----------------------------------------------------------------------------
(* A run of what was accepted, all of whose steps run and publish. *)

\* The steps that are written before the k-th and that ran: those of a mock are of its calls, whose
\* context is their own.
Ran(s) == {s} \cup Within(s, {"flow"})
RunBefore(k) == UNION {{[phase |-> StepsOf(tck)[j].phase, step |-> s] : s \in Ran(StepsOf(tck)[j].step)} : j \in 1..(k - 1)}
WrittenBefore(k) ==
    UNION {{[phase |-> StepsOf(tck)[j].phase, step |-> s] : s \in {StepsOf(tck)[j].step} \cup Within(StepsOf(tck)[j].step, {"flow", "mock"})} : j \in 1..(k - 1)}

\* What the context holds before a step: the variables, the files under one name or two, the
\* bindings, and what the steps before published, each output bare and what it returns twice.
Returned(e) == UNION {{<<x>>, <<e.phase, e.step.id, x>>} : x \in e.step.returns}
HeldFiles == {<<f[1], f[2]>> : f \in tck.files} \cup {<<"env", f[1], f[2]>> : f \in {x \in tck.files : x[1] # "apis"}}
HeldAt(k) ==
    {<<x>> : x \in VariableIds(tck)} \cup HeldFiles \cup Bindings \cup RunNames
    \cup UNION {Returned(e) \cup {<<x>> : x \in Publishes(e.step.uses)} : e \in RunBefore(k)}

\* What a condition is let name though the run does not hold it: what the steps of a mock before it
\* return, a step as a whole that is not before it, and an API file the way a reference names it.
WholeSteps == UNION {{<<e.phase, x.id>> : x \in Ran(e.step)} : e \in Range(StepsOf(tck))}
OverlookedAt(k) ==
    (UNION {Returned(e) : e \in WrittenBefore(k) \ RunBefore(k)})
    \cup (WholeSteps \ {<<e.phase, e.step.id>> : e \in WrittenBefore(k)})
    \cup {<<"env", "apis", i>> : i \in Apis(tck)}

\* The names of the credentials the package was given, and of those its steps were issued before
\* the step s of the k-th ran: an output is published bare and, when returned, under its step.
GivenNames == {Secret_} \cup {<<"env", v.id>> : v \in {w \in Range(tck.vars) : w.value = "credential"}}
IssuedNames(k, s) ==
    LET e == StepsOf(tck)[k]
        from == RunBefore(k) \cup {[phase |-> e.phase, step |-> i] : i \in Ran(e.step) \ {e.step, s}} IN
    UNION {{<<"env", x>> : x \in SecretOutputs(i.step.uses)}
           \cup {<<i.phase, i.step.id, x>> : x \in SecretOutputs(i.step.uses) \cap i.step.returns} : i \in from}

\* resolve_params: a credential is admitted as the whole of a header or of a parameter typed so
\* (credential_carriers), and refused anywhere else.
Misused(s, names) == {r \in s.refs : r.name \in names /\ ~(r.at \in {"headers", "token"} /\ r.whole = "yes")}

\* _with_params and should_run, for the next step and those in it.
PlayStep ==
    /\ stage = "accepted" /\ played < Len(StepsOf(tck))
    /\ played' = played + 1
    /\ LET e == StepsOf(tck)[played']  c == e.step.cond  all == {e.step} \cup Deep(e.step) IN
       met' = {[kind |-> "misuse"] : x \in {s \in all : Misused(s, GivenNames) # {}}}
              \cup {[kind |-> "issued"] : x \in {s \in all : Misused(s, IssuedNames(played', s)) # {}}}
              \cup IF c.kind \in {"compare", "truthy"} /\ c.name \notin HeldAt(played')
                   THEN {[kind |-> IF c.name \in OverlookedAt(played') THEN "overlooked" ELSE "unheld"]} ELSE {}
    /\ UNCHANGED <<tck, stage, issues>>

WInit == tck \in Docs /\ stage = "draft" /\ issues = {} /\ played = 0 /\ met = {}
WNext == CheckTests \/ CheckManifest \/ PlayStep
WSpec == WInit /\ [][WNext]_wVars

-----------------------------------------------------------------------------
\* What validation accepted does not fail for its author's mistake: no step of its run, nested or
\* not, is handed a credential of a binding or of the manifest where none may be, and a condition
\* reads something the run holds when the step starts.  (Of the credentials the run's own steps are
\* issued, see AcceptedCredentialsPlaced; of what is overlooked in a condition, AcceptedConditionHeld.)
AcceptedRuns == met \cap {[kind |-> "misuse"], [kind |-> "unheld"]} = {}

\* compiler/validation/_credential_references.py: anywhere but in a header "the run would refuse it,
\* so the compiler refuses it first"; yet only the keys of the bindings are looked for, and an
\* edr_token a step published passes into a URL or a body, where the run refuses it.
\* The code does not keep this one (README, divergences); no run lists it.
AcceptedCredentialsPlaced == [kind |-> "issued"] \notin met

\* compiler/validation/_conditions.py: "'vars.<name>' names nothing this run holds when the step
\* starts" is an error; yet what a mock's own steps return, which "never reaches the run", is taken
\* for published, and a step that has not run yet, named whole, and env.apis.<id> for held.
\* The code does not keep this one (README, divergences); no run lists it.
AcceptedConditionHeld == [kind |-> "overlooked"] \notin met
=============================================================================
