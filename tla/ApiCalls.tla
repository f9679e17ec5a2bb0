------------------------------- MODULE ApiCalls -------------------------------
\* Calling an API by its document (labs/http/api_request, labs/connector/dataplane/api_request,
\* labs/http/api_sweep) and judging the answers (labs/validate/api_response and api_errors):
\* the operations of a document, the request built for one, the sweep's calls in flight at once
\* under one budget, and the journal of the answers a test received.
EXTENDS ApiDocuments, SequenceFilter

CONSTANTS
    Sweeps,        \* parameters of a sweep: [doc, operations, exclude, methods, tags, writes, params, headers, bodies, concurrency, base]
    SingleCalls,   \* parameters of a single call: [doc, name, params, query, headers, body, base, expect, plane]
    ApiAnswers,       \* what an API may answer: [status, type, body, header, leak]
    MaxExchanges,  \* MAX_EXCHANGES of the journal
    MaxReceived,   \* bound: answers a test has when it makes one more single call
    MaxTests       \* bound: tests of a behaviour

ASSUME ApiCallsAssumption ==
    /\ MaxExchanges \in Nat \ {0}
    /\ \A a \in ApiAnswers : "status" \in DOMAIN a /\ a.status \in Nat
    \* A document lists its paths, and a path item its operations.
    /\ \A q \in Sweeps :
          /\ q.doc.paths \in Seq(ToSet(q.doc.paths))
          /\ \A p \in ToSet(q.doc.paths) : LET at == Follow(q.doc, p.at) IN
                at # "lost" => q.doc.items[at] \in Seq(ToSet(q.doc.items[at]))

VARIABLES
    sweep,      \* the sweep running: its parameters, calls waiting, in flight, rows, budget; or idle
    journal,    \* api_exchanges: the answers kept, oldest first
    received,   \* history: every answer of the test so far
    lastAnswer, \* what the last call step published
    apiVerdict, \* the last verdict of a check step
    testNo
aVarsC == <<sweep, journal, received, lastAnswer, apiVerdict, testNo>>

(* ---------------------------------------------------------------- operations *)
\* _parameters of an operation: the path item's, overridden by its own of the same name and place.
ParametersOf(shared, own) == own \cup {p \in shared : \A q \in own : <<q.name, q.in>> # <<p.name, p.in>>}
Required(p) == p.required = "yes" \/ p.in = "path"

\* _build: the operations in document order, each at the place its path item's references lead to;
\* a path item whose reference leads nowhere is left out.
OperationsAt(d, e) ==
    LET at == Follow(d, e.at) IN
    IF at = "lost" THEN <<>>
    ELSE [i \in DOMAIN d.items[at] |->
            LET o == d.items[at][i] IN
            [path |-> e.path, method |-> o.method, id |-> o.id, location |-> <<at, o.method>>, tags |-> o.tags,
             parameters |-> ParametersOf(o.shared, o.own), placeholders |-> e.placeholders,
             body |-> IF o.bodyRef = "lost" THEN "none" ELSE o.body, responses |-> o.responses]]
Built(d) == LET upTo[n \in 0..Len(d.paths)] == IF n = 0 THEN <<>> ELSE upTo[n - 1] \o OperationsAt(d, d.paths[n])
            IN  upTo
Build(d) == Built(d)[Len(d.paths)]

IsWrite(o) == o.method \notin {"GET", "HEAD", "OPTIONS", "TRACE"}
Label(o) == IF o.id # "" THEN <<"id", o.id>> ELSE <<o.method, o.path>>

\* OperationIndex.find: by operationId, of which the last one stands, else by method and path.
Find(ops, name) ==
    LET byId == {i \in DOMAIN ops : ops[i].id # "" /\ <<"id", ops[i].id>> = name}
        byKey == {i \in DOMAIN ops : <<ops[i].method, ops[i].path>> = name}
    IN  IF byId # {} THEN {ops[Max(byId)]} ELSE IF byKey # {} THEN {ops[Max(byKey)]} ELSE {}

(* ------------------------------------------------------------------ requests *)
\* check_base_url and default_server_url: an absolute http address without query or fragment.
BaseUrl(d, given) == IF given # "" THEN given ELSE IF d.server = "absolute" THEN "absolute" ELSE ""

\* A value as request text: a scalar, or a list of them, that splits no line.
Scalar(v) == v \in {"text", "empty"}

\* expand_path, _query, _headers and the body: everything that is wrong with a request.
RequestProblems(o, base, path, query, headers, body) ==
    LET wanted(in) == {p.name : p \in {x \in o.parameters : x.in = in /\ Required(x)}} IN
    {"base" : x \in {b \in {base} : b # "absolute"}}
    \cup {<<"path", n>> : n \in {x \in o.placeholders : x \notin DOMAIN path \/ ~Scalar(path[x]) \/ path[x] = "empty"}}
    \cup {<<"unknown", n>> : n \in DOMAIN path \ o.placeholders}
    \cup {<<"query", n>> : n \in (wanted("query") \ DOMAIN query) \cup {x \in DOMAIN query : ~Scalar(query[x])}}
    \cup {<<"header", n>> : n \in (wanted("header") \ DOMAIN headers) \cup {x \in DOMAIN headers : headers[x] # "text"}}
    \cup {<<"cookie", n>> : n \in {x \in wanted("cookie") : "cookie" \notin DOMAIN headers}}
    \cup {"body" : x \in {b \in {o.body} : b = "required" /\ body = "none"}}

(* ------------------------------------------------------------------- answers *)
\* expect_matches; `expect` is a status, a class, or a word, given as the statuses it admits.
ExpectMatches(status, expect) == expect.kind = "none" \/ status \in expect.statuses

\* documented_response: the exact status, its class, or the default, at the end of its references.
DocumentedResponse(o, status) ==
    LET keys == SelectSeq(<<ToString(status), ToString(status \div 100) \o "XX", "default">>, LAMBDA k : k \in DOMAIN o.responses)
    IN  IF keys = <<>> THEN {} ELSE {r \in {o.responses[keys[1]]} : r.found = "yes"}

\* _content_problems and _header_problems of the documented response.
ContentProblems(o, r, a) ==
    LET has == a.body # "absent" /\ o.method # "HEAD" IN
    CASE r.content = "none" -> IF has THEN {"content_type"} ELSE {}
      [] r.content # "none" /\ ~has -> IF o.method = "HEAD" \/ a.status = 204 THEN {} ELSE {"content_type"}
      [] r.content # "none" /\ has /\ a.type # r.content -> {"content_type"}
      [] OTHER -> IF r.content = "json" /\ a.body # "fits" THEN {"body"} ELSE {}
HeaderProblems(r, a) == IF r.header = "required" /\ a.header = "absent" THEN {"headers"} ELSE {}

\* DATA_PLANE_STATUSES: answers of the data plane itself.
DataPlaneStatuses == {401, 403, 502, 504}

\* check_response: the checks that found something. What a data plane says of itself is not
\* checked against the document; an answer the test expected passes.
CheckResponse(o, a, expect, plane) ==
    IF plane = "yes" /\ a.status \in DataPlaneStatuses
      THEN IF expect.kind # "none" /\ ExpectMatches(a.status, expect) THEN {} ELSE {"data_plane"}
      ELSE LET found == DocumentedResponse(o, a.status) IN
           (IF found = {} THEN {"status"} ELSE {})
           \cup (IF ExpectMatches(a.status, expect) THEN {} ELSE {"expect"})
           \cup UNION {ContentProblems(o, r, a) \cup HeaderProblems(r, a) : r \in found}

\* answered: the exchange is noted; the journal keeps the newest, with the body of errors only.
Noted(j, step, o, a, expect) ==
    NewestOf(Append(j, [step |-> step, doc |-> "api", name |-> Label(o), expect |-> expect,
                      answer |-> IF a.status >= 400 THEN a ELSE [a EXCEPT !.body = "absent", !.leak = "no"]]), MaxExchanges)

\* ErrorAnswer.was_sent_wrong: a request the test expected to be refused as a client error.
SentWrong(expect) == expect.kind \in {"4xx", "error"}

\* _format_problems: against what the operation documents, or RFC 9457.
FormatProblems(ops, e, format) ==
    IF format = "declared"
      THEN LET o == Find(ops, e.name) IN
           IF o = {} THEN {"format"}
           ELSE IF CheckResponse(CHOOSE x \in o : TRUE, e.answer, [kind |-> "none", statuses |-> {}], "no") = {} THEN {} ELSE {"format"}
      ELSE IF e.answer.type = "problem" /\ e.answer.body = "fits" THEN {} ELSE {"format"}

\* error_problems: of every answer looked at, which checks found something.
ErrorProblems(ops, es, format, leaks) ==
    UNION {(IF SentWrong(es[i].expect) /\ es[i].answer.status >= 500 THEN {<<i, "client_errors">>} ELSE {})
           \cup (IF es[i].answer.status < 400 THEN {} ELSE
                  {<<i, c>> : c \in FormatProblems(ops, es[i], format)}
                  \cup (IF leaks = "yes" /\ es[i].answer.leak = "yes" THEN {<<i, "leaks">>} ELSE {})) : i \in DOMAIN es}

(* --------------------------------------------------------------------- steps *)
\* labs/http/api_request, and the data-plane form, which sends the same request to the data plane
\* address a step published: the answer is noted even when it is not the expected one, which fails
\* the step and leaves what an earlier call published.
ApiRequest(c, a) ==
    LET o == Find(Build(c.doc), c.name) base == IF c.plane = "yes" THEN c.base ELSE BaseUrl(c.doc, c.base) IN
    /\ sweep.at = "idle"
    /\ \A x \in o : base # "" /\ RequestProblems(x, base, c.params, c.query, c.headers, c.body) = {}
    /\ o # {}
    /\ LET x == CHOOSE y \in o : TRUE IN
       /\ journal' = Noted(journal, "call", x, a, c.expect)
       /\ received' = Append(received, [step |-> "call", name |-> Label(x), answer |-> a, expect |-> c.expect])
       /\ lastAnswer' = IF ExpectMatches(a.status, c.expect) THEN [doc |-> c.doc, name |-> Label(x), answer |-> a] ELSE lastAnswer
    /\ UNCHANGED <<sweep, apiVerdict, testNo>>

\* labs/validate/api_response: the answer of the last call, against its own operation.
ApiResponseCheck(expect, plane) ==
    /\ sweep.at = "idle" /\ lastAnswer.answer.status # 0
    /\ \E o \in Find(Build(lastAnswer.doc), lastAnswer.name) :
          apiVerdict' = [of |-> "response", found |-> CheckResponse(o, lastAnswer.answer, expect, plane)]
    /\ UNCHANGED <<sweep, journal, received, lastAnswer, testNo>>

\* labs/validate/api_errors: the answers the journal kept, all or those of some steps.
ApiErrors(d, steps, format, leaks) ==
    LET es == Filter(journal, {e \in ToSet(journal) : steps = {} \/ e.step \in steps}) IN
    /\ sweep.at = "idle"
    /\ apiVerdict' = [of |-> "errors", found |-> {<<es[p[1]].name, p[2]>> : p \in ErrorProblems(Build(d), es, format, leaks)}]
    /\ UNCHANGED <<sweep, journal, received, lastAnswer, testNo>>

\* Mutant of JournalAtStart: the answers of the last test stay.
JournalKept == journal

\* A new test starts: the journal is cleared.
JournalAtStart == <<>>

NextTest ==
    /\ sweep.at = "idle" /\ testNo < MaxTests
    /\ testNo' = testNo + 1 /\ journal' = JournalAtStart /\ received' = <<>>
    /\ apiVerdict' = [of |-> "none", found |-> {}]
    /\ UNCHANGED <<sweep, lastAnswer>>

(* --------------------------------------------------------------------- sweep *)
\* Operations are listed and excluded by the place they are written at.
Places(ops, names) == UNION {{o.location : o \in Find(ops, n)} : n \in names}
InScope(ops, q, o) ==
    /\ q.operations = {} \/ o.location \in Places(ops, q.operations)
    /\ o.location \notin Places(ops, q.exclude) /\ o.method \in q.methods
    /\ q.tags = {} \/ q.tags \cap o.tags # {}
HeldBack(ops, q, o) == IsWrite(o) /\ ~(q.writes = "yes" /\ o.location \in Places(ops, q.operations))

\* planned: an operation lacking a required parameter or body is not called.
Planned(q, o) ==
    LET lacks(p) == CASE p.in = "header" -> p.name \notin DOMAIN q.headers
                      [] p.in = "cookie" -> "cookie" \notin DOMAIN q.headers
                      [] OTHER -> p.name \notin DOMAIN q.params
    IN  /\ \A p \in o.parameters : Required(p) => ~lacks(p)
        /\ o.body = "required" => Label(o) \in q.bodies \/ <<o.method, o.path>> \in q.bodies

\* The values of a parameter map an operation takes in one place.
Given(q, o, in) == [n \in {p.name : p \in {x \in o.parameters : x.in = in}} \cap DOMAIN q.params |-> q.params[n]]

Row(o, status, verdict) == [name |-> Label(o), method |-> o.method, path |-> o.path, status |-> status, verdict |-> verdict]

\* A sweep begins: a row for each operation held back or not planned, the others wait in order.
SweepStarts(q) ==
    LET ops == Build(q.doc)
        scope == {o \in ToSet(ops) : InScope(ops, q, o)}
        off == {o \in scope : HeldBack(ops, q, o) \/ ~Planned(q, o)}
    IN  /\ sweep.at = "idle" /\ Len(received) = 0
        /\ \A n \in q.operations \cup q.exclude : Find(ops, n) # {}
        /\ BaseUrl(q.doc, q.base) # ""
        /\ sweep' = [at |-> "running", q |-> q, ops |-> ops, scope |-> scope, waiting |-> Filter(ops, scope \ off),
                     flying |-> {}, rows |-> [l \in {o.location : o \in off} |-> Row(CHOOSE o \in off : o.location = l, 0, "skipped")],
                     budget |-> "left", sent |-> {}, heard |-> {}, results |-> <<>>]
        /\ UNCHANGED <<journal, received, lastAnswer, apiVerdict, testNo>>

WithRow(o, row) == [l \in DOMAIN sweep.rows \cup {o.location} |-> IF l = o.location THEN row ELSE sweep.rows[l]]

\* _call up to the request: the first waiting call gets the gate, and finds the budget left or spent.
CallStarts ==
    LET o == Head(sweep.waiting) q == sweep.q
        bad == RequestProblems(o, BaseUrl(q.doc, q.base), Given(q, o, "path"), Given(q, o, "query"), q.headers,
                               IF Label(o) \in q.bodies \/ <<o.method, o.path>> \in q.bodies THEN "given" ELSE "none")
    IN  /\ sweep.at = "running" /\ sweep.waiting # <<>> /\ Cardinality(sweep.flying) < sweep.q.concurrency
        /\ sweep' = IF sweep.budget = "spent"
                      THEN [sweep EXCEPT !.waiting = Tail(@), !.rows = WithRow(o, Row(o, 0, "skipped"))]
                    ELSE IF bad # {}
                      THEN [sweep EXCEPT !.waiting = Tail(@), !.rows = WithRow(o, Row(o, 0, "error"))]
                    ELSE [sweep EXCEPT !.waiting = Tail(@), !.flying = @ \cup {o}, !.sent = @ \cup {<<o, sweep.budget>>}]
        /\ UNCHANGED <<journal, received, lastAnswer, apiVerdict, testNo>>

\* An answer arrives: it is noted and judged against the operation.
NoExpectation == [kind |-> "none", statuses |-> {}]
Heard(o, a) == received' = Append(received, [step |-> "sweep", name |-> Label(o), answer |-> a, expect |-> NoExpectation])
SweptCallAnswers(o, a) ==
    /\ sweep.at = "running" /\ o \in sweep.flying
    /\ sweep' = [sweep EXCEPT !.flying = @ \ {o}, !.heard = @ \cup {<<o, a>>},
                              !.rows = WithRow(o, Row(o, a.status, IF CheckResponse(o, a, NoExpectation, "no") = {} THEN "passed" ELSE "failed"))]
    /\ journal' = Noted(journal, "sweep", o, a, NoExpectation) /\ Heard(o, a)
    /\ UNCHANGED <<lastAnswer, apiVerdict, testNo>>

\* An answer that cannot be read (answered, before it is noted) or judged (check_response, after):
\* no except is around them, so the task group gives up, what waits or is in flight is cancelled,
\* and the step fails without its table.
JudgingRaises(o, a) ==
    /\ sweep.at = "running" /\ o \in sweep.flying /\ a.body # "absent"
    /\ sweep' = [at |-> "idle"]
    /\ journal' = journal \/ journal' = Noted(journal, "sweep", o, a, NoExpectation)
    /\ Heard(o, a)
    /\ UNCHANGED <<lastAnswer, apiVerdict, testNo>>

\* The request fails, or times out: each has at most what was left of the budget.
CallFails(o) ==
    /\ sweep.at = "running" /\ o \in sweep.flying
    /\ sweep' = [sweep EXCEPT !.flying = @ \ {o}, !.rows = WithRow(o, Row(o, 0, "error"))]
    /\ UNCHANGED <<journal, received, lastAnswer, apiVerdict, testNo>>

BudgetSpent ==
    /\ sweep.at = "running" /\ sweep.budget = "left"
    /\ sweep' = [sweep EXCEPT !.budget = "spent"]
    /\ UNCHANGED <<journal, received, lastAnswer, apiVerdict, testNo>>

\* The rows there are, in document order.
Listed(ops, rows) == Filter(ops, {o \in ToSet(ops) : o.location \in DOMAIN rows})

\* Mutant of Ordered: the rows as they were written, those of what was held back before any call.
OrderedAsWritten(ops, rows) ==
    LET off == {o \in ToSet(ops) : o.location \in DOMAIN rows /\ rows[o.location].verdict = "skipped"}
        kept == Filter(ops, off) \o Filter(Listed(ops, rows), ToSet(ops) \ off)
    IN  [i \in DOMAIN kept |-> rows[kept[i].location]]
Ordered(ops, rows) == LET kept == Listed(ops, rows) IN [i \in DOMAIN kept |-> rows[kept[i].location]]

\* Every task of the group has ended without raising: the step has its table.
SweepEnds ==
    /\ sweep.at = "running" /\ sweep.waiting = <<>> /\ sweep.flying = {}
    /\ sweep' = [sweep EXCEPT !.at = "done", !.results = Ordered(sweep.ops, sweep.rows)]
    /\ UNCHANGED <<journal, received, lastAnswer, apiVerdict, testNo>>

\* The step returns its table; the test goes on.
SweepReturns ==
    /\ sweep.at = "done"
    /\ sweep' = [at |-> "idle"]
    /\ UNCHANGED <<journal, received, lastAnswer, apiVerdict, testNo>>

Expects == {[kind |-> "none", statuses |-> {}], [kind |-> "4xx", statuses |-> 400..499], [kind |-> "error", statuses |-> 400..599],
            [kind |-> "success", statuses |-> 200..299]}

EInit ==
    /\ sweep = [at |-> "idle"] /\ journal = <<>> /\ received = <<>> /\ testNo = 1
    /\ lastAnswer = [doc |-> "none", name |-> <<"", "">>, answer |-> [status |-> 0]]
    /\ apiVerdict = [of |-> "none", found |-> {}]

ENext ==
    \/ \E c \in SingleCalls, a \in ApiAnswers : Len(received) < MaxReceived /\ ApiRequest(c, a)
    \/ \E e \in Expects, p \in {"yes", "no"} : ApiResponseCheck(e, p)
    \/ \E c \in SingleCalls, st \in {{}, {"call"}}, f \in {"declared", "problem"} :
          ApiErrors(c.doc, st, f, IF f = "declared" THEN "yes" ELSE "no")
    \/ NextTest
    \/ \E q \in Sweeps : SweepStarts(q)
    \/ CallStarts \/ BudgetSpent \/ SweepEnds \/ SweepReturns
    \/ sweep.at = "running" /\ \E o \in sweep.flying : CallFails(o) \/ \E a \in ApiAnswers : SweptCallAnswers(o, a) \/ JudgingRaises(o, a)

ESpec == EInit /\ [][ENext]_aVarsC

(* ---------------------------------------------------------------- properties *)
Distinct(ops) == \A i, j \in DOMAIN ops : ops[i].location = ops[j].location => i = j

\* What a row says of its operation, against what was sent and what was answered.
Tells(s, row, o) ==
    /\ row.name = Label(o) /\ row.method = o.method /\ row.path = o.path
    /\ row.status # 0 => <<o, "left">> \in s.sent /\ \E h \in s.heard : h[1] = o
    /\ \A h \in s.heard : h[1] = o => /\ row.status = h[2].status
                                      /\ row.verdict = "passed" <=> CheckResponse(o, h[2], NoExpectation, "no") = {}
    /\ row.verdict = "skipped" => \A x \in s.sent : x[1] # o

\* A table a sweep returns tells what happened to each operation in scope, one row each and in
\* document order, whatever order the answers came in: a row has the status of its own operation's
\* answer and the verdict on it, a skipped row was never sent, and nothing is sent once the budget is
\* spent, by a call that waited for the gate least of all (api_sweep.py run, _call).  Path items
\* reached by two paths share one row; they are left out here.
SweepTellsEach ==
    (sweep.at = "done" /\ Distinct(sweep.ops)) =>
        LET listed == Filter(sweep.ops, sweep.scope) IN
        /\ Len(sweep.results) = Len(listed)
        /\ \A i \in DOMAIN listed : Tells(sweep, sweep.results[i], listed[i])
        /\ \A x \in sweep.sent : x[2] = "left"

\* api_sweep.py: the step fails when any answer is not what its operation documents "and keeps the
\* table either way"; yet an answer whose judging raises ends the group, and the table with it.
\* The code does not keep this one (README, divergences); no run lists it.
SweepKeepsTable == [][sweep.at = "running" => sweep'.at # "idle"]_aVarsC

\* api_errors judges this test's answers and nothing of an earlier test, through the calls and sweeps
\* that filled the journal, whose limit may have dropped the oldest (_step_outcomes.py reset, exchanges.py).
JudgesThisTest ==
    apiVerdict.of = "errors" => \A p \in apiVerdict.found : \E i \in DOMAIN received : received[i].name = p[1] /\ received[i].answer.status >= 400

\* sweep_plan.py: a write needs "its own entry in operations: a sweep never changes data by accident":
\* every write sent is an operation one of the listed names finds.
\* The code does not keep this one (README, divergences); no run lists it.
WritesHaveOwnEntry ==
    sweep.at # "idle" => \A o \in {s[1] : s \in sweep.sent} : IsWrite(o) => \E n \in sweep.q.operations : n \in {<<o.method, o.path>>, <<"id", o.id>>}
=============================================================================
