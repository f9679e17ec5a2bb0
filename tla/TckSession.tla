----------------------------- MODULE TckSession -------------------------------
(***************************************************************************)
(* One session of a TCK (player/execution/session.py): a host's tasks ask  *)
(* it to run the scheduled tests, to run a test on demand, again if it ran *)
(* before, and to close; one asyncio.Lock lets one of them in at a time,   *)
(* in the order they asked.  A task may be cancelled, or a test raise what *)
(* nothing catches, wherever the task waits.                               *)
(***************************************************************************)
EXTENDS Naturals, Sequences, SequenceFilter

CONSTANTS N,         \* the tests 1..N of the manifest, in order
          OnDemand,  \* the tests marked async: true
          SkipIds,   \* the tests the operator skips
          Driver,    \* the task that runs the planned sequence
          Others,    \* tasks of the host that run single tests or close
          MaxAsks    \* bound: requests of each other task
Tests == 1..N
Tasks == Others \cup {Driver}

ASSUME TckSessionAssumption ==
    /\ N \in Nat \ {0} /\ OnDemand \subseteq Tests /\ SkipIds \subseteq Tests
    /\ Driver \notin Others /\ MaxAsks \in Nat

VARIABLES
    plain,      \* the session is run_tck's own (run_all, then close whatever happened) or a host's
    queue,      \* the tasks at the lock, its holder first
    ask,        \* what each task is at: [op, test, in]
    asks,       \* requests made so far
    results,    \* _results
    attempts,   \* _attempts
    unfinished, \* _unfinished: the test, 0 for none
    closed,     \* _closed
    outcome,    \* _result, and "failed to close"
    cancelled,  \* JobManager.is_cancelled
    job,        \* the job's status
    released,   \* services, mock server and records are released
    latest,     \* how the latest attempt of each test went (history)
    open        \* the attempts announced as started and not as completed (history)
sessionVars == <<plain, queue, ask, asks, results, attempts, unfinished, closed, outcome, cancelled, job,
          released, latest, open>>
sesVars == <<plain, results, attempts, unfinished, closed, outcome, job, released, latest, open>>

Request(op, t) == [op |-> op, test |-> t, in |-> "no"]
Idle == Request("none", 0)
Gone == Request("gone", 0)
AskRec == [op : {"none", "planned", "single", "close", "gone"}, test : 0..N, in : {"yes", "no"}]
SessionTypeOK ==
    /\ plain \in {"yes", "no"}
    /\ queue \in Seq(Tasks) /\ \A i, j \in DOMAIN queue : queue[i] = queue[j] => i = j
    /\ ask \in [Tasks -> AskRec]
    /\ asks \in [Tasks -> 0..MaxAsks]
    /\ results \in [Tests -> {"none", "COMPLETED", "FAILED", "SKIPPED", "CANCELLED"}]
    /\ attempts \in [Tests -> Nat]
    /\ unfinished \in 0..N
    /\ closed \in {"yes", "no"}
    /\ outcome \in {"none", "COMPLETED", "FAILED"}
    /\ cancelled \in {"yes", "no"}
    /\ job \in {"RUNNING", "COMPLETED", "FAILED", "CANCELLED"}
    /\ released \in {"yes", "no"}
    /\ latest \in [Tests -> {"none", "running", "COMPLETED", "FAILED", "CANCELLED"}]
    /\ open \subseteq Tests \X Nat

SessionInit ==
    /\ plain \in {"yes", "no"}
    /\ queue = <<>> /\ ask = [c \in Tasks |-> Idle] /\ asks = [c \in Tasks |-> 0]
    /\ results = [t \in Tests |-> "none"] /\ attempts = [t \in Tests |-> 0]
    /\ unfinished = 0 /\ closed = "no" /\ outcome = "none"
    /\ cancelled = "no" /\ job = "RUNNING" /\ released = "no"
    /\ latest = [t \in Tests |-> "none"] /\ open = {}

-----------------------------------------------------------------------------
\* c asks for op, and waits for the lock.
Ask(c, op, t) ==
    /\ queue' = Append(queue, c)
    /\ ask' = [ask EXCEPT ![c] = Request(op, t)]

\* The tests of the planned sequence: run_all runs every one, run_scheduled those not on demand.
Planned(t) == t \in Tests /\ (plain = "yes" \/ t \notin OnDemand)
NextPlanned(t) == {u \in Tests : u > t /\ Planned(u) /\ \A v \in (t + 1)..(u - 1) : ~Planned(v)}

\* What c does when it leaves the lock with its request served: the driver asks for
\* the next planned test, and a plain run closes after the last.
Leave(c) ==
    LET next == IF ask[c].op = "planned" THEN NextPlanned(ask[c].test) ELSE {}
    IN  IF next # {}
        THEN /\ queue' = Append(Tail(queue), c)
             /\ ask' = [ask EXCEPT ![c] = Request("planned", CHOOSE u \in next : TRUE)]
        ELSE IF ask[c].op = "planned" /\ plain = "yes"
        THEN /\ queue' = Append(Tail(queue), c)
             /\ ask' = [ask EXCEPT ![c] = Request("close", 0)]
        ELSE /\ queue' = Tail(queue)
             /\ ask' = [ask EXCEPT ![c] = IF c = Driver THEN Gone ELSE Idle]

\* The tasks at the lock without c.
Without(c) == Filter(queue, Tasks \ {c})

\* Mutant of Raised: an exception leaves the lock held.
RaisedHolding(c) ==
    /\ ask' = [ask EXCEPT ![c] = Gone]
    /\ UNCHANGED queue

\* What c does when an exception takes it out of the lock, or out of the queue: only
\* the driver of a plain run goes on, to close.
Raised(c) ==
    IF c = Driver /\ plain = "yes" /\ ask[c].op # "close"
    THEN /\ queue' = Append(Without(c), c)
         /\ ask' = [ask EXCEPT ![c] = Request("close", 0)]
    ELSE /\ queue' = Without(c)
         /\ ask' = [ask EXCEPT ![c] = Gone]

StartPlan ==
    /\ ask[Driver].op = "none"
    /\ \E t \in NextPlanned(0) : Ask(Driver, "planned", t)
    /\ UNCHANGED <<asks, cancelled, sesVars>>

AskSingle(c, t) ==
    /\ plain = "no" /\ c \in Others /\ ask[c].op = "none" /\ asks[c] < MaxAsks
    /\ asks' = [asks EXCEPT ![c] = @ + 1]
    /\ Ask(c, "single", t)
    /\ UNCHANGED <<cancelled, sesVars>>

AskClose(c) ==
    /\ plain = "no" /\ c \in Others /\ ask[c].op = "none" /\ asks[c] < MaxAsks
    /\ asks' = [asks EXCEPT ![c] = @ + 1]
    /\ Ask(c, "close", 0)
    /\ UNCHANGED <<cancelled, sesVars>>

-----------------------------------------------------------------------------
\* c holds the lock and its request has not begun.
Enters(c, op) ==
    queue # <<>> /\ c = Head(queue) /\ ask[c].op = op /\ ask[c].in = "no"

\* _require_open.
FoundClosed(c) ==
    /\ \/ Enters(c, "planned") \/ Enters(c, "single")
    /\ closed = "yes"
    /\ Raised(c)
    /\ UNCHANGED <<asks, cancelled, sesVars>>

\* _skip, of a planned test: the operator skips it or the job was cancelled.
Skip(c) ==
    /\ Enters(c, "planned") /\ closed = "no"
    /\ ask[c].test \in SkipIds \/ cancelled = "yes"
    /\ results' = [results EXCEPT ![ask[c].test] = "SKIPPED"]
    /\ Leave(c)
    /\ UNCHANGED <<plain, asks, cancelled, attempts, unfinished, closed, outcome, job, released, latest, open>>

\* _run, up to run_test's first await.
RunTest(c) ==
    LET t == ask[c].test
    IN  /\ \/ Enters(c, "single")
           \/ Enters(c, "planned") /\ t \notin SkipIds /\ cancelled = "no"
        /\ closed = "no"
        /\ attempts' = [attempts EXCEPT ![t] = @ + 1]
        /\ unfinished' = t
        /\ latest' = [latest EXCEPT ![t] = "running"]
        /\ open' = open \cup {<<t, attempts[t] + 1>>}
        /\ ask' = [ask EXCEPT ![c].in = "yes"]
        /\ UNCHANGED <<plain, queue, asks, cancelled, results, closed, outcome, job, released>>

\* _run, after run_test.
SessionTestEnds(c, out) ==
    LET t == ask[c].test
    IN  /\ ask[c].in = "yes"
        /\ unfinished' = 0
        /\ results' = [results EXCEPT ![t] = out]
        /\ latest' = [latest EXCEPT ![t] = out]
        /\ open' = open \ {<<t, attempts[t]>>}
        /\ Leave(c)
        /\ UNCHANGED <<plain, asks, cancelled, attempts, closed, outcome, job, released>>

\* The task is cancelled, or the test raises: in a test, or waiting for the lock.
InterruptTask(c) ==
    /\ ask[c].op \in {"planned", "single", "close"}
    /\ latest' = IF ask[c].in = "yes" THEN [latest EXCEPT ![ask[c].test] = "CANCELLED"] ELSE latest
    /\ Raised(c)
    /\ UNCHANGED <<plain, asks, cancelled, results, attempts, unfinished, closed, outcome, job, released, open>>

\* JobManager.cancel.
CancelJob ==
    /\ cancelled = "no" /\ job = "RUNNING"
    /\ cancelled' = "yes" /\ job' = "CANCELLED"
    /\ UNCHANGED <<plain, queue, ask, asks, results, attempts, unfinished, closed, outcome, released, latest, open>>

\* close, as far as what it keeps: the unfinished test ends CANCELLED, whatever has no
\* result is skipped, and the verdict is built of what is kept.
Ended == [t \in Tests |-> IF t = unfinished THEN "CANCELLED"
                          ELSE IF results[t] = "none" THEN "SKIPPED" ELSE results[t]]

\* Mutant of Verdict: only a test cut short fails the TCK.
VerdictLenient(kept) ==
    IF \A t \in Tests : kept[t] # "CANCELLED" THEN "COMPLETED" ELSE "FAILED"

\* build_tck_result.
Verdict(kept) ==
    IF \A t \in Tests : kept[t] \in {"COMPLETED", "SKIPPED"} THEN "COMPLETED" ELSE "FAILED"

\* close, then finalize_job.
CloseSession(c) ==
    /\ Enters(c, "close") /\ closed = "no"
    /\ closed' = "yes" /\ released' = "yes"
    /\ results' = Ended
    /\ unfinished' = 0
    /\ open' = IF unfinished = 0 THEN open ELSE open \ {<<unfinished, attempts[unfinished]>>}
    /\ outcome' = Verdict(Ended)
    /\ job' = IF cancelled = "yes" THEN job ELSE Verdict(Ended)
    /\ Leave(c)
    /\ UNCHANGED <<plain, asks, cancelled, attempts, latest>>

\* Publishing raised inside close, with some of the results entered: what is held
\* is released, no verdict is kept and the job is not finalised.
CloseRaises(c) ==
    /\ Enters(c, "close") /\ closed = "no"
    /\ closed' = "yes" /\ released' = "yes"
    /\ \E done \in SUBSET Tests :
          results' = [t \in Tests |-> IF t \in done THEN Ended[t] ELSE results[t]]
    /\ unfinished' = 0
    /\ Raised(c)
    /\ UNCHANGED <<plain, asks, cancelled, attempts, outcome, job, latest, open>>

\* A second close returns the verdict, or raises when there is none.
CloseAgain(c) ==
    /\ Enters(c, "close") /\ closed = "yes"
    /\ IF outcome = "none" THEN Raised(c) ELSE Leave(c)
    /\ UNCHANGED <<asks, cancelled, sesVars>>

Serve(c) == FoundClosed(c) \/ Skip(c) \/ RunTest(c) \/ CloseSession(c) \/ CloseRaises(c) \/ CloseAgain(c)
            \/ (\E out \in {"COMPLETED", "FAILED"} : SessionTestEnds(c, out))
SessionNext ==
    \/ StartPlan \/ CancelJob
    \/ \E c \in Tasks : AskClose(c) \/ (\E t \in Tests : AskSingle(c, t)) \/ Serve(c) \/ InterruptTask(c)

SessionSpec == SessionInit /\ [][SessionNext]_sessionVars
FairSession == SessionSpec /\ \A c \in Tasks : WF_sessionVars(Serve(c))
-----------------------------------------------------------------------------
\* What an interruption in a test has to leave: the test CANCELLED, the TCK FAILED, and
\* whoever watched the start of the test told of its end.
InterruptedTold ==
    outcome # "none" =>
        /\ open = {}
        /\ \A t \in Tests : latest[t] = "CANCELLED" => results[t] = "CANCELLED" /\ outcome = "FAILED"

\* What close leaves (TckSession.close, build_tck_result). A closed session has let go of its
\* services, mock server and records, also when publishing its end raised, and an open one
\* still has them; the "verdict (latest attempts)" of a plain run reports a test whose latest
\* attempt failed as FAILED, and the TCK with it, and says of a run interrupted in a test
\* that it was.  (With the types of the session.)
CloseTells ==
    /\ SessionTypeOK
    /\ closed = released
    /\ plain = "yes" /\ outcome # "none" =>
        /\ \A t \in Tests : latest[t] = "FAILED" => results[t] = "FAILED" /\ outcome = "FAILED"
        /\ InterruptedTold

\* "A test the run was interrupted in [...] ends CANCELLED", in any session.
\* The code does not keep this one (README, divergences); no run lists it.
InterruptedEndsCancelled == InterruptedTold

\* A closed session runs nothing and keeps its results.
ClosedStays == closed = "yes" => attempts' = attempts /\ results' = results

\* A task at the lock is served in the end: no request is starved by the planned sequence,
\* which comes back to the lock after every test. One that reaches the lock after close did
\* runs nothing, however long before the close it was made (_require_open): the session
\* stays as its verdict describes it.
RequestServed ==
    /\ [][ClosedStays]_sessionVars
    /\ \A c \in Others : ask[c].op \in {"single", "close"} ~> ask[c].op \in {"none", "gone"}
=============================================================================
