----------------------------- MODULE DynamicMock ------------------------------
(***************************************************************************)
(* A mock whose replies are worked out by steps (extensions/labs/steps/    *)
(* dynamic_mock).  The server's thread takes a call and waits; the steps   *)
(* run on the loop of the run, between its own steps and those of other    *)
(* calls, in a context that is the call's alone.                           *)
(***************************************************************************)
EXTENDS Naturals, FiniteSets

CONSTANTS Requests,   \* the calls that come in
          MaxProcess, \* steps of the mock's "process"
          MaxSets     \* bound: times the run's own steps set the variable

ASSUME DynamicAssumption == MaxProcess \in Nat \ {0} /\ MaxSets \in Nat /\ "run" \notin Requests

\* A context: the run's variable, the call it holds the request of, and what the last
\* step of the process published.
Context(v, q, p) == [var |-> v, request |-> q, process |-> p]

VARIABLES
    loop,   \* the loop of the run: "open", or "closed" once the run is over
    ctx,    \* the contexts: the run's and one per call
    home,   \* the context the steps of a call work in
    at,     \* a call: "none", "queued" on the loop, step by step, "cancelled", "over"
    done,   \* steps of the process that have run
    base,   \* what the run's variable was when the call's context was made (history)
    reply   \* what the caller was answered: [code, from, var]
dVars == <<loop, ctx, home, at, done, base, reply>>

Silent == [code |-> 0, from |-> "none", var |-> 0]
NoReply == [code |-> 500, from |-> "none", var |-> 0]

DInit ==
    /\ loop = "open" /\ ctx = [o \in Requests \cup {"run"} |-> Context(0, "none", "none")]
    /\ home = [c \in Requests |-> c] /\ at = [c \in Requests |-> "none"]
    /\ done = [c \in Requests |-> 0] /\ base = [c \in Requests |-> 0]
    /\ reply = [c \in Requests |-> Silent]

\* CallHandler.__call__: the answer is put on the loop of the run; a loop that is closed
\* takes nothing, and the caller is told 500.
CallComes(c) ==
    /\ at[c] = "none"
    /\ IF loop = "open" THEN at' = [at EXCEPT ![c] = "queued"] /\ UNCHANGED reply
       ELSE at' = [at EXCEPT ![c] = "over"] /\ reply' = [reply EXCEPT ![c] = NoReply]
    /\ UNCHANGED <<loop, ctx, home, done, base>>

\* _call_context: a copy of the run's variables, templates and seals, with the request in it.
CallContext(c) ==
    /\ home' = [home EXCEPT ![c] = c]
    /\ ctx' = [ctx EXCEPT ![c] = Context(ctx["run"].var, c, "none")]

\* CallHandler._answer: the task gets its turn.
StartAnswer(c) ==
    /\ loop = "open" /\ at[c] = "queued" /\ at' = [at EXCEPT ![c] = "process"]
    /\ base' = [base EXCEPT ![c] = ctx["run"].var]
    /\ CallContext(c) /\ UNCHANGED <<loop, done, reply>>

\* _run_process: the next step, unless one is unknown or fails; a step may set the variable
\* in its context, and publishes what it read of the request.  Each step is a turn.
RunProcess(c, outcome, sets) ==
    /\ loop = "open" /\ at[c] = "process" /\ done[c] < MaxProcess
    /\ IF outcome = "passed"
       THEN /\ done' = [done EXCEPT ![c] = @ + 1]
            /\ ctx' = [ctx EXCEPT ![home[c]] = Context(IF sets = "yes" THEN MaxSets + 1 ELSE @.var, @.request, @.request)]
            /\ UNCHANGED <<at, reply>>
       ELSE /\ at' = [at EXCEPT ![c] = "over"] /\ reply' = [reply EXCEPT ![c] = NoReply]
            /\ UNCHANGED <<ctx, done>>
    /\ UNCHANGED <<loop, home, base>>

\* _read_reply: status, body and headers resolved in the call's context; one that cannot be
\* read is a 500.
ReadReply(c, readable) ==
    /\ loop = "open" /\ at[c] = "process" /\ done[c] = MaxProcess
    /\ at' = [at EXCEPT ![c] = "over"]
    /\ reply' = [reply EXCEPT ![c] = IF readable = "yes"
                   THEN [code |-> 200, from |-> ctx[home[c]].process, var |-> ctx[home[c]].var] ELSE NoReply]
    /\ UNCHANGED <<loop, ctx, home, done, base>>

\* Mutant of ProcessTimesOut: only steps that have begun are timed.
ProcessTimesOutLate(c) ==
    /\ at[c] = "process" /\ reply[c] = Silent
    /\ at' = [at EXCEPT ![c] = "cancelled"] /\ reply' = [reply EXCEPT ![c] = NoReply]
    /\ UNCHANGED <<loop, ctx, home, done, base>>

\* asyncio.wait_for in the server: process_timeout runs out, the caller has a 500 and the
\* task is asked to stop; it does so at its next turn.
ProcessTimesOut(c) ==
    /\ at[c] \in {"queued", "process"} /\ reply[c] = Silent
    /\ at' = [at EXCEPT ![c] = "cancelled"] /\ reply' = [reply EXCEPT ![c] = NoReply]
    /\ UNCHANGED <<loop, ctx, home, done, base>>

\* The steps of the run go on meanwhile, until it is over.
RunSets ==
    /\ loop = "open" /\ ctx["run"].var < MaxSets
    /\ ctx' = [ctx EXCEPT !["run"].var = @ + 1]
    /\ UNCHANGED <<loop, home, at, done, base, reply>>

LoopCloses == loop = "open" /\ loop' = "closed" /\ UNCHANGED <<ctx, home, at, done, base, reply>>

DTurn(c) == StartAnswer(c) \/ (\E o \in {"passed", "failed"}, s \in {"yes", "no"} : RunProcess(c, o, s)) \/ \E r \in {"yes", "no"} : ReadReply(c, r)
DNext == RunSets \/ LoopCloses \/ \E c \in Requests : CallComes(c) \/ DTurn(c) \/ ProcessTimesOut(c)

-----------------------------------------------------------------------------
\* The reply to a call is made of that call's request, of variables the run had when the
\* call was taken up or the call's own steps set, and the calls leave the run's context as
\* its steps made it, however calls, steps and timeouts interleave.
ReplyFromOwnCall ==
    /\ \A c \in Requests : reply[c].code = 200 => reply[c].from = c /\ reply[c].var \in {base[c], MaxSets + 1}
    /\ ctx["run"].request = "none" /\ ctx["run"].var <= MaxSets

\* Every caller is answered, though the run may be busy, or over, and never take the call up; and
\* always from its own call (ReplyFromOwnCall; CallHandler).
CallAnswered ==
    /\ []ReplyFromOwnCall
    /\ \A c \in Requests : at[c] # "none" ~> reply[c] # Silent
=============================================================================
