----------------------------- MODULE Checkpoints ------------------------------
(***************************************************************************)
(* The checkpoints of one test while it is run, run again, skipped,        *)
(* interrupted and ended (player/checkpoints): the phase loop and the flow *)
(* steps open a frame per step they run, and the frame on top of the stack *)
(* decides what a question, an answer or an end does to the checkpoint     *)
(* that step is, and to the ones it carries.                               *)
(***************************************************************************)
EXTENDS Naturals, Sequences, SequencesExt

CONSTANTS Uses,      \* what the step at each path is: wait, act, if, retry or each; a path is
                     \* the sequence of its places, a place the list it is in and its number
          Planned,   \* the paths that are checkpoints
          MayMiss,   \* the paths whose step type may have no implementation
          MaxTries,  \* max_attempts of every flow/retry
          MaxItems,  \* bound: items of a labs/flow/for_each
          MaxRuns,   \* bound: times the test is run
          MaxPauses  \* bound: pauses of one question

Paths == DOMAIN Uses
Asks == {p \in Planned : Uses[p] = "wait"}
Phases == <<"setup", "execution", "teardown">>
Places == {"setup", "execution", "teardown", "then", "else", "steps"} \X (Nat \ {0})

\* The lists of steps a step of this use runs.
Lists(use) ==
    CASE use = "if" -> {"then", "else"} [] use \in {"retry", "each"} -> {"steps"} [] OTHER -> {}

ASSUME CheckpointsAssumption ==
    /\ Planned \subseteq Paths /\ MayMiss \subseteq Paths
    /\ MaxTries \in Nat \ {0} /\ {MaxItems, MaxRuns, MaxPauses} \subseteq Nat

\* The steps are a tree: a path starts in a phase, the steps above it run it, and the steps
\* before it are in the same list.
ASSUME PathsAssumption ==
    \A p \in Paths :
        /\ Uses[p] \in {"wait", "act", "if", "retry", "each"}
        /\ p \in Seq(Places) /\ p # <<>> /\ p[1][1] \in {"setup", "execution", "teardown"}
        /\ \A n \in 1..(Len(p) - 1) :
            SubSeq(p, 1, n) \in Paths /\ p[n + 1][1] \in Lists(Uses[SubSeq(p, 1, n)])
        /\ \A k \in 1..Last(p)[2] : Append(Front(p), <<Last(p)[1], k>>) \in Paths

VARIABLES
    missing,   \* the paths whose step type StepRegistry does not find
    status,    \* CheckpointTracker._statuses: [state, attempts]
    stack,     \* the frames of the steps being run, the current one last
    test,      \* idle, running, interrupted, or the run is over
    at,        \* where the phase loops are: [phase, done, failed]
    outcome,   \* the test's latest result
    runs,      \* times the test was started
    cancelled, \* JobManager.is_cancelled
    puts       \* times a question was put to someone (history)
vars == <<missing, status, stack, test, at, outcome, runs, cancelled, puts>>

States == {"ahead", "now", "cleared", "skipped", "failed", "timed_out", "not_reached"}
Open == {"ahead", "now"}
Superseded == {"ahead", "failed", "timed_out", "not_reached"}
Top == stack[Len(stack)]

Frames == [path : Paths, attempt : Nat, stage : {"opened", "running"},
           asked : {"yes", "no"}, open : {"yes", "no"}, answered : {"yes", "no", "refused"},
           pauses : 0..MaxPauses, branch : {"none", "then", "else", "steps"},
           laps : Nat, done : Nat, last : {"PASSED", "FAILED"}]

TypeOK ==
    /\ missing \subseteq MayMiss
    /\ status \in [Planned -> [state : States, attempts : Nat]]
    /\ stack \in Seq(Frames)
    /\ test \in {"idle", "running", "interrupted", "over"}
    /\ at \in [phase : 1..Len(Phases), done : Nat, failed : {"yes", "no"}]
    /\ outcome \in {"none", "COMPLETED", "FAILED", "SKIPPED", "CANCELLED"}
    /\ runs \in 0..MaxRuns
    /\ cancelled \in {"yes", "no"}
    /\ puts \in [Planned -> Nat]

\* A test of skip_tests is planned too, its checkpoints already skipped.
Init ==
    /\ missing \in SUBSET MayMiss
    /\ \E s \in {"ahead", "skipped"} : status = [p \in Planned |-> [state |-> s, attempts |-> 0]]
    /\ stack = <<>> /\ test = "idle" /\ at = [phase |-> 1, done |-> 0, failed |-> "no"]
    /\ outcome = "none" /\ runs = 0 /\ cancelled = "no"
    /\ puts = [p \in Planned |-> 0]

-----------------------------------------------------------------------------
\* The checkpoints at or under a path, those under one of its lists, and the next step of
\* the phase.
Under(path) == {p \in Planned : IsPrefix(path, p)}
UnderList(path, key) ==
    {p \in Planned : IsStrictPrefix(path, p) /\ p[Len(path) + 1][1] = key}
NextStep == << <<Phases[at.phase], at.done + 1>> >>

\* What a checkpoint becomes when its own step ends; None is an interrupted step.
OwnStepEnded(f, result) ==
    IF result = "SKIPPED" \/ (result = "PASSED" /\ f.asked = "no") THEN "skipped"
    ELSE IF result = "PASSED" THEN "cleared"
    ELSE IF f.asked = "no" THEN "not_reached"
    ELSE IF f.answered # "no" THEN "failed"
    ELSE IF cancelled = "yes" \/ result = "None" THEN "not_reached"
    ELSE IF f.path \in Asks THEN "timed_out" ELSE "failed"

CarriedStepEnded(result) == IF result \in {"PASSED", "SKIPPED"} THEN "skipped" ELSE "not_reached"

TestEnded(state, result) ==
    IF state = "ahead"
    THEN IF result \in {"COMPLETED", "SKIPPED"} /\ cancelled = "no" THEN "skipped" ELSE "not_reached"
    ELSE IF state = "now" THEN "not_reached" ELSE state

\* Mutant of Ended: what a flow step carries ends as it does, whatever became of it.
EndedAll(st, f, result) ==
    [p \in Planned |->
        IF p = f.path THEN [st[p] EXCEPT !.state = OwnStepEnded(f, result)]
        ELSE IF p \in Under(f.path)
        THEN [st[p] EXCEPT !.state = CarriedStepEnded(result)]
        ELSE st[p]]

\* The statuses st once the step of frame f has ended: its own, then the open ones it carries.
Ended(st, f, result) ==
    [p \in Planned |->
        IF p = f.path THEN [st[p] EXCEPT !.state = OwnStepEnded(f, result)]
        ELSE IF p \in Under(f.path) /\ st[p].state \in Open
        THEN [st[p] EXCEPT !.state = CarriedStepEnded(result)]
        ELSE st[p]]

\* The question of frame f, the current one on top of below, is put; a step that is
\* no checkpoint only notes that it asked.
Ask(below, f) ==
    /\ stack' = Append(below, [f EXCEPT !.asked = "yes"])
    /\ IF f.path \in Planned
       THEN /\ status' = [status EXCEPT ![f.path] = [state |-> "now", attempts |-> f.attempt]]
            /\ puts' = [puts EXCEPT ![f.path] = @ + 1]
       ELSE UNCHANGED <<status, puts>>

NewFrame(p, stage) ==
    [path |-> p, attempt |-> IF p \in Planned THEN status[p].attempts + 1 ELSE 0,
     stage |-> stage, asked |-> "no", open |-> "no", answered |-> "no", pauses |-> 0,
     branch |-> IF Uses[p] \in {"retry", "each"} THEN "steps" ELSE "none",
     laps |-> 0, done |-> 0, last |-> "PASSED"]

\* begin(): a checkpoint whose step does not ask for itself is asked as the step starts.
Begin(below, f) ==
    IF f.path \in Planned \ Asks
    THEN Ask(below, f)
    ELSE stack' = Append(below, f) /\ UNCHANGED <<status, puts>>

\* The current step ends, and whoever ran it learns how: its flow step, or its phase,
\* which stops on a failure unless it is the teardown.
EndStep(result) ==
    LET n == Len(stack)
        failed == IF result = "FAILED" THEN "FAILED" ELSE "PASSED"
    IN  /\ status' = Ended(status, Top, result)
        /\ IF n > 1
           THEN /\ stack' = [SubSeq(stack, 1, n - 1) EXCEPT ![n - 1].done = @ + 1, ![n - 1].last = failed]
                /\ UNCHANGED at
           ELSE /\ stack' = <<>>
                /\ at' = IF result = "FAILED" /\ Phases[at.phase] # "teardown"
                         THEN [phase |-> 3, done |-> 0, failed |-> "yes"]
                         ELSE [at EXCEPT !.done = @ + 1]
        /\ UNCHANGED <<missing, test, outcome, runs, cancelled, puts>>

-----------------------------------------------------------------------------
\* The test and the run.

\* _run: the test starts, again maybe, and its checkpoints start over; their attempts go on.
TestStarts ==
    /\ test \in {"idle", "interrupted"} /\ runs < MaxRuns
    /\ status' = [p \in Planned |-> [status[p] EXCEPT !.state = "ahead"]]
    /\ test' = "running" /\ runs' = runs + 1 /\ outcome' = "none"
    /\ at' = [phase |-> 1, done |-> 0, failed |-> "no"]
    /\ UNCHANGED <<missing, stack, cancelled, puts>>

\* _skip: a test that is skipped is announced and completed, and its checkpoints do not start over.
TestSkipped ==
    /\ test = "idle" /\ outcome = "none"
    /\ status' = [p \in Planned |-> [status[p] EXCEPT !.state = TestEnded(@, "SKIPPED")]]
    /\ outcome' = "SKIPPED"
    /\ UNCHANGED <<missing, stack, test, at, runs, cancelled, puts>>

PhaseOver == test = "running" /\ stack = <<>> /\ NextStep \notin Paths

NextPhase ==
    /\ PhaseOver /\ at.phase < Len(Phases)
    /\ at' = [at EXCEPT !.phase = @ + 1, !.done = 0]
    /\ UNCHANGED <<missing, status, stack, test, outcome, runs, cancelled, puts>>

\* run_test returns after the teardown, whose failures do not count.
TestEnds ==
    /\ PhaseOver /\ at.phase = Len(Phases)
    /\ outcome' = IF at.failed = "yes" THEN "FAILED" ELSE "COMPLETED"
    /\ status' = [p \in Planned |-> [status[p] EXCEPT !.state = TestEnded(@, outcome')]]
    /\ test' = "idle"
    /\ UNCHANGED <<missing, stack, at, runs, cancelled, puts>>

\* An exception no step catches, or the cancellation of the task, arrives where the test
\* awaits: at the pause gate between steps, in a call, in an open question, in the sleep
\* between two tries.  Every frame on the way out ends without an outcome.
Awaits ==
    IF stack = <<>> THEN Phases[at.phase] # "teardown" /\ NextStep \in Paths
    ELSE \/ Uses[Top.path] = "act" /\ Top.stage = "running"
         \/ Uses[Top.path] = "wait" /\ Top.asked = "yes" /\ Top.answered = "no"
         \/ Uses[Top.path] = "retry" /\ Top.last = "FAILED" /\ Top.laps < MaxTries

\* Mutant of Unwind: only the step that was interrupted ends.
UnwindTop == Ended(status, Top, "None")

\* The statuses once the k frames on top have ended, for every k.
Unwound ==
    LET n == Len(stack)
        U[k \in 0..n] == IF k = 0 THEN status ELSE Ended(U[k - 1], stack[n + 1 - k], "None")
    IN  U

Unwind == Unwound[Len(stack)]

Interrupt ==
    /\ test = "running" /\ Awaits
    /\ status' = IF stack = <<>> THEN status ELSE Unwind
    /\ stack' = <<>> /\ test' = "interrupted"
    /\ UNCHANGED <<missing, at, outcome, runs, cancelled, puts>>

Cancel ==
    /\ cancelled = "no" /\ test # "over"
    /\ cancelled' = "yes"
    /\ UNCHANGED <<missing, status, stack, test, at, outcome, runs, puts>>

\* close: the test the run was interrupted in ends CANCELLED, one that never ran is
\* skipped, and then the job ends with whatever is still open not reached.
RunEnds ==
    /\ test \in {"idle", "interrupted"}
    /\ outcome' = IF test = "interrupted" THEN "CANCELLED"
                  ELSE IF outcome = "none" THEN "SKIPPED" ELSE outcome
    /\ LET told(s) == IF outcome' = outcome THEN s ELSE TestEnded(s, outcome')
       IN  status' = [p \in Planned |->
               [status[p] EXCEPT !.state = IF told(@) \in Open THEN "not_reached" ELSE told(@)]]
    /\ test' = "over"
    /\ UNCHANGED <<missing, stack, at, runs, cancelled, puts>>

-----------------------------------------------------------------------------
\* Steps.

\* run_phase opens the frame of its next step.
OpenStep ==
    /\ test = "running" /\ stack = <<>> /\ NextStep \in Paths
    /\ stack' = <<NewFrame(NextStep, "opened")>>
    /\ UNCHANGED <<missing, status, test, at, outcome, runs, cancelled, puts>>

\* run_phase_step: the step's if: says no (the teardown ignores it), its type has no
\* implementation, or it begins.
ConditionSaysNo ==
    /\ stack # <<>> /\ Top.stage = "opened" /\ Phases[at.phase] # "teardown"
    /\ EndStep("SKIPPED")

NoImplementation ==
    /\ stack # <<>> /\ Top.stage = "opened" /\ Top.path \in missing
    /\ EndStep("FAILED")

BeginStep ==
    /\ stack # <<>> /\ Top.stage = "opened" /\ Top.path \notin missing
    /\ Begin(<<>>, [Top EXCEPT !.stage = "running"])
    /\ UNCHANGED <<missing, test, at, outcome, runs, cancelled>>

Running(kinds) == stack # <<>> /\ Top.stage = "running" /\ Uses[Top.path] \in kinds
SetTop(f) == stack' = [stack EXCEPT ![Len(stack)] = f]

\* on_step_waiting, on_step_selecting: the question is put, or put again after a pause.
Asked ==
    /\ Running({"wait"}) /\ Top.open = "no" /\ Top.answered = "no"
    /\ IF Top.asked = "no"
       THEN Ask(Front(stack), [Top EXCEPT !.open = "yes"])
       ELSE SetTop([Top EXCEPT !.open = "yes"]) /\ UNCHANGED <<status, puts>>
    /\ UNCHANGED <<missing, test, at, outcome, runs, cancelled>>

\* on_step_suspended: the question is paused.
Suspended ==
    /\ Running({"wait"}) /\ Top.open = "yes" /\ Top.pauses < MaxPauses
    /\ SetTop([Top EXCEPT !.open = "no", !.pauses = @ + 1])
    /\ UNCHANGED <<missing, status, test, at, outcome, runs, cancelled, puts>>

\* on_step_received, on_step_selected.  A wait announces itself before it is answered.
Answered ==
    /\ Running({"wait"}) /\ Top.asked = "yes" /\ Top.answered = "no"
    /\ SetTop([Top EXCEPT !.open = "no", !.answered = "yes"])
    /\ status' = IF Top.path \in Planned THEN [status EXCEPT ![Top.path].state = "cleared"] ELSE status
    /\ UNCHANGED <<missing, test, at, outcome, runs, cancelled, puts>>

\* on_step_received of a call the mock turned away.
Refused ==
    /\ Running({"wait"}) /\ Top.asked = "yes" /\ Top.answered = "no"
    /\ SetTop([Top EXCEPT !.open = "no", !.answered = "refused"])
    /\ UNCHANGED <<missing, status, test, at, outcome, runs, cancelled, puts>>

\* A step that runs no others ends.  A wait passes once it was answered, or, a choice of
\* one option, without asking; it fails also when it timed out or the run was cancelled.
LeafEnds(result) ==
    /\ Running({"wait", "act"})
    /\ result = "PASSED" /\ Uses[Top.path] = "wait" => \/ Top.answered = "yes" \/ Top.asked = "no"
    /\ EndStep(result)

NewLap(key) ==
    /\ SetTop([Top EXCEPT !.branch = key, !.laps = @ + 1, !.done = 0, !.last = "PASSED"])
    /\ UNCHANGED <<missing, test, at, outcome, runs, cancelled, puts>>

\* The statuses once the current flow step did not take the branch key.
NotTaken(key) ==
    [p \in Planned |-> IF p \in UnderList(Top.path, key) /\ status[p].state \in Superseded
                       THEN [status[p] EXCEPT !.state = "skipped"] ELSE status[p]]

\* flow/if takes one branch, then or else, and says that it does not take the other.
TakeBranch(key, other) ==
    /\ Running({"if"}) /\ Top.laps = 0
    /\ status' = NotTaken(other)
    /\ NewLap(key)

\* flow/retry tries its steps, again after a failure.
Try ==
    /\ Running({"retry"}) /\ Top.laps < MaxTries /\ (Top.laps = 0 \/ Top.last = "FAILED")
    /\ NewLap("steps") /\ UNCHANGED status

\* The nested step that is next.
Child == Append(Top.path, <<Top.branch, Top.done + 1>>)

\* labs/flow/for_each takes its next item.
NextItem ==
    /\ Running({"each"}) /\ Top.laps < MaxItems
    /\ Top.laps = 0 \/ (Top.last = "PASSED" /\ Child \notin Paths)
    /\ NewLap("steps") /\ UNCHANGED status

\* _run_sequence runs the next nested step in a frame of its own; one whose type has no
\* implementation fails without a frame.
RunNested ==
    /\ Running({"if", "retry", "each"}) /\ Top.laps > 0 /\ Top.last = "PASSED" /\ Child \in Paths
    /\ IF Child \in missing
       THEN SetTop([Top EXCEPT !.last = "FAILED"]) /\ UNCHANGED <<status, puts>>
       ELSE Begin(stack, NewFrame(Child, "running"))
    /\ UNCHANGED <<missing, test, at, outcome, runs, cancelled>>

\* A flow step ends: before it ran anything (what it was given does not resolve, or
\* there is no item), failed by a nested step, or with its list done - its own checks may
\* still fail it.
FlowEnds(result) ==
    /\ Running({"if", "retry", "each"})
    /\ \/ Top.laps = 0 /\ (result = "PASSED" => Uses[Top.path] = "each")
       \/ Top.laps > 0 /\ Top.last = "PASSED" /\ Child \notin Paths
       \/ Top.last = "FAILED" /\ result = "FAILED" /\ (Uses[Top.path] = "retry" => Top.laps = MaxTries)
    /\ EndStep(result)

Done == test = "over" /\ UNCHANGED vars

Next ==
    \/ TestStarts \/ TestSkipped \/ NextPhase \/ TestEnds \/ Interrupt \/ Cancel \/ RunEnds
    \/ OpenStep \/ ConditionSaysNo \/ NoImplementation \/ BeginStep
    \/ Asked \/ Suspended \/ Answered \/ Refused
    \/ \E result \in {"PASSED", "FAILED"} : LeafEnds(result) \/ FlowEnds(result)
    \/ TakeBranch("then", "else") \/ TakeBranch("else", "then") \/ Try \/ NextItem
    \/ RunNested
    \/ Done

Spec == Init /\ [][Next]_vars

-----------------------------------------------------------------------------
\* What the operator is shown of a checkpoint is so (ADR-0028, section 5; CheckpointTracker and its
\* QuestionHooks). It is `now` exactly while a frame of the run has its question put
\* and not answered, however the step, the flow steps around it and the test end. attempts counts
\* the times the question was put: a pause, a skipped run and a test run again never add to it or
\* start it over. As soon as a test has ended, also failed in setup, skipped or interrupted, none of
\* its checkpoints is still ahead or now; and one that passed leaves none of its setup and execution
\* failed, timed out or not reached, whatever earlier tries left behind - other than one in a loop,
\* which a later try may leave with no items.  (With the types of the states and frames.)
ShownAsItIs ==
    /\ TypeOK
    /\ \A p \in Planned :
        /\ status[p].state = "now"
            <=> \E i \in DOMAIN stack :
                    stack[i].path = p /\ stack[i].asked = "yes" /\ stack[i].answered # "yes"
        /\ status[p].attempts = puts[p]
        /\ test = "over" \/ (test = "idle" /\ outcome # "none") => status[p].state \notin Open
        /\ test \in {"idle", "over"} /\ outcome = "COMPLETED"
            => \/ p[1][1] = "teardown"
               \/ \E q \in Paths : Uses[q] = "each" /\ IsStrictPrefix(q, p)
               \/ status[p].state \in {"cleared", "skipped"}

\* An answer is kept: a cleared checkpoint changes only with a run of its own step, or
\* with its test starting over - never with the flow step around it, a branch not taken,
\* the end of the test or an interruption elsewhere.
AnswerKept ==
    [][\A p \in Planned :
          status[p].state = "cleared" /\ status'[p].state # "cleared"
            => \/ test # "running" /\ test' = "running"
               \/ \E i \in DOMAIN stack : stack[i].path = p
               \/ \E i \in DOMAIN stack' : stack'[i].path = p]_vars
=============================================================================
