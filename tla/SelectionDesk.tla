---------------------------- MODULE SelectionDesk -----------------------------
(***************************************************************************)
(* The choices a run puts to its operator: the step that asks and waits    *)
(* through pauses (steps/flow/_selection_wait.py), the board that keeps    *)
(* the job's open question (player/selections.py), and who answers: a host *)
(* over the API, or a person at the terminal whom the desk of              *)
(* player/operator.py asks on a worker thread (cli/_terminal_operator.py). *)
(* The two clocks of a question, the run's and the prompt's, are started   *)
(* apart, and only the run's stops in a hold.                              *)
(***************************************************************************)
EXTENDS Naturals

CONSTANTS Steps,     \* ids of the steps that ask
          Options,   \* ids of the options they offer
          Timeout,   \* timeout_s, in ticks
          MaxAsks,   \* bound: questions asked
          MaxHolds  \* bound: pauses

ASSUME SelectionAssumption ==
    /\ {Timeout, MaxAsks, MaxHolds} \subseteq Nat
    /\ Options \cap {"none", "open", "cancelled", "timeout", "interrupted", "quit"} = {}

Questions == 1..MaxAsks

VARIABLES
    answers,  \* who answers: the host, or the desk of run_with_operator
    job,      \* the job: its status, gate, pause request, pauses so far
    task,     \* the run's task: where it is, the time it has left, the pause it races
    board,    \* the question on the board, 0 when none is open
    question, \* every question: the step, its options, how its future and its wait ended
    prompt,   \* the desk: the question the operator is being asked, and what came of it
    desk,     \* the desk: stopped, and why it aborted the run
    history   \* questions put to the operator, cut short by a cancel, and quits
sVars == <<answers, job, task, board, question, prompt, desk, history>>

NoPrompt == [at |-> "none", of |-> 0, left |-> 0, got |-> "none"]
Unasked == [step |-> "none", options |-> {}, answer |-> "none", ended |-> "no", given |-> "none"]
Nth == task.asked

JobRec == [status : {"RUNNING", "PAUSED", "CANCELLED", "COMPLETED"}, gate : {"open", "closed"},
           request : {"set", "clear"}, pauses : 0..MaxHolds]
TaskRec == [at : {"briefing", "between", "waiting", "held", "woken", "over", "settling", "closed"},
            asked : 0..MaxAsks, left : 0..Timeout, race : {"blocked", "done"}]
QuestionRec == [step : Steps \cup {"none"}, options : SUBSET Options,
                answer : Options \cup {"none", "open", "cancelled"},
                ended : Options \cup {"no", "timeout", "cancelled", "interrupted"},
                given : Steps \cup {"none", "any"}]
PromptRec == [at : {"none", "queued", "asking", "returned"}, of : 0..MaxAsks, left : 0..Timeout,
              got : Options \cup {"none", "quit"}]
DeskRec == [stopped : {"yes", "no"}, aborted : {"yes", "no"}]
HistoryRec == [put : SUBSET Questions, cut : SUBSET Questions, quit : {"yes", "no"}]

STypeOK ==
    /\ answers \in {"host", "desk"} /\ job \in JobRec /\ task \in TaskRec /\ board \in 0..MaxAsks
    /\ question \in [Questions -> QuestionRec]
    /\ prompt \in PromptRec /\ desk \in DeskRec /\ history \in HistoryRec

SInit ==
    /\ answers \in {"host", "desk"}
    /\ job = [status |-> "RUNNING", gate |-> "open", request |-> "clear", pauses |-> 0]
    /\ task = [at |-> IF answers = "desk" THEN "briefing" ELSE "between", asked |-> 0, left |-> 0,
               race |-> "blocked"]
    /\ board = 0 /\ question = [n \in Questions |-> Unasked] /\ prompt = NoPrompt
    /\ desk = [stopped |-> "no", aborted |-> "no"]
    /\ history = [put |-> {}, cut |-> {}, quit |-> "no"]

-----------------------------------------------------------------------------
\* The desk hears step.selecting, unless it is still asking something.
Announce(n, time) ==
    IF answers = "desk" /\ prompt.at = "none"
    THEN /\ prompt' = [at |-> "queued", of |-> n, left |-> time, got |-> "none"]
         /\ history' = [history EXCEPT !.put = @ \cup {n}]
    ELSE UNCHANGED <<prompt, history>>

\* approve_run: shown the checkpoints, the operator lets the run start, or does not.
Approve ==
    /\ task.at = "briefing"
    /\ \E at \in {"between", "closed"} : task' = [task EXCEPT !.at = at]
    /\ UNCHANGED <<answers, job, board, question, prompt, desk, history>>

\* A step with more than one option, or told to ask, opens a question for the job.
AskOperator(step, options) ==
    /\ task.at = "between" /\ Nth < MaxAsks
    /\ task' = [at |-> "waiting", asked |-> Nth + 1, left |-> Timeout, race |-> "blocked"]
    /\ board' = Nth + 1
    /\ question' = [question EXCEPT ![Nth + 1] =
          [step |-> step, options |-> options, answer |-> "open", ended |-> "no", given |-> "none"]]
    /\ Announce(Nth + 1, Timeout)
    /\ UNCHANGED <<answers, job, desk>>

\* until_pause_requested, beside the answer; a request whose gate is open again is stale.
PauseNoticed ==
    /\ task.at = "waiting" /\ task.race = "blocked" /\ job.request = "set"
    /\ IF job.gate = "closed"
       THEN task' = [task EXCEPT !.race = "done"] /\ UNCHANGED job
       ELSE job' = [job EXCEPT !.request = "clear"] /\ UNCHANGED task
    /\ UNCHANGED <<answers, board, question, prompt, desk, history>>

Current == question[Nth]

\* The wait is over: the board closes the question, and the step ends with *how*.
EndsWith(how, at) ==
    /\ question' = [question EXCEPT ![Nth].ended = how,
                       ![Nth].answer = IF board = Nth /\ @ = "open" THEN "cancelled" ELSE @]
    /\ board' = 0
    /\ task' = [task EXCEPT !.at = at]

\* Mutant of Decide: the clock is looked at before the answer.
DecideClockFirst ==
    /\ task.at = "waiting"
    /\ \/ task.left = 0 /\ EndsWith("timeout", "between") /\ UNCHANGED <<prompt, history, job>>
       \/ task.left > 0 /\ Current.answer # "open" /\ EndsWith(Current.answer, "between")
          /\ UNCHANGED <<prompt, history, job>>
       \/ task.left > 0 /\ Current.answer = "open" /\ task.race = "done" /\ job.gate = "closed"
          /\ task' = [task EXCEPT !.at = "held"] /\ UNCHANGED <<board, question, prompt, history, job>>
    /\ UNCHANGED <<answers, desk>>

\* asyncio.wait has returned: an answer counts first, whatever else woke the task; then a
\* pause, which may be over again; then the clock.
Decide ==
    /\ task.at = "waiting"
    /\ \/ /\ Current.answer # "open" /\ EndsWith(Current.answer, "between")
          /\ UNCHANGED <<prompt, history, job>>
       \/ /\ Current.answer = "open" /\ task.race = "blocked" /\ task.left = 0
          /\ EndsWith("timeout", "between")
          /\ UNCHANGED <<prompt, history, job>>
       \/ /\ Current.answer = "open" /\ task.race = "done" /\ job.gate = "closed"
          /\ task' = [task EXCEPT !.at = "held"]
          /\ UNCHANGED <<board, question, prompt, history, job>>
       \/ /\ Current.answer = "open" /\ task.race = "done" /\ job.gate = "open"
          /\ task' = [task EXCEPT !.race = "blocked"] /\ job' = [job EXCEPT !.request = "clear"]
          /\ Announce(Nth, task.left)
          /\ UNCHANGED <<board, question>>
    /\ UNCHANGED <<answers, desk>>

\* The end of pause_point: the question is announced again with the time that was left,
\* unless it was answered in the hold.
GoOn ==
    /\ task.at = "woken"
    /\ task' = [task EXCEPT !.at = "waiting", !.race = "blocked"]
    /\ job' = [job EXCEPT !.request = "clear"]
    /\ IF Current.answer = "open" THEN Announce(Nth, task.left)
       ELSE UNCHANGED <<prompt, history>>
    /\ UNCHANGED <<answers, board, question, desk>>

\* The task is cancelled where it waits, and the run ends.
InterruptWait ==
    /\ task.at \in {"waiting", "held", "woken"}
    /\ EndsWith("interrupted", "over")
    /\ UNCHANGED <<answers, job, prompt, desk, history>>

Finish ==
    /\ task.at = "between"
    /\ task' = [task EXCEPT !.at = "over"]
    /\ job' = [job EXCEPT !.status = IF @ = "CANCELLED" THEN @ ELSE "COMPLETED"]
    /\ UNCHANGED <<answers, board, question, prompt, desk, history>>

\* run_with_operator's finally: a prompt that is still up is told to stop and waited for.
Settle ==
    /\ \/ /\ task.at \in {"over", "settling"} /\ prompt.at = "none"
          /\ task' = [task EXCEPT !.at = "closed"] /\ UNCHANGED desk
       \/ /\ task.at = "over" /\ prompt.at # "none"
          /\ task' = [task EXCEPT !.at = "settling"] /\ desk' = [desk EXCEPT !.stopped = "yes"]
    /\ UNCHANGED <<answers, job, board, question, prompt, history>>

-----------------------------------------------------------------------------

\* SelectionBoard.answer: it is taken when the question is open, is the one of the step the
\* answer names, if it names one, and offers the option.
Takes(value, step) ==
    /\ board # 0 /\ question[board].answer = "open"
    /\ step \in {"any", question[board].step} /\ value \in question[board].options

Answers(value, step) ==
    /\ Takes(value, step)
    /\ question' = [question EXCEPT ![board].answer = value, ![board].given = step]

HostAnswers ==
    /\ answers = "host"
    /\ \E value \in Options, step \in Steps \cup {"any"} : Answers(value, step)
    /\ UNCHANGED <<answers, job, task, board, prompt, desk, history>>

PauseJob ==
    /\ job.status = "RUNNING" /\ job.pauses < MaxHolds /\ task.at # "briefing"
    /\ job' = [status |-> "PAUSED", gate |-> "closed", request |-> "set", pauses |-> job.pauses + 1]
    /\ UNCHANGED <<answers, task, board, question, prompt, desk, history>>

\* Opening the gate wakes a task held at it.
Wakes == task' = [task EXCEPT !.at = IF @ = "held" THEN "woken" ELSE @]

ResumeJob ==
    /\ job.status = "PAUSED"
    /\ job' = [job EXCEPT !.status = "RUNNING", !.gate = "open", !.request = "clear"]
    /\ Wakes
    /\ UNCHANGED <<answers, board, question, prompt, desk, history>>

\* Mutant of CancelJob: the gate stays as it is.
CancelLeavesGate ==
    /\ job' = [job EXCEPT !.status = "CANCELLED"]
    /\ question' = [n \in Questions |-> IF n = board /\ question[n].answer = "open"
                                        THEN [question[n] EXCEPT !.answer = "cancelled"] ELSE question[n]]
    /\ board' = 0
    /\ UNCHANGED <<task, history>>

\* JobManager.cancel of a job that is not over: it withdraws the question and opens the gate.
CancelJob ==
    /\ job' = [job EXCEPT !.status = "CANCELLED", !.gate = "open",
                          !.request = IF job.status = "PAUSED" THEN "clear" ELSE @]
    /\ Wakes
    /\ question' = [n \in Questions |-> IF n = board /\ question[n].answer = "open"
                                        THEN [question[n] EXCEPT !.answer = "cancelled"] ELSE question[n]]
    /\ board' = 0
    /\ history' = [history EXCEPT !.cut = IF board = 0 THEN @ ELSE @ \cup {board}]

JobOver == job.status \in {"CANCELLED", "COMPLETED"}

CancelRun ==
    /\ ~JobOver /\ task.at # "briefing" /\ CancelJob
    /\ UNCHANGED <<answers, prompt, desk>>

-----------------------------------------------------------------------------
\* The operator, on the worker thread.
Returns(got) == prompt' = [prompt EXCEPT !.at = "returned", !.got = got]

\* TerminalOperator.choose: nothing is asked once the run is over.
StartPrompt ==
    /\ prompt.at = "queued"
    /\ IF desk.stopped = "yes" THEN Returns("none") ELSE prompt' = [prompt EXCEPT !.at = "asking"]
    /\ UNCHANGED <<answers, job, task, board, question, desk, history>>

\* An option is given, or typed; the operator quits, the input ends, or they cannot be asked.
Choose ==
    /\ prompt.at = "asking" /\ desk.stopped = "no"
    /\ \/ \E value \in question[prompt.of].options : Returns(value) /\ UNCHANGED history
       \/ Returns("quit") /\ history' = [history EXCEPT !.quit = "yes"]
    /\ UNCHANGED <<answers, job, task, board, question, desk>>

\* The read ends without a line: stopped, or out of time.
NoLine ==
    /\ prompt.at = "asking" /\ (desk.stopped = "yes" \/ prompt.left = 0)
    /\ Returns("none")
    /\ UNCHANGED <<answers, job, task, board, question, desk, history>>

\* _Desk._answer, back on the loop: an abort cancels the job, an option goes to the board,
\* which may refuse it.
DeskAnswered ==
    /\ prompt.at = "returned" /\ prompt' = NoPrompt
    /\ \/ /\ prompt.got = "quit" /\ desk' = [desk EXCEPT !.aborted = "yes"]
          /\ IF JobOver THEN UNCHANGED <<job, task, board, question, history>> ELSE CancelJob
       \/ /\ prompt.got \in Options /\ Answers(prompt.got, question[prompt.of].step)
          /\ UNCHANGED <<job, task, board, desk, history>>
       \/ /\ \/ prompt.got = "none"
             \/ prompt.got \in Options /\ ~Takes(prompt.got, question[prompt.of].step)
          /\ UNCHANGED <<job, task, board, question, desk, history>>
    /\ UNCHANGED answers

\* A moment passes: the run's clock stands still in a hold, the prompt's does not.
Tick ==
    /\ \/ task.left > 0 /\ task.at = "waiting"
       \/ prompt.left > 0 /\ prompt.at = "asking"
    /\ task' = [task EXCEPT !.left = IF task.at = "waiting" /\ @ > 0 THEN @ - 1 ELSE @]
    /\ prompt' = [prompt EXCEPT !.left = IF prompt.at = "asking" /\ @ > 0 THEN @ - 1 ELSE @]
    /\ UNCHANGED <<answers, job, board, question, desk, history>>

SLoop == PauseNoticed \/ Decide \/ GoOn \/ Settle \/ DeskAnswered
SThread == StartPrompt \/ NoLine
SNext ==
    \/ SLoop \/ SThread \/ Tick
    \/ Approve \/ InterruptWait \/ Finish \/ Choose
    \/ HostAnswers \/ PauseJob \/ ResumeJob \/ CancelRun
    \/ \E step \in Steps, options \in (SUBSET Options) \ {{}} : AskOperator(step, options)
SFair == WF_sVars(SLoop) /\ WF_sVars(SThread) /\ WF_sVars(Tick)
SSpec == SInit /\ [][SNext]_sVars /\ SFair

-----------------------------------------------------------------------------
\* The parts of AnswersCount below.
AnswerFitsStep == \A n \in Questions : question[n].given \in {"none", "any", question[n].step}
EndsAsAnswered ==
    \A n \in Questions : question[n].ended \notin {"no", "interrupted"} =>
        /\ question[n].answer \in Options => question[n].ended = question[n].answer
        /\ question[n].ended \in Options =>
               question[n].answer = question[n].ended /\ question[n].ended \in question[n].options
CutEndsAtOnce == \A n \in history.cut : question[n].ended # "timeout"
LeavesNoPrompt == task.at = "closed" => prompt.at = "none" /\ (history.quit = "yes" => desk.aborted = "yes")

\* What the operator said counts (SelectionBoard, await_choice, run_with_operator). An answer the
\* board took is the one the step goes on with, also when it came in a hold, with the clock run out
\* or just before a cancel, and no step goes on with another; a cancel ends the question it finds
\* open, and the step does not wait its time out first. An answer given for one step never decides
\* the question of another, however late it comes and whatever was asked since. And the run leaves no
\* prompt on the terminal, and does not pass over in silence that the operator stopped it.
\* (With the types of the board, the desk and the prompt.)
AnswersCount == STypeOK /\ AnswerFitsStep /\ EndsAsAnswered /\ CutEndsAtOnce /\ LeavesNoPrompt

\* A question ends, unless the host leaves the run paused: by an answer, a cancel or its time.
QuestionEnds ==
    <>[](job.status # "PAUSED") => (task.at = "waiting" ~> task.at \in {"between", "over", "settling", "closed"})

\* Every time a step asks the operator to choose, the operator is asked: in a run nobody
\* cancels, no question times out that was never put to them.
\* The code does not keep this one (README, divergences); no run lists it.
EveryChoicePut ==
    answers = "desk" /\ history.cut = {} => \A n \in Questions : question[n].ended = "timeout" => n \in history.put
=============================================================================
