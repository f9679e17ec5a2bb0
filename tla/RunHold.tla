------------------------------- MODULE RunHold -------------------------------
(***************************************************************************)
(* One job of the JobManager (player/jobs.py), the run that executes it    *)
(* (session, phases, steps) and the RunHold that withdraws what the run    *)
(* published while it is paused (player/execution/hold.py).                *)
(*                                                                         *)
(* The host (HTTP routes, labs, the CLI) pauses, resumes and cancels the   *)
(* job between any two turns of the event loop.  The run is one asyncio    *)
(* task: between two awaits it is one action, and setting an Event wakes a *)
(* task that runs only at a later turn ("woken").                          *)
(***************************************************************************)
EXTENDS Naturals, FiniteSets

CONSTANTS Definitions,  \* ids of contract definitions on the connector
          MaxSteps,     \* steps of a phase (setup and execution together are one)
          MaxTests,     \* tests of the TCK
          MaxPauses     \* bound: how often the host pauses

ASSUME RunHoldAssumption ==
    /\ MaxSteps \in Nat \ {0}
    /\ MaxTests \in Nat \ {0}
    /\ MaxPauses \in Nat

VARIABLES
    status,     \* Job.status
    gate,       \* JobManager._pause_events[job]: open when set
    request,    \* JobManager._pause_requests[job]
    held,       \* "yes" when job \in JobManager._held
    offers,     \* RunHold._offers
    connector,  \* contract definitions on the connector
    created,    \* those of them this run created and has not deleted
    withdrawn,  \* local of pause_point: to be restored when the hold ends
    kept,       \* reported by on_job_held: could not be withdrawn
    reported,   \* definitions whose last withdraw or restore was reported as failed
    announced,  \* reported as withdrawn by on_job_held, by no on_job_restored since
    pc,         \* where the run's task is
    caller,     \* who called pause_point: the gate between steps, or a wait
    phase,      \* "main" (setup and execution, gated) or "teardown" (no gate)
    left,       \* steps left in the phase
    tests,      \* tests left, the running one included
    verdict,    \* FAILED once a test failed or was interrupted
    pauses      \* pauses asked for so far (bounded by MaxPauses)

jobVars  == <<status, gate, request>>
dataVars == <<offers, connector, created, withdrawn, kept, reported, announced>>
progVars == <<phase, left, tests, verdict>>
vars == <<status, gate, request, held, offers, connector, created, withdrawn, kept,
          reported, announced, pc, caller, phase, left, tests, verdict, pauses>>

JobStatus == {"QUEUED", "RUNNING", "PAUSED", "COMPLETED", "FAILED", "CANCELLED"}
Terminal  == {"COMPLETED", "FAILED", "CANCELLED"}

\* queued    the job exists, no session was opened for it
\* gate      about to call hold.gate before the next setup/execution step
\* step      in a step that does not wait
\* wait      in a wait for a call or a choice, raced against the pause
\* stopping  until_pause_requested returned; the wait has not called pause_point yet
\* held      in pause_point, blocked on the gate
\* woken     the gate was set under it; the task has not run since
\* between   a test is over, the next one not started
\* close     the tests are over; session.close has not run
\* done      closed (or never opened)
Places == {"queued", "gate", "step", "wait", "stopping", "held", "woken",
           "between", "close", "done"}

Flags ==
    /\ gate \in {"open", "closed"} /\ request \in {"set", "clear"}
    /\ held \in {"yes", "no"} /\ verdict \in {"COMPLETED", "FAILED"}

Books ==
    /\ offers \in SUBSET Definitions /\ connector \in SUBSET Definitions
    /\ created \in SUBSET Definitions /\ withdrawn \in SUBSET Definitions
    /\ kept \in SUBSET Definitions /\ reported \in SUBSET Definitions
    /\ announced \in SUBSET Definitions

Progress ==
    /\ status \in JobStatus
    /\ pc \in Places
    /\ caller \in {"gate", "wait"}
    /\ phase \in {"main", "teardown"}
    /\ left \in 1..MaxSteps
    /\ tests \in 0..MaxTests
    /\ pauses \in 0..MaxPauses

TypeOK == Flags /\ Books /\ Progress

\* JobManager.create; the connector may already hold someone else's definitions.
Init ==
    /\ status = "QUEUED"
    /\ gate = "open"
    /\ request = "clear"
    /\ held = "no"
    /\ offers = {} /\ created = {} /\ withdrawn = {} /\ kept = {} /\ reported = {}
    /\ announced = {}
    /\ connector \in SUBSET Definitions
    /\ pc = "queued"
    /\ caller = "gate"
    /\ phase = "main"
    /\ left = MaxSteps
    /\ tests = MaxTests
    /\ verdict = "COMPLETED"
    /\ pauses = 0

-----------------------------------------------------------------------------
(***************************************************************************)
(* The host's side: JobManager.pause, resume and cancel.                   *)
(***************************************************************************)

\* Mutant of OpenGate: the event that is set is not the one the task waits on.
OpenGateAnew == gate' = "open" /\ UNCHANGED pc

\* Event.set on the gate: a task blocked on it is scheduled, and runs later.
OpenGate ==
    /\ gate' = "open"
    /\ pc' = IF pc = "held" THEN "woken" ELSE pc

Pause ==
    /\ status = "RUNNING"
    /\ pauses < MaxPauses
    /\ status' = "PAUSED"
    /\ gate' = "closed"
    /\ request' = "set"
    /\ pauses' = pauses + 1
    /\ UNCHANGED <<held, dataVars, pc, caller, progVars>>

Resume ==
    /\ status = "PAUSED"
    /\ status' = "RUNNING"
    /\ request' = "clear"
    /\ OpenGate
    /\ UNCHANGED <<held, dataVars, caller, progVars, pauses>>

\* Mutant of Cancel: the pause gate stays closed.
CancelLeavesGate ==
    /\ status \notin Terminal
    /\ status' = "CANCELLED"
    /\ UNCHANGED <<request, gate, pc, held, dataVars, caller, progVars, pauses>>

Cancel ==
    /\ status \notin Terminal
    /\ IF status = "PAUSED"
       THEN request' = "clear" /\ OpenGate
       ELSE UNCHANGED <<request, gate, pc>>
    /\ status' = "CANCELLED"
    /\ UNCHANGED <<held, dataVars, caller, progVars, pauses>>

-----------------------------------------------------------------------------
(***************************************************************************)
(* The run: opening and closing the session.                               *)
(***************************************************************************)

\* TestlabPlayer._open_session: the job is started whatever its status.
Open ==
    /\ pc = "queued"
    /\ status' = "RUNNING"
    /\ pc' = "gate"
    /\ UNCHANGED <<gate, request, held, dataVars, caller, progVars, pauses>>

\* A missing input or an unbindable infrastructure refuses the run.
OpenRefused ==
    /\ pc = "queued"
    /\ status' = "FAILED"
    /\ pc' = "done"
    /\ UNCHANGED <<gate, request, held, dataVars, caller, progVars, pauses>>

\* Mutant of Close: the verdict overwrites the cancellation.
CloseByVerdict ==
    /\ pc = "close"
    /\ status' = verdict
    /\ pc' = "done"
    /\ UNCHANGED <<gate, request, held, dataVars, caller, progVars, pauses>>

\* TckSession.close and finalize_job: a cancelled job keeps its status.
Close ==
    /\ pc = "close"
    /\ status' = IF status = "CANCELLED" THEN "CANCELLED" ELSE verdict
    /\ pc' = "done"
    /\ UNCHANGED <<gate, request, held, dataVars, caller, progVars, pauses>>

-----------------------------------------------------------------------------
(***************************************************************************)
(* RunHold.pause_point, called at the gate between two steps and by a wait *)
(* that the pause interrupted.                                             *)
(***************************************************************************)

PauseRequested == gate = "closed"

\* Not asked to pause: a request left standing is cleared.
PassBy ==
    /\ ~PauseRequested
    /\ request' = "clear"
    /\ UNCHANGED <<gate, status, held, dataVars>>

\* hold(True), then _withdraw: each offer is deleted on its own.  The connector
\* may refuse one, or delete it and fail to say so; either is reported as kept.
\* One that is not there any more answers 404 and is reported as kept too.
TakeDown ==
    /\ PauseRequested
    /\ held' = "yes"
    /\ \E gone \in SUBSET (offers \cap connector) :
         \E ok \in SUBSET gone :
            /\ connector' = connector \ gone
            /\ withdrawn' = ok
            /\ kept' = offers \ ok
            /\ reported' = (reported \cup offers) \ ok
            /\ announced' = (announced \ offers) \cup ok
    /\ UNCHANGED <<jobVars, offers, created>>

\* The finally of pause_point: _restore, then hold(False); made came back.
RestoreOffers(made) ==
    /\ connector' = connector \cup made
    /\ held' = "no"
    /\ withdrawn' = {}
    /\ kept' = {}
    /\ UNCHANGED <<offers, created>>

\* Mutant of PutBack: a definition that could not be restored is not reported.
PutBackSilently ==
    /\ \E made \in SUBSET (withdrawn \cap offers) : RestoreOffers(made)
    /\ reported' = reported \ withdrawn
    /\ announced' = announced \ withdrawn

\* The hold ends with the gate: what was restored (ok) and what was lost is reported by
\* on_job_restored, after the finally.
PutBack ==
    \E made \in SUBSET (withdrawn \cap offers) :
        \E ok \in SUBSET made :
            /\ RestoreOffers(made)
            /\ reported' = (reported \ ok) \cup ((withdrawn \cap offers) \ ok)
            /\ announced' = announced \ (withdrawn \cap offers)

\* The hold ends with the task: the CancelledError leaves after the finally, so
\* on_job_restored is not reached and what is lost is only logged.
PutBackUntold ==
    /\ \E made \in SUBSET (withdrawn \cap offers) : RestoreOffers(made)
    /\ UNCHANGED <<reported, announced>>

GatePasses ==
    /\ pc = "gate"
    /\ PassBy
    /\ pc' = "step"
    /\ UNCHANGED <<caller, progVars, pauses>>

GateHolds ==
    /\ pc = "gate"
    /\ TakeDown
    /\ pc' = "held"
    /\ caller' = "gate"
    /\ UNCHANGED <<progVars, pauses>>

\* The wait lost the race but the gate opened again before it got to pause_point.
StopPasses ==
    /\ pc = "stopping"
    /\ PassBy
    /\ pc' = "wait"
    /\ UNCHANGED <<caller, progVars, pauses>>

StopHolds ==
    /\ pc = "stopping"
    /\ TakeDown
    /\ pc' = "held"
    /\ caller' = "wait"
    /\ UNCHANGED <<progVars, pauses>>

\* The task runs after the gate was set: Event.wait returns without looking again.
Release ==
    /\ pc = "woken"
    /\ request' = "clear"
    /\ PutBack
    /\ pc' = IF caller = "gate" THEN "step" ELSE "wait"
    /\ UNCHANGED <<status, gate, caller, progVars, pauses>>

\* The task is cancelled (a host abandoning the run, Ctrl-C): the finally of
\* pause_point puts back what it can and says nothing, and the run goes on to close.
InterruptHold ==
    /\ pc \in {"held", "woken"}
    /\ PutBackUntold
    /\ pc' = "close"
    /\ verdict' = "FAILED"
    /\ UNCHANGED <<jobVars, caller, phase, left, tests, pauses>>

Interrupt ==
    /\ pc \in {"step", "wait", "stopping"}
    /\ pc' = "close"
    /\ verdict' = "FAILED"
    /\ UNCHANGED <<jobVars, held, dataVars, caller, phase, left, tests, pauses>>

-----------------------------------------------------------------------------
(***************************************************************************)
(* Steps.                                                                  *)
(***************************************************************************)

\* CreateContractDefinitionStep: an offer only when the create was not a 409.
CreateDefinition ==
    /\ pc = "step"
    /\ \E d \in Definitions :
         IF d \in connector
         THEN UNCHANGED <<connector, created, offers, reported>>
         ELSE /\ connector' = connector \cup {d}
              /\ created' = created \cup {d}
              /\ offers' = offers \cup {d}
              /\ reported' = reported \ {d}
    /\ UNCHANGED <<withdrawn, kept, announced>>

\* DeleteContractDefinitionStep: hold.forget whatever the connector answered.
DeleteDefinition ==
    /\ pc = "step"
    /\ \E d \in Definitions, refused \in BOOLEAN :
         /\ connector' = IF refused THEN connector ELSE connector \ {d}
         /\ created' = IF refused THEN created ELSE created \ {d}
         /\ offers' = offers \ {d}
    /\ UNCHANGED <<withdrawn, kept, reported, announced>>

\* Where the run goes after a step: a failing step stops setup and execution
\* (FailurePolicy.STOP), never the teardown (CONTINUE), and only the former
\* fails the test; the teardown follows whatever happened.
StepEnds(ok) ==
    LET last == left = 1 \/ (phase = "main" /\ ~ok)
    IN  /\ verdict' = IF phase = "main" /\ ~ok THEN "FAILED" ELSE verdict
        /\ phase' = IF last /\ phase = "main" THEN "teardown" ELSE phase
        /\ left' = IF ~last THEN left - 1
                   ELSE IF phase = "main" THEN MaxSteps ELSE left
        /\ pc' = IF last THEN (IF phase = "main" THEN "step" ELSE "between")
                 ELSE IF phase = "main" THEN "gate" ELSE "step"

StepPasses ==
    /\ pc = "step"
    /\ \/ CreateDefinition
       \/ DeleteDefinition
       \/ UNCHANGED dataVars
    /\ StepEnds(TRUE)
    /\ UNCHANGED <<jobVars, held, caller, tests, pauses>>

StepFails ==
    /\ pc \in {"step", "wait", "stopping"}
    /\ StepEnds(FALSE)
    /\ UNCHANGED <<jobVars, held, dataVars, caller, tests, pauses>>

\* mock/wait or flow/select, in any phase: the step blocks, racing
\* hold.until_pause_requested.
StartWait ==
    /\ pc = "step"
    /\ pc' = "wait"
    /\ UNCHANGED <<jobVars, held, dataVars, caller, progVars, pauses>>

\* The call came (also in the same moment as the pause, which it then wins).
WaitAnswered ==
    /\ pc \in {"wait", "stopping"}
    /\ StepEnds(TRUE)
    /\ UNCHANGED <<jobVars, held, dataVars, caller, tests, pauses>>

\* until_pause_requested returns: the request is set and the gate closed.
WaitStops ==
    /\ pc = "wait"
    /\ request = "set" /\ PauseRequested
    /\ pc' = "stopping"
    /\ UNCHANGED <<jobVars, held, dataVars, caller, progVars, pauses>>

\* The next test, unless the job was cancelled (_run_scheduled skips the rest).
TestEnds ==
    /\ pc = "between"
    /\ tests' = tests - 1
    /\ IF tests > 1 /\ status # "CANCELLED"
       THEN pc' = "gate" /\ left' = MaxSteps /\ phase' = "main"
       ELSE pc' = "close" /\ UNCHANGED <<left, phase>>
    /\ UNCHANGED <<jobVars, held, dataVars, caller, verdict, pauses>>

\* The job is over; nothing more happens to it.
Over == pc = "done" /\ status \in Terminal /\ UNCHANGED vars

-----------------------------------------------------------------------------
Host == Pause \/ Resume \/ Cancel

\* What the event loop runs by itself once it is ready.
Run ==
    \/ Close
    \/ GatePasses \/ GateHolds \/ StopPasses \/ StopHolds \/ Release
    \/ StepPasses \/ StepFails \/ WaitAnswered \/ WaitStops
    \/ TestEnds

Next ==
    \/ Host
    \/ Run
    \/ Open \/ OpenRefused
    \/ StartWait
    \/ InterruptHold \/ Interrupt
    \/ Over

Spec == Init /\ [][Next]_vars

\* Every step ends (a wait has its timeout) and a ready task is run.
FairSpec == Spec /\ WF_vars(Run)
-----------------------------------------------------------------------------
(***************************************************************************)
(* What holds.                                                             *)
(***************************************************************************)

\* The gate is closed while the job is PAUSED and for no job that goes on: a
\* RUNNING or CANCELLED one never blocks on it.  (A job that was paused in its
\* last phase and then ended keeps its gate closed.)  A request stands only
\* behind a closed gate, so a wait never stops for a pause that is over.
GateMirrorsStatus ==
    /\ status = "PAUSED" => gate = "closed"
    /\ gate = "closed" => status \in {"PAUSED", "COMPLETED", "FAILED"}
    /\ request = "set" => gate = "closed"

\* No offer of the run is lost track of (RunHold._withdraw and _restore). On hold
\* (JobManager.is_held), one still on the connector is one on_job_held reported it could
\* not withdraw. Off hold, one that is not on the connector is never one the host was
\* left to think is there: the last report on it says kept or lost, or still withdrawn.
\* It says withdrawn only in a run whose task was cancelled in the hold, and that run
\* takes no further step.
OffersAccounted ==
    /\ held = "yes" => offers \cap connector \subseteq kept
    /\ held = "no" => offers \subseteq connector \cup reported \cup announced
    /\ held = "no" /\ announced # {} => pc \in {"close", "done"}

\* Where the job and its hold may stand, for the induction: the job is held
\* exactly while its task is in pause_point, a job without a session was never
\* paused, one that is over is terminal, and an offer the hold owes is either
\* up, reported, or in the list to be restored.
HoldWellFormed ==
    /\ held = "yes" <=> pc \in {"held", "woken"}
    /\ pc = "queued" => gate = "open" /\ status \in {"QUEUED", "CANCELLED"}
    /\ pc = "done" => status \in Terminal
    /\ pc \notin {"close", "done"} => tests > 0
    /\ held = "yes" => offers \subseteq connector \cup reported \cup withdrawn
    /\ held = "yes" => announced = withdrawn /\ withdrawn \subseteq offers
    /\ offers \subseteq created

\* Once the session is open, a cancelled job stays cancelled: neither a resume
\* nor the verdict of its tests replaces the status.
CancelKept == [][status = "CANCELLED" /\ pc # "queued" => status' = "CANCELLED"]_vars

\* A run that is not left paused comes to its end: every wake-up of the gate
\* reaches the task held on it, after a resume and after a cancel.
EndsUnlessPaused == <>[](status # "PAUSED") => (pc = "gate" ~> pc = "done")

-----------------------------------------------------------------------------
(***************************************************************************)
(* What the code's own words say and the code does not do.                 *)
(***************************************************************************)

\* get_pause_request: "Set while the job is asked to pause", so that "a pause
\* reaches the step instead of queuing behind its timeout".
PauseReachesWait == pc = "wait" /\ status = "PAUSED" => request = "set"

\* pause_point: "Whatever ends the hold [...] the definitions go back before the run
\* goes on", and on_job_restored tells of those that could not. Not after a task's
\* cancellation: that one is in OffersAccounted only as announced.
HoldEndsTold == held = "no" => offers \subseteq connector \cup reported
=============================================================================
