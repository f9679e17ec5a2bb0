# Formal models of tractusx-testlab

TLA+ models of the TestLab player, its server, its steps and its packages, the TLC configurations that
check them on small instances, and proofs that TLAPS checks for every instance. Paths below are
relative to `src/src/tractusx_testlab/`.

## 1. The system

TestLab runs *technology compatibility kits* (TCKs): packages of tests, each a list of steps in the
phases setup, execution and teardown. The player runs a TCK as one asyncio task; a host (the HTTP
server, an engine that embeds the player, or the command line) starts, pauses, resumes, cancels and
watches it; steps talk to connectors of a dataspace, offer mocks the system under test calls, and
ask an operator to act or to choose.

| Component | State | Operations | What makes it correct |
|---|---|---|---|
| `player/jobs.py`, `player/execution/hold.py` | job status, pause gate, pause request, offers withdrawn for a hold | create, start, pause, resume, cancel, hold, restore | a job that goes on is not blocked; what the run offers is on the connector or reported; a cancel stays |
| `server/callbacks.py`, `steps/mock/_paused_wait.py` | listeners, buffered calls, the future a wait is blocked on | register, resolve, reject, wait, suspend | a call ends one wait; a pause costs no time; no lost wake-up |
| `server/mock_registry.py`, `mock_keys.py`, `inbound/run_scope.py`, `routes/callbacks.py` | routes, guards and keys of all runs | arm, wait, hold, release, answer a call across awaits | a call touches the run it names and no other, and is answered only with the key |
| `player/execution/session.py` | results, the test in progress, the lock, the verdict | run planned tests, run one, skip, interrupt, close | the verdict says what happened; nothing runs after the close; everything is released |
| `server/routes/jobs.py`, `server/streaming/` | pending jobs, queues and ring buffers of the event streams | submit, connect, publish, replay, disconnect, cancel | a job runs once; ids rise; who started a run sees all of it |
| `player/checkpoints/`, phase loop, `steps/flow/` | status of every checkpoint, stack of step frames | ask, answer, end, not taken, test and run end | the checkpoint shown as waiting is the one that waits; nothing stays open |
| `player/selections.py`, `steps/flow/select.py`, `player/operator.py`, `cli/_terminal_operator.py` | open question of a job, prompt on a worker thread | ask, answer, close, stop, abort | a confirmed answer is the one taken; no prompt outlives the run |
| `steps/connector/` (consumer) | negotiation, transfer, address and token variables | negotiate, poll, collect the EDR, one-step flows, call the data plane | settled means settled; a token goes to its own data plane |
| `steps/connector/provision/`, `cleanup.py`, `steps/http/resource_namespace.py` | assets, policies, definitions of several runs | typed and raw creates, deletes | a run offers its own assets only |
| `steps/connector/retirement/` | agreements, the walk over their pages | query, retire | "204" means all of them, and of that asset only |
| `steps/digital_twin_registry/`, `steps/registry_reading.py`, `steps/mock/dtr.py` | the registry, the shells a step has listed and read | lookup, read one by one, register, delete, mock a registry | descriptors are those of the shells listed; what was created stays until deleted |
| `steps/connector/catalog_*`, `datasets_select.py`, `policies.py`, `policy_mismatch.py`, `do_dsp.py` | the catalog, the options shown, the offer taken | query, filter, show, choose, compare, run the flow | the option picked is the offer taken; a mismatch is told as it is |
| `steps/step_contract.py`, `step_extension.py`, `extensions/labs/dataplane_retry.py` | parameters, attempts, outputs published | bind, wrap, execute, repeat, publish | no call more than asked for; the last answer counts |
| `extensions/labs/steps/dynamic_mock/` | a context per call | take a call, run its steps, reply, time out | a reply is of its own call; every caller is answered |
| `logging/` | registered secrets, pins, the compiled pattern, lines held back | register, pin, release, evict, mask, write | no record shows a registered value |
| `player/loading/resolver.py`, `reference_origin.py`, `steps/conditions.py`, `_step_outputs.py` | variables, templates, outcomes of steps | resolve, publish, forget, judge a condition | data is never resolved again; a failed reference is blamed on the right failure |
| `steps/assertions/`, `steps/_checks/` | results and summary of a test | check, extract by path, judge | a check and its opposite agree; paths lead to one value |
| `compiler/validation/` | the issues found | validate tests, then the manifest | what is accepted does not fail for its author's mistake |
| `openapi/`, `extensions/labs/steps/api/` | document and validator caches, the journal of answers, a sweep's table | load, follow references, translate schemas, call, sweep, judge | caches add up; a translated schema means the same; one row per operation |
| `compiler/`, `cli/`, `security/`, `player/loading/`, `server/storage.py` | sources, key files, trust store, package files | keygen, compile, upload, delete, verify, decrypt, load | a load accepts what one compile sealed, and nothing else |
| `player/execution/player.py`, `_binding.py`, `infrastructure_seeder.py`, `infrastructure/`, `services/`, `config/` | deployments, the binding and services of each run, the mock server | configure, register, overlay, activate, open, call, close | a key goes only where it was given for |
| authoring, models, contracts, schemas, syntax | - | - | declarations: section 8 |

**How they interact.** The route of an inbound call reads the registry, the keys and the callback
manager and completes the future a step of the run waits on; the step races that future against
the pause request of the job; the hold withdraws offers before the gate blocks and restores them
after; the monitor hands every event to every connection and to the operator's desk in the turn of
the loop in which a step reports it.

**What is hard here.** Everything but the SDK calls and the operator's prompt shares one event
loop, so the hazards are turns of the loop in an order nobody wrote: an `Event` wakes a task that
runs only later, when the event may be clear again; a future may be done while the task that waits
on it is not; a request is overtaken while its body is read. A background mock server adds a real
thread. Connectors move on their own, and answer late, partly or not at all.

## 2. Modules

| Module | Models | Variables and actions |
|---|---|---|
| `RunHold` | one job, its run and its hold | `status`, `gate`, `request` are JobManager's; `offers`, `connector`, `withdrawn`, `kept`, `reported` the books of RunHold, `announced` what the host last heard of as withdrawn; `pc` is where the task stands between two awaits. `Pause`/`Resume`/`Cancel` are the host, `GateHolds`/`StopHolds`/`Release`/`Interrupt` are `pause_point` up to and after its await, `StepPasses`... the phases |
| `CallbackWait` | one listener address and one wait across pauses, on a modelled loop | `ready` is the loop's FIFO, `RunHandle` runs its first handle; the tasks M (step), W (`manager.wait`), P (`until_pause_requested`); `Resolve`/`Reject` come from the route, on the loop or on a thread |
| `InboundCalls` | calls to the mocks of several runs | the tables of registry, keys and manager; `Answer` is the route up to its first await, `BodyRead`, `Matched`, `HandlerReturns`, `HandlerRaises` the rest; `Arm*`, `Wait*`, `Hold`, `Release*`, `Forget*` are the runs |
| `TckSession` | one session shared by tasks | `queue` is the lock's FIFO; `RunTest`, `TestEnds`, `Skip`, `Interrupt`, `Close`, `CloseRaises` |
| `EventStream` | job API and server-sent events | `RunYaml`, `RunPackage`, `Connect`, `Replay`, `Take`, `TimeOut`, `Disconnect`; `Publish` dispatches to every live queue |
| `Checkpoints` | one test and its checkpoints | a path is a sequence of places (the key of a step list and an index); `stack` of frames; `OpenStep`, `BeginStep`, `Asked`, `Answered`, `LeafEnds`, `TakeBranch`, `Try`, `NextItem`, `FlowEnds`, `TestEnds`, `RunEnds`, `Interrupt` |
| `SelectionDesk` | choices put to the operator | `task` is the waiting step, `board` the question kept, `prompt` the worker thread; `Decide` is the turn in which `asyncio.wait` has returned, `DeskAnswered` the desk's done-callback |
| `DspExchange` | consumer steps | the connector (`neg`, `xfer`, `plane`, `push`), the step that polls, the run's variables, what was sent where |
| `ProviderResources` | provisioning of several runs | the resources of one connector; ids are sequences, so that a prefix is a prefix |
| `AgreementRetirement` | retirement of an asset's agreements | `walk` over the pages while `Sign` adds agreements |
| `CallDelivery` | what the callback manager promises | the abstract specification of `CallbackWait`: calls taken or refused, waits ended by a timeout or by a call that ended no other |
| `TwinSteps` | digital twin registry steps | `shells` changes under the step; one action per HTTP call |
| `MarketSteps` | from a catalog to an offer | `datasets`, `shown`, `chosen`, `deal`, `said` |
| `StepInvoke` | the invocation of a step | `InvokeExtended`, `CallAnswers`, `CallRaises`, `SleepOver`, `SendNotification`; a provider query and its pages (`QueryAnswers`) |
| `DynamicMock` | calls answered by steps | one context per call beside the run's; `ProcessTimesOut` is the server thread |
| `Secrets` | masking and records | `pins`, `kept_`, the pattern and its stale flag; records written by threads |
| `Resolution` | names, templates, conditions, outcomes | `names` maps each reference to a tagged value; `ResolveStr` is a function of how deep templates may still nest; a run is repeated so that an earlier test has left something |
| `Assertions` | checks, paths, verdict of a test | pure operators over tagged values, and the loop over the steps |
| `Validation` | `compiler/validation` | a document is judged, then played: `met` is what the run of an accepted one meets; steps inside steps are looked at level by level (`Levels`), down to `MaxNesting` |
| `ApiDocuments`, `ApiSchemas`, `ApiCalls` | API files and the calls by them | threads that load and index without the lock; what a schema of OpenAPI 3.0 is translated to (pure operators); the sweep with its gate and budget |
| `PackageLife` | keys, compile, store, load | one action per file read or written |
| `RunSetup` | the opening of a run | `profiles`, `active`, `run`, `server`; `OpenSession` is one action since `_open_session` has no await |
| `MC...` | instances for TLC | one or more components per module, one of them per behaviour: `part` is chosen at the start, the others stand still. The components of one instance share no state |
| `SequenceFilter` | the filtering of a sequence by a set, as a recursive function | used where a list is filtered in code and a theorem needs to know what is left |
| `...Proofs` | theorems | section 6 |

An operator whose comment begins "Mutant of" is not part of a specification: it states a plausible
bug of the definition that follows it, and PROJECT.json pairs it with the property that finds it.

Abstractions. Payloads, headers, wording and logging are left out. Ids are model values or short
sequences. Time is counted in ticks; a call takes some ticks, a sleep exactly its interval. What
the connector, its counter-party and the system under test do is nondeterministic.

## 3. Runs

| Run | Shows | Bounds, and why they are enough |
|---|---|---|
| `jobs` | hold: `GateMirrorsStatus`: a job that goes on is never blocked at its gate and no request outlives its pause. `OffersAccounted`: in a hold what is still on offer was reported; after it every offer is up, or the last report on it says that it was kept, lost or (only where the task was cancelled in the hold, and the run goes no further) withdrawn. `CancelKept`. `EndsUnlessPaused`: a run not left paused ends. Session: `CloseTells`: the verdict of a plain run says what failed and what cut it short, and a close that raised has released everything. `RequestServed` | 2 definitions (one withdrawn, one refused), 2 tests of 2-step phases, 2 pauses (a second one while the first is being left); 3 tests (planned, on demand, skipped), 3 tasks, 2 requests |
| `callback_wait` | `WaitsOnListener`: the manager's entry is what the wait is blocked on, none in a hold, and a timeout is spent in full. `DeliversCalls`: `CallbackWait` implements `CallDelivery`. `WaitEnds` | 2 calls, 2 rounds of arming and waiting, 2 pauses, 1 tick: a second call meets a buffered, a running or a later wait |
| `inbound` | `OnlyNamedRunTouched`, also that an answered call carried the key; `TablesFollowRun`: one key per run, and nothing kept for a run that ended | 2 runs with one path in common, 2 paths, 2 methods, one call overtaken at each await (calls share nothing but the tables), a key table of 1, 2 armings |
| `stream` | `RunsOnce`, `StarterMissesNothing`, `MonotonicIds` with the ring as an unbroken tail | 2 jobs, 2 connections, 2 events before the end of a run, a ring of 2, so that it wraps; symmetry in jobs and connections |
| `operator` | `ShownAsItIs`, `AnswerKept` of checkpoints; `AnswersCount`, `QuestionEnds` of choices | one test with each kind of flow step nested in another, 2 tries, 2 items, 2 runs of the test, 1 pause; 2 asking steps, 2 options, 2 questions (a stale answer needs two), 1 hold |
| `dataspace` | `ReportedTruly`, `TokenStaysHome`, `OffersOwnAssets`, `DoneMeansRetired`, `StepsEnd` | 2 data planes and 2 contracts (to mix them up), 3 steps, 2 polls in a wait and calls of up to a tick; 2 runs with the same written id, 3 creations; pages of 2, 2 pages, 4 agreements, so that the page limit is met |
| `steps` | `TwinTold`, `OffersTold`, `RepeatsTold`, `NoSecretWritten`, `CallAnswered` | 2 shells, 2 links, 3 steps; 4 catalogs with missing, double and place-like ids; 3 attempts; pages of 2; 2 calls of 2 steps; 2 runs, 2 values of which one is short, a memory of 2, so that values are evicted |
| `language` | `TextStaysText`, `BlameIsOfThisTest`; `ChecksAgree`; `AcceptedRuns`; `CacheAddsUp`, `TranslationKeepsMeaning`; `SweepTellsEach`, `JudgesThisTest` | 2 runs of a test, nesting of 2 (the code's 16); values of each kind, trees of lists (also a list in a list) and mappings, with paths of up to three segments: keys, digits, brackets, negative numbers and predicates; packages that differ from a good one in a reference, condition, check, variable, mark or a token a step publishes, nested up to two deep; 2 threads, 3 loads, caches of 2; schemas nested once; 2 tests, sweeps of 4 operations, whose answers arrive in any order and may raise while they are judged, a journal of 2 |
| `package` | `LoadedAsSealed`, `GoodPackageLoads`, `ManifestTellsContent`; `KeysStayHome` | 2 tests with a file beside the index, 3 key directories of which one has no post-quantum pair, 2 compiles, 3 disturbances (edits, crashes, new keys, mixed packages), 1 load; 2 runs (the second a plain one), 3 layers, 7 inputs, 4 packages, 2 acts of the host while runs are open |
| `lost_pause`, `call_loses_to_pause`, `skipped_counts` | the findings of section 5 | the instance of the passing run |

The type invariant of a module is the first conjunct of one of its invariants (named in its comment), or
part of what TLC evaluates when it builds the records of the state; for the run of a job it is also a theorem (`TypeCorrect`).

Deadlock checking is off where the system may stop for good: clients that do not come back (`stream`),
sessions, runs and tests that are over (`jobs`, `operator`, `language`), no step left to run
(`dataspace`, `steps`), no disturbance or load left (`package`).

## 4. Fairness

Safety properties need none. The liveness properties assume only this:

- the event loop runs a ready handle, and a timer that is due fires (`WF` on `Run`, `RunHandle`,
  `TimerFires`, `Tick`, `SLoop`): asyncio's loop is a FIFO of handles;
- a worker thread that was given work returns from a read that has timed out or was stopped
  (`SThread`): `read_stdin` looks at both every `SLICE_S`;
- the session's lock is handed on in the order it was asked for, and a test ends (`WF` on `Serve`);
- the server thread that waits for the reply of a dynamic mock comes back when its time is up (`WF`
  on `ProcessTimesOut`): `Future.result(timeout)`;
- a step that polls makes its next move (`XStepMoves`, `RStepMoves`): each is a call with a timeout
  or a sleep. No fairness is assumed of a call that fails, of the connector, of the
  counter-parties, or of the host: `EndsUnlessPaused`, `WaitEnds` and `QuestionEnds` are
  conditional on the host not leaving the run paused.

## 5. Findings and divergences

Three runs show behaviour that the code's own documentation rules out:

1. `lost_pause` (`player/execution/hold.py:183`): pause, resume, pause before the held task has run
   again: `pause_point` clears the new request, the job is PAUSED, and the wait it returns to does
   not stop.
2. `call_loses_to_pause` (`steps/mock/_paused_wait.py:107`): a call answered as accepted between
   the pause and the turn of the racing task is thrown away, since the race asks the task and not
   the future it waits on.
3. `skipped_counts` (`player/execution/_declared.py:44`): a skipped step counts as declared when
   another step with the same `uses` ran, and a test that passed fails.

Divergences met while modelling, for which there is no run; the models do what the code does. Thirteen
are stated in the modules, as claims the code does not keep (TLC finds each violated when it is put
into the cfg of the run):

- `InterruptedEndsCancelled` (`player/execution/session.py:267`): in an open session an interrupted
  test is forgotten as soon as another one runs.
- `ReconnectMissesNothing` (`server/streaming/lifecycle.py:113`): events published while no client is
  connected are in no buffer, so `Last-Event-ID` cannot replay them.
- `EveryChoicePut` (`player/operator.py:181`): a choice asked while an earlier prompt is still up is
  never shown to the operator.
- `ReadsOwnTest` (`player/execution/_step_outputs.py:218`): only the steps listed in the phases have
  their outputs dropped, so a nested step's output of an earlier test or attempt is still read
  (`docs/tck-syntax/steps/expressions.md:27`).
- `HoldEndsTold` (`player/execution/hold.py:184-191`): when the task is cancelled in a hold, the `finally`
  puts back what it can, but `on_job_restored` is not reached: a definition that could not be created
  again is only logged (`:224`), and for the host it was withdrawn for the hold.
- `StatusMeansRetired` (`steps/connector/retirement/asset_agreements.py:86-90`): a page of the inventory
  that is answered 204 is a failed query, reported with its own status, 204, with nothing retired; the
  field promises "204 when all succeeded or none matched" (`:62`). Only `error` tells the two apart.
- `AcceptedCredentialsPlaced` (`compiler/validation/_credential_references.py:53`): only the keys of the
  bindings are looked for. An `edr_token` that a step publishes is a credential as well
  (`steps/connector/dataplane.py:171`): a reference to it in a URL or a body is accepted, and the run
  refuses the step with `CredentialMisuseError` (`player/loading/resolver.py:150-159`).
- `SweepKeepsTable` (`extensions/labs/steps/api/calls/api_sweep.py:268-275`): an answer that cannot be
  decoded or judged raises outside the `try`; the task group cancels the other calls and the table is
  lost ("keeps the table either way", `:148-149`, and `docs/api-reference/steps/labs/http.md`).
- `AcceptedConditionHeld` (`compiler/validation/_conditions.py:185`): three kinds of names are taken for
  something a condition of the run can read: what the steps of a mock's calls publish, a step that has
  not run yet, named whole (`vars.execution.<id>`), and `vars.env.apis.<id>` (the run binds only
  `apis.<id>`, `_env_assets.py:136`). Such a condition is false in every run.
- `FollowsWhatItLoaded` (`openapi/operations/pointers.py:100`): a percent-encoded `$ref`, and a chain of
  exactly 32, are accepted by the loader and not followed later.
- `WritesHaveOwnEntry` (`extensions/labs/steps/api/calls/sweep_plan.py`): operations of two paths that
  share a path item share one entry, so a write listed for one path is sent to the other.
- `HashIsOfTheTestThatRuns` (`compiler/ir/_instructions.py:177`): a file beside the index is hashed and
  compiled in place of the one under `tests/`, which is the one bundled and run.
- `MocksServed` (`player/execution/player.py:279`): the close of any run stops the mock server the player
  started, but leaves the callback manager set; a run that is still open, or opened later by the same
  player, has no mock server.

The others:

- `player/jobs.py:104`: a job cancelled while queued is started all the same (`:192` "it starts
  nothing more").
- `steps/connector/cleanup.py:171`: a delete the connector refuses still makes the hold forget the
  definition (`hold.py:33`).
- `steps/mock/_paused_wait.py:81`: a wait in a teardown can be held (`phase.py:150` says teardown
  cannot be paused).
- `server/callbacks.py:157`: `resolve` is not safe on the thread of the mock server: the second of
  two calls may raise in `set_result` (`:150`). `CallDelivery.Upset` says when.
- `server/routes/callbacks.py:188`, `:208`: on that thread a key may be replaced, and the mock
  located again, between two reads of the tables (`mock_registry.py:120`, `:140`).
- `server/routes/callbacks.py:172`: a hold is looked at once, before the awaits; a call that came
  before the hold is answered in it (`:123`).
- `server/callbacks.py:167`: a call matched before its run was released may be buffered after
  (`mock_registry.py:242`).
- `server/mock_keys.py:81`: with a full table a run is given a second key (`:72`).
- `player/execution/session.py:256`: skipping a test replaces the result it had from a run on
  demand (`:211`, `:213`).
- `server/streaming/lifecycle.py:61`: a stream shows the events of other jobs and is closed by their
  end (`streaming/routes.py:208`).
- `server/routes/jobs.py:134`: the job a package run returns is not the one that runs
  (`player.py:166`).
- `server/streaming/routes.py:172-188`: the end of a run is emitted twice, and a cancelled job is
  failed.
- `player/execution/_step_outputs.py`: `forget_outputs` drops qualified names only; a teardown
  delete that falls back to a flat variable may name what an earlier attempt made. The delete
  steps take ids as they stand, without the namespace of the run.
- `steps/connector/_polling.py:139`, `transfer_processes.create` and the provider creates call the
  network on the loop, not through `sdk_call.run`.
- `steps/connector/dataplane.py`: `get_edr` reports 200 and passes without output when the
  connector cannot be reached; older variables stay. `TokenStaysHome` holds all the same.
- `steps/connector/_polling.py:71`: STARTED is a final state of a PUSH as well, so a PUSH that fails
  after it has passed (`:70` "COMPLETED is what a PUSH transfer settles at").
- `steps/connector/do_dsp.py`: `_build_output` raises where DspFlowOutput promises a 500;
  `pull_data`'s `catalog` need not be the one the offer was taken from.
- `steps/connector/provision/_shared.py:85`: an error text with 409 anywhere in it is an existing
  resource. `steps/http/resource_namespace.py:46`: the raw guard covers POST only.
- `player/selections.py:82`: an answer to a replaced question is taken when the same step asks
  again (a retry) and offers that option; if it does not, the ValueError is lost in the desk's
  callback. After a long hold the prompt gives up before the step does (`player/operator.py:191`).
- `extensions/labs/steps/for_each.py`: with no items in a later attempt the failure an earlier
  attempt left stays in a passed test.

- `steps/mock/dtr.py`: a mock registry given two descriptors of one id answers by the first and lists
  both.
- `extensions/labs/dataplane_retry.py`: a retry publishes the fields of earlier attempts that the last
  one did not return.
- `player/loading/reference_origin.py`: a step without an implementation is blamed on the system under
  test.
- `steps/assertions/operands.py`: `one_of` compares strictly while `equals` also compares text.
- `compiler/validation/_variable_references.py`: a reference to a later step is accepted
  (`expressions.md:28` "is a compile error"); credentials named in test data are not looked at,
  though the step that reads them is refused with `CredentialMisuseError`; a reference that goes on
  below a credential is accepted by its root and is unresolved in the run; `source: generated` is
  accepted and never seeded.
- `openapi/document.py:110`: the cache key of a document lacks its media type.
- `openapi/exchanges.py`: `api_errors` judges the answers the journal still has, not all of them.
- `steps/connector/datasets_select.py:112`: the id an option is told apart by is not looked up again, so an
  offer whose own id ends in `#n` could share it, and the first of the two would be taken for both
  (`MarketSteps` has no such ids).
- `steps/connector/policy_mismatch.py:96`: a constraint a policy states twice is counted twice, so among such
  policies the one named need not be the closest by what would have to change ("differs from least",
  `:171`). `OffersTold` speaks of policies that state nothing twice.
- `steps/util/json_extract.py:92-98` takes `[0]` and a negative index, which `extract_path` answers with null
  (`steps/_checks/extraction.py:169`); a predicate over a list that lies directly in a list finds an
  element for a check (`:157-162`) and none, or another, for `json_path_extract` (`:57-62`).
  `ChecksAgree` says what is left of their agreement.
- `compiler/compiler.py:62`: validation, plan and bundle read the test files one after the other, so an edit
  in between is sealed without an error. `ManifestTellsContent` speaks of compiles whose sources stood still.
- `cli/_tck_packager.py:75`, `player/loading/loader.py:73`: a test deleted between validation and bundling is
  left out without an error. `server/storage.py`: packages are listed with the stem as name and no
  version. `player/execution/player.py:145`: an error that is no ValueError is not told by
  `on_package_verify_failed`.
- `player/execution/infrastructure_seeder.py:185`: a `name` of the engine's connector is registered ahead
  of the system under test, and a provider step then finds the engine (`:176` "registered ahead of
  the engine's own").
- `models/domain/capabilities.py:242`: a connector under test with a management URL and no DSP URL is
  not bound, so a configured key of it is neither masked nor published as a handle while a service is
  built with it.
- `player/execution/_binding.py:126`: only names of the model are unset, not "every other
  `infrastructure.*` name".
- `player/execution/player.py:189`: a value that is not of its type raises while the context is seeded,
  before the `try`, and leaves the job RUNNING ("with the job failed").

## 6. Proofs

TLAPS checks the following for all values of the constants that satisfy the named assumption of the
component (bounds are natural numbers, most of them not 0; sets that are counted are finite; a name
that stands for "none" is not one of a run, job or stream). All but one are not inductive as they stand; the
strengthening and what it is needed for:

| Module | Theorem and property | Inductive invariant |
|---|---|---|
| `JobsProofs` | `GateSafe` (`GateMirrorsStatus`), `AccountedSafe` (`OffersAccounted`), `TypeCorrect`, from `Invariance` | `IInv` adds `HoldWellFormed`: what a hold wrote down before its await (`withdrawn`, `kept`) fits where the task stands and what is on the connector. `TakeDownKeeps` and `PutBackKeeps` are the two halves of `pause_point`; a hold that ends with its task leaves `announced` as it was, and the run at its close |
| | `CancelStays` (`CancelKept`) | none: an action property of each action by itself |
| | `ClosedTells` (`CloseTells`), `ClosedSessionStays` (the safety part of `RequestServed`) | `SessionInv`: who is in a test holds the lock, the queue has each waiting task once, nobody is in a test of a closed session; in a plain run `RunFits` ties the results to the latest attempts before the close, and `Told` after it |
| `CallbackWaitProofs` | `WaitsAlwaysOnListener` (`WaitsOnListener`), `CallsAreDelivered` (`DeliversCalls`) | `WaitInv`: which handles may be in the loop's queue for a task in each of its states, that a current future and the listener are the same, and that each call is in one place only: the buffer, a future, or the end of a wait |
| `ServerProofs` | `CallsTouchNamedRun` (`OnlyNamedRunTouched`), `TablesAlwaysFollow` (`TablesFollowRun`) | `InboundInv`: a guard is a key minted for its run, a run with two keys was evicted from a full table (by counting, `EntriesCounted`), routes belong to runs that are not over, and what a call has read before an await is of the run it named |
| | `StartedOnce` (`RunsOnce`) | `OnceInv`: a pending job has not been started: `Connect` takes it out of `pending` in the turn in which it starts it |
| | `StarterNeverMisses` (`StarterMissesNothing`), `IdsAlwaysRise` (`MonotonicIds`) | `StreamInv`: the ring is the tail of what was numbered up to the counter, what a connection sent rises up to it, and what is queued comes after what was sent |
| `OperatorProofs` | `OperatorSeesWhatIs` (`ShownAsItIs`), `AnswersAreKept` (`AnswerKept`), from `CheckpointsAlways` | `CheckpointsInv`: a frame lies under the one below it (`StackShape`), what it counted of laps, tries and questions is what the table shows of its path (`FramesAgree`), what comes after the place of a phase is `ahead` (`AheadOfRun`) and what came before is settled (`PhasesSettled`). `Unwound`, what an interrupt makes of the frames from the top down, is reasoned about by induction on how many are left (`UnwoundFacts`) |
| | `AnswersAlwaysCount` (`AnswersCount`) | `DeskInv`: the board shows the question of the step that waits, questions are asked in order, the desk and its prompt are at one that was asked, and what a cancel cut is not open |
| `DataspaceProofs` | `TokensStayHome` (`TokenStaysHome`) | `TokenInv`: address and token may be of different exchanges, so no invariant links the two; each token is *bound* to the data plane of its own EDR, and that never changes once it is known |
| | `ReportsAlwaysTrue` (`ReportedTruly`) | `ReportInv`: also what a step has seen so far is something the connector was in, and what is settled stays |
| | `OffersStayOwn` (`OffersOwnAssets`) | `ProvInv`: an id has the prefix of its run, and every selector has a criterion within the prefix. That a prefix names one run is `ProviderAssumption` (run ids are no parts of written ids) |
| | `RetiredWhenDone` (`DoneMeansRetired`) | `RetInv`: the pages read so far are the rows up to the place of the walk, so a complete inventory has all that was signed before it, and one that reports an error retired nothing; uses that a filter keeps order and skips nothing |
| | `TwinAlwaysTold` (`TwinTold`) | `TwinParts`: the pages of an undisturbed walk are the registry from its first shell on (`ListingFits`), the descriptors of a lookup are of ids it has come to, in their order (`LookupFits`), and what a step was told is there has not been deleted (`ToldHolds`) |
| `StepsProofs` | `NoSecretIsWritten` (`NoSecretWritten`) | `SecretsInv`: the pattern is marked out of date or masks all that ought to be masked (`CurrentIsOught`); what the console holds back has an owner; an event of the trace is numbered by its place and its id counts those like it before it |
| | `RepeatsAlwaysTold` (`RepeatsTold`) | `RepeatsInv`: an invocation that goes on has attempts left, and the pages a query has read were full and are the entries from the first on, as long as nothing was added (`PagesFit`) |
| | `TextIsNeverReread` (`TextStaysText`), `BlameStaysInTheTest` (`BlameIsOfThisTest`) | `ResolutionInv`: what is still a template is the package's own, and what an outcome is blamed on has failed in this test. `ResolveStr` is the one solution of its equation (`RepliesExist`), by which the lemmas on it are inductions on the depth |
| | `CacheAlwaysAddsUp` (`CacheAddsUp`) | `ApiCacheInv`: the bytes that are counted are the sum of the documents kept (`Bytes`, by induction), between any two steps of the threads |
| | `OnlyThisTestIsJudged` (`JudgesThisTest`) | `JournalInv`: every answer the journal keeps is one this test received, with the status it had |
| | `SweepsTellEach` (`SweepTellsEach`) | `SweepInv`: the operations in scope wait, are in flight or have their row, each in one place only; what is in flight has been sent, what waits has not, and a row says what was sent and heard of its own operation (`RowTells`, through `Tells`); the table is then the rows in the order of the document (`SweepEndsTells`) |
| | `OffersAlwaysTold` (`OffersTold`) | `MarketInv`: the options on show are those of the datasets published last. An option is told apart from those before it, by induction on them (`NextIsToldApart`: an id has two parts, or a third that is its place), so the id that comes back finds its own pair (`ChooseTells`); what one policy has over another is a set as large as the list the code makes of it (`WithoutCounted`), so the fewest differences are the fewest changes (`ClosestIsLeast`, `DifferencesAreChanges`) |
| `PackageProofs` | `KeysAlwaysHome` (`KeysStayHome`) | `SetupInv`: what an open run holds is what `_open_session` makes of the `base` and the inputs it keeps beside it, and its overrides are movable; what was sent last is of a run that is still open |
| | `LoadsOnlySealed` (`LoadedAsSealed`) | `PackInv`: every compile's entries are sealed, its content key is its own, and it is signed and wrapped under it; a plain file whose digest holds is the whole of one compile (`SealTells`); an encrypted one is made of parts of such; a load past its signature check holds the manifest of one compile, so the payload its key opens is of that compile (`PayloadTells`), also when the file was replaced in between |
| | `GoodPackagesLoad` (`GoodPackageLoads`) | `LifeInv`: the directories of two players have no key in common (`OwnDirs`: keys are counted); what each place of a compile that nobody disturbed has read is what the source holds (`BuildKnows`); the packages of such compiles open for those they are sealed for (`MadeKnows`); a load that nothing disturbed has its file still before it, and if it refuses it, the reason can be read off that file (`LoadKnows`, `Refusable`) |
| | `PackagesTellContent` (`ManifestTellsContent`) | `TellInv`, on top of `LifeInv`: what a compile has read are texts, and once it has bundled the sources of a tree nobody edited it tells of its files as they are (`BuildTells`, `QuietTells`). Apart from the states, a plan is numbered through: the plans of phases one after the other (`PhaseIsNumbered`, `JoinedPlans`), and the largest place at which a symbol is returned is one of those places (`LargestIsOne`, `TextTells`) |
| | `AcceptedAlwaysRuns` (`AcceptedRuns`) | `WInv`: from `checked` on the findings are those of the tests, and of an accepted TCK those of tests and manifest hold no error (`NoError`). Then, for a step of the test: every credential in it and in the steps inside it is the whole of a header (`AcceptedFree`, `NoMisuse`; a credential of a binding or of the manifest: those its steps are issued the validation does not look for, section 5); and a condition names a variable, a binding, a file or what a step before it returns (`ConditionNames`), each of which the run holds or is among `OverlookedAt`, which speaks of the run alone and not of the validator's sets (`EarlierSteps`) |

`SequenceFilterProofs` holds the lemmas the others share: what `Filter` keeps, of the empty sequence, of
an appended one, by sets that agree, and what `Joined` makes of sequences. They are inductions over the natural numbers, taken from the
least element of a set of counterexamples (`LeastNatural`, `SetInduction`), which needs no operator
as a parameter.

The models are written so that they can be reasoned about: filters are `Filter` or a set, sums and
nestings are functions on the numbers up to a bound (`Bytes`, `Unwound`, `ResolveStr`, `Levels`,
`Scoped`), and RECURSIVE operators are in modules no theorem needs (`Assertions`, `ApiSchemas`).
A search in a sequence (`FoldSet`, `Filter` where a loop picks or drops elements) is translated as what it
finds. `Judgement` tells the run of the verdict of a test from the other assertions.

What is assumed of the constants, besides bounds: `PathsAssumption` (the steps of a test are a tree: those
that hold a step, and those before it in its list, are steps too), `ApiDocumentsAssumption` and
`ApiCallsAssumption` (documents have a size, answers a status; a document lists its paths and a path item
its operations), `PackageAssumption` (no two directories of the beginning have an encryption key in
common), `SourcesAssumption` (a file that is there is one of the texts), `MarketAssumption` (a dataset has
as many offers at most as there are places to number), `TwinAssumption`, `ValidationAssumption` (phases are lists, and no step is nested deeper than
`MaxNesting`). TLC evaluates each on the instance of its run.

Left to TLC, and why:

- liveness, and everything else that speaks of fairness or ENABLED: `EndsUnlessPaused`, `WaitEnds`,
  `QuestionEnds`, `StepsEnd`, `CallAnswered`, the second part of `RequestServed`;
- `ChecksAgree` and `TranslationKeepsMeaning`: statements about recursive operators on trees of values and
  of schemas, for which the provers have no induction; they hold of the trees and values of the run.

The refinement. `CallbackWait` instantiates `CallDelivery` with what it keeps of calls and ends, and
`DeliversCalls` is the abstract specification as a property: registering, racing, holding and resuming
are stutters, the turn in which `resolve` or `reject` answers is `Tell`, the end of a wait is `WaitOver`.
TLC checks it on the instance of `callback_wait`; `CallsAreDelivered` proves it, step by step.

## 7. Plan

Done: jobs and holds, waits and their abstract specification, inbound calls, sessions, streams,
checkpoints, choices, the connector, registry and market steps, the invocation of steps, masking, the
language of a TCK and its validation, API files and calls, packages, the opening of a run. Next:

1. Abstract specification of a package's life (only what was sealed is loaded) and of a session's
   verdict, refined by `PackageLife` and `TckSession`.
2. Registries in `RunSetup`, participants, the console window and the summary of a run.

## 8. Not modelled

- Cryptography (taken as perfect), TLS, HTTP framing, JSON Schema validation and YAML parsing:
  libraries, or data without control that the properties depend on.
- Authoring, models, contracts, schemas, syntax, and the layout of terminal output: declarations and
  text. What they rule out is in `Validation`.
- In the compiler: global symbols (`compiler/ir/_symbols.py`), fingerprints of the build, names that
  leave the package directory; in the loader: the vault.
- Command-line options and prompts beyond `compile` and `keygen`; the tools under `src/tools/`.
- `services/participants.py`: BPNs kept in one file, without concurrency.
- `JobManager.wait` and the WAITING status, `allow_timeout` of `poll_until_terminal`: nothing in the
  code uses them.
- The background mock server has no player, so `on_hold` never answers for it; queues of SSE
  responses that are over; redirects of data-plane calls; PUT requests on provider resources; the
  bodies of notifications.
