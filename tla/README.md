# Verification of multi-agent-framework

TLA+ models of the framework's core, the TLC runs that check them on small
instances, and TLAPS proofs for every value of the constants.

    tlc -config Run_race.cfg RunMC          # one run of PROJECT.json
    tlapm RunLifecycleProofs.tla            # proofs; also RunOperatorProofs, RouterProofs,
                                            # ExecutionProofs, CreationProofs, LibraryProofs,
                                            # QueueProofs, UIProofs

## 1. The system

The framework executes *runs* of *workflows*. A workflow is a list of steps,
each made by a language model or by a human with an external tool; some steps
are checkpoints an operator reviews. Everything durable is in one SQLite
database; a worker thread executes queued runs; operators act through the HTTP
API, the command line or the web interface.

| Component | State it keeps | Operations | Hard behaviour | What makes it correct |
|---|---|---|---|---|
| Engine and worker (`workflow_engine.py`, `worker.py`) | locals of `process_run`: step index, attempt, `fresh` copy of the run | `process_run`, `submit_human_step`, `start` (recovers), `stop`, `_loop` | every store call is a transaction of its own; cancellation is polled; crash between any two writes; stop that times out | review gates the cursor; a step repeated after a crash shares nothing with its first execution; every error path settles the run |
| Decisions (`run_service.py`) | none between calls | approve, changes, regenerate, reject, cancel, human-submit, create | read, decide, write: only `finish_review` compares again | a decision applies to what the operator saw |
| Store (`db/store.py`, migrations) | `runs`, `run_steps`, `artifacts`, `human_step_requests`, events, telemetry, brand, assets | one method per query | two-statement methods without a unique index | rows agree with each other |
| Router (`model_router.py`, adapters) | none | `execute` | retries, fallback, budget before every call | calls within the budget; sensitive content stays local |
| Creation (`run_service.py:24`, `store.py:36-106`) | unique keys | idempotent create | look up, then insert | one run per idempotency key |
| Services (`services/`, `bundles.py`) | opened bundle runtimes, under a lock | lazy opening, lookup of runs, close | a bundle's worker starts with its first use, by several requests at once | one executor per store; each bundle's runs recovered and executed |
| Definitions (`workflows.py`, `workflow_validation.py`, ...) | YAML files, editable at any time | preflight, `validate_resume_point` | definition changes while a run waits | a decision is refused when the step it is for changed |
| Brand and assets | versions, active flag, blobs, references | save, activate, add | MAX + 1 and lookups before inserts; copy before row | one active version; one blob per content |
| Operator UI (`ui/static/js`) | selected run, last event sequence, in-flight flag, drafts | poll, select, act, submit | answers in any order, unknown results | the view does not go back; one action at a time |
| Cloud assignments (`tools/seguimiento/CloudAssignments.psm1`) | a JSON file and its lock file | new, set state | lock left by a killed process | only legal transitions; no lost update |
| Artifact files, telemetry, tracking reports, scripts | derived copies and reports | write | none that a decision depends on | only the usage rows of router calls are modelled |

The components meet in the `runs` row: the worker takes a run with
`status='queued'`, and gives it back by writing a wait, a final status, or the
cursor; operators give it to the worker by writing `queued`. The API and the
command line add no state of their own. `PROJECT.json` lists the hazards at
their lines, with the properties that cover each, and says of those that no
property covers, or only in part, what stays open.

## 2. Modules

| Module | Contents | Code |
|---|---|---|
| `RunLifecycle` | one run, its worker, its operators, crash and recovery | `workflow_engine.py`, `run_service.py`, `db/store.py` |
| `RunProperties` | its invariants, action and temporal properties, the inductive invariant | |
| `RunStatus` | abstract: the status of a run, who may change it | what `RunLifecycle` and `WorkerQueue` implement |
| `CallBudget` | abstract: calls are paid before they are sent, none after a cancellation was seen | what `ModelRouter` implements |
| `ModelRouter` | routing of a step, candidates, retries, fallback, callbacks, adapters | `model_router.py`, `adapters/`, `workflow_engine.py`, `observability/usage.py` |
| `WorkflowExecution` (extends `ModelRouter`) | the workflow file, its validation, the cursor into it, edits between decisions | `workflow_validation.py`, `workflows.py`, `workflow_engine.py` |
| `BrandProfiles` | versions and the active flag | `db/store.py:546-592`, `brand_service.py` |
| `RunCreation` (with `BrandProfiles`) | the form and scripts, idempotency keys, two lookups and an insert, projects | `create-run.js`, `run_service.py:24`, `db/store.py:36-106` |
| `AssetLibrary` (with `BrandProfiles`) | uploads: blob file, rows, sidecar; publications | `asset_service.py`, `db/store.py:619-735` |
| `WorkerQueue` | LocalWorker objects and threads, queues of several stores, bundle runtimes, start, stop, close, recovery | `worker.py`, `services/runs.py`, `api.py`, `db/store.py` |
| `OperatorUI` | the run view and the panel of human actions of one page, over a server | `run-view.js`, `human-actions.js`, `api.js` |
| `RunMC`, `ExecutionMC`, `CreationMC`, `LibraryMC`, `QueueMC`, `UIMC` | instances for TLC | |
| `RunLifecycleProofs` | types, what operations in progress rely on, what the store keeps; the order in which results are saved, and the review gate; `RunLifecycle` implements `RunStatus` | |
| `RunOperatorProofs` | attempts, approvals and paid calls; what one operator may rely on | |
| `RouterProofs` | the router's properties, and that it implements `CallBudget` | |
| `ExecutionProofs` | executions are behaviours of the router; validation and the cursor | |
| `CreationProofs`, `LibraryProofs` | creation of runs; brand versions, blobs and references | |
| `QueueProofs` | one executor per store, no orphans, each run implements `RunStatus` | |
| `UIProofs` | what the page shows | |

Composition: `ModelRouter` is one model step in detail; `WorkflowExecution` puts
it under the cursor of a run. In `RunLifecycle` the same call is `tries` budgeted
calls with any outcome, so its other actors stay small enough to interleave.
`RunStatus` is the meeting point: both the detailed run and the runs of
`WorkerQueue` are shown to keep to it. `RunCreation` and `AssetLibrary` share
the actions of `BrandProfiles`, which is what a creation races with.

### Correspondence of `RunLifecycle`

| Model | Code |
|---|---|
| `run` | columns status, current_step, cancel_requested, budget_exhausted, waiting_reason/step/attempt, revision_feedback (empty or not) |
| `llmCalls`, `okCalls` | llm_calls, successful_llm_calls |
| `output[s][a]` | the completed run_steps row of step and attempt: who made it |
| `artifacts`, `requests` | artifacts and human_step_requests in insertion order |
| `decision` | the newest human_approved or human_revision event |
| `w` | the worker thread: `pc` is the next statement of `process_run`, `idx`, `att`, `revising` its locals, `tries` the calls of the current `router.execute` |
| `cl[c]` | operator `c`: the next statement of its operation and what it read |

An action is one store transaction. A read is merged with a neighbouring write
only when no other actor can do anything in between that the merged step does
not also allow; each merge is argued in a comment at its action. Examples: only
the worker writes `llm_calls`, so `consume_llm_call`'s check and increment are
one action; a late cancel flag and the clearing of feedback touch different
columns. The read and write of `cancel`, of `reject` and of
`submit_human_step` are *not* merged, and `add_artifact` of a submission is two
actions, since its SELECT and INSERT are two statements.

Merged or left out:

* `research` waits behave as `execute_step` waits and share its reason.
* `paused`, `interrupted` and the waiting reasons `recovery` and `reconcile`
  are never written by the code; waits without step and attempt (written before
  the wait columns existed) are not reachable.
* The active-time budget may expire at any iteration (`WLoopBudget`).
* A step's `when` and execution mode are fixed by the request and the
  definition (`EnabledSteps`, `HumanSteps`). The definition does not change
  here (it does in `WorkflowExecution`); preflight may nevertheless fail (`WBegin`).
* Submissions that fail their contract write nothing but an event.
* Prompts, events other than decisions, telemetry, files, heartbeats. A failed
  file write is not modelled: what it leaves stored is what a crash at the same
  place leaves.
* Operators and the worker live in one process: `Crash` ends both.

### Correspondence of the other modules

| Module | State | Code |
|---|---|---|
| `ModelRouter` | `r` | `candidates`' position, `attempt` and calls of `ModelRouter.execute`; `pc` names the callback or adapter call that comes next |
| | `attempts`, `usage`, `lost` | the list `attempts`; usage rows, and those whose write failed (`UsageRecorder.record` swallows errors) |
| | `cancel`, `llmCalls` | columns of `runs` |
| | `sent`, `late` | history: prompts given to a provider; those since the cancellation |
| `WorkflowExecution` | `file` | the YAML document, as what validation tells apart |
| | `run`, `steps` | status, cursor, wait; the definition `process_run` holds |
| `BrandProfiles` | `active`, `saving` | `brand_profiles` in version order (`is_active`); the next version a save has read |
| `RunCreation` | `form` | `idempotencyPayload`, `idempotencyKey`, whether a request is under way; a script keeps one key |
| | `hs`, `runs`, `project` | each handler's next statement and locals (of the two brand reads, whether they found a version and an id); rows with their key and brand columns |
| `AssetLibrary` | `disk`, `blobs`, `refs`, `sidecars` | blob files (absent, partial, full), `file_blobs`, `asset_references`, metadata files |
| `WorkerQueue` | `obj`, `th` | `LocalWorker` (`_stop`, `_thread`), thread with its local run |
| | `runtime`, `lock` | `_bundle_runtimes`, `_lock` |
| `OperatorUI` | `view` | `selectedRunId`, `lastSeq`, `resyncPending`, `pollTimer`, `requestInFlight`, the copy shown |
| | `gets`, `panelGets`, `act` | requests of each script, in order of nothing: a step of the server and a step of the page for each |

Choices that matter: a provider may answer anything or fail with any error at
any call. SQLite's unique indexes refuse an insert, its transactions are
atomic, and nothing is assumed between two of them. JavaScript runs one
listener to its end; a `setTimeout` and each awaited answer are steps of their
own. `requestGeneration` is represented by which request is the current one:
answers to earlier generations are in `gets` but not current.

## 3. Runs

| Run | Instance | Question |
|---|---|---|
| `race` | 2 operators, both may force; 2 checkpoints, the first human; no crash; 2.1 million states | does review gate the run when decisions come from stale reads and submissions overlap? |
| `solo` | 1 operator, 2 crashes; 4 steps: model checkpoint, disabled, then a human and a model step without checkpoint; 3 attempts, 4 calls, 1 retry; fair | crashes, recovery, revisions, budgets, liveness, the status protocol |
| `cancel_final`, `reject_final`, `cancel_effect`, `restart` | smallest instances | four statements of the UI and the documents the code does not keep (section 5) |
| `execution` | the bundled catalog, 14 files, 6 requests, 3 steps executed, 4 calls, 1 retry, 2 edits; 1.2 million states | what is sent where, what is recorded, what a decision resumes |
| `creation` | a form, a script, 2 handlers, 2 bodies of which one uses the brand, 2 keys, 2 brand versions; 1.4 million states | one run per intent through lost answers and races |
| `library` | 2 uploads of one content into 2 projects, 2 savers, 2 versions; 380 thousand states | one active version; rows and files agree |
| `queue` | the system and a bundle, a run in each, 2 requests, 1 decision back to the queue, 1 crash, 3 worker objects, 2 threads; fair; 300 thousand states | one executor per store, no orphan, the queue is served |
| `ui` | 2 runs created one after the other, the first with a wait; fair; 460 thousand states | does the page show the run selected, and its end? |
| `ui_reload` | 1 run | a reload that is dropped (section 5) |

What the passing properties say, for one run:

* `HumanGate`: unless the budget stopped the run, the cursor and the worker
  have only settled steps behind them: with a saved result, approved at a
  checkpoint.
* `CompletedMeansReviewed`: neither the end of the loop nor an approval
  completes a run with a result or review missing.
* `WaitHasResult`: a review wait names a result that exists.
* `FreshAttempt`: while an attempt executes nothing of it is stored.
* `ApprovalMatchesWait`: an artifact becomes approved only while the run waits,
  not cancelled, on exactly its step and latest attempt.
* `PaidFor`: artifacts by models <= successful calls <= calls <= budget.
* `ArtifactShowsOutput` (one operator): the artifact reviewed is the output
  later steps receive.
* `CursorNeverRewinds` (one operator): no settled step is executed again.
* `WaitIsActionable`, `FeedbackHonoured` (until the first restart): a wait
  accepts a decision; requested changes reach the model.
* `RunningSettles`, `QueuedIsTaken`: the worker lets every run go and takes
  every queued one.
* `KeepsProtocol`: the run refines `RunStatus`.

For the router and the workflow file:

* `SensitiveStaysLocal`: a prompt of a sensitive run is never given to a cloud
  provider, whatever mode, fallback and failure. It rests on the catalog's
  `local_default` and `local_reasoning` being models of the local runtime
  (`CatalogAssumption`). The catalog the repository ships has them so;
  `catalog.py` gives them the name of the local model and takes their provider
  from the file.
* `OneCallAfterCancel`: at most the call under way is sent after a cancellation.
* `RetriesRepair`: one execution tries the primary, again only because its answer
  was badly structured, then at most once the fallback, and nobody after an
  answer. Validation does not compare a step's fallback with its preferred model,
  so the fallback may be the primary once more, whatever its last failure was; one
  of the files checked is of that kind. `FailuresAreRecorded`: whatever candidate was passed over is
  in `attempts` and, unless the write failed, in the usage rows; `WebIsGrounded`:
  an answer to a step that needs the web comes from a Gemini model that has it.
* `KeepsCallBudget`: the router refines `CallBudget`.
* `AcceptedModelsFit`: what validation accepts (models, their web access and
  structured output) the router does not refuse for compatibility.
* `DecidedIsNotRepeated`: after edits of the file while the run waited, a
  decision that was accepted is not followed by the same step again.

For creation, brand and library:

* `OneRunPerIntent`, `AnswerIsOwnRun`: one submission of the form is one run,
  however often it was sent; who is answered with a run asked for it.
* `BrandIsNamed`: a run stored with a brand version also names a profile, whatever
  is saved and activated between the two reads. It depends on their order (with the
  id read first, the first activation in between breaks it) and on `ActiveIsKept`.
  The profile named may be of another version than the one stored, which no document
  excludes; prompts are built from the version.
* `OneActiveVersion`, `ActiveIsKept`: at most one version is active, and once
  one is there always is one.
* `BlobFileWhole`, `ReferenceHasSidecar`: rows have their files, except where
  the process was interrupted between the two.

For worker and page:

* `OneExecutor`: no two threads execute runs of one store, though a stopped
  thread may outlive `stop`.
* `NoOrphans`: once a store has a worker, each running run is in its hands.
* `QueueIsServed`: a queued run is taken, as long as the worker was not stopped
  and did not die.
* `RunsKeepProtocol`: each run keeps to `RunStatus`, recovery included.
* `ShowsSelectedRun`, `EventsNeverGoBack`: no answer, however late, shows
  another run or takes back an event shown.
* `OverIsShown`: the end of a run is shown on a visible page unless an answer
  failed or a reload was dropped.

`ArtifactShowsOutput` and `CursorNeverRewinds` do *not* hold with two
concurrent submissions of one request (the second replaces the run_steps row,
keeps or duplicates the artifact, and may write an old cursor); no document
promises it, so it is recorded as a hazard. `HumanGate` survives it.

Bounds. Two operators suffice for every race of one stale operation with a
complete second one; three would be two stale operations, whose writes are the
same two writes. Two attempts in `race`, three in `solo` let a revision, a
repetition after a crash and the end of the iterations happen; a call budget of
two or four runs out during the revisions of the first step or in the last step;
two crashes let a recovery be interrupted again. In `execution` three executed
steps and two edits let a step be decided, the file be changed, and the run go
on and wait again; four calls are fewer than two candidates with a repair each
need twice. In `creation` two handlers race at each index, and two keys let the
form change its mind once. In `queue` two requests open one runtime, and one
thread per store suffices because a second thread of one store is what
`OneExecutor` excludes: it would take the identity of the other store's. In `ui`
the second run is shorter than the first, so that a late answer of the first has
more events. The proofs in section 4 remove these bounds for the properties
proved. `CHECK_DEADLOCK FALSE`: a settled run, a spent bound or a finished page
has no further step.

Fairness. `RunLifecycle`: `LocalWorker._loop` polls for ever and every call it
makes returns or raises (providers have timeouts), so `WF(Worker)`; a stopped
process is started again, `WF(Restart)`; an operation once begun runs to its
end, `WF(Proceed(c))`. Operators owe no call: nothing is assumed of `Call(c)`.
`WorkerQueue`: a thread goes on (`WF(Works(t))`) unless it dies; nobody owes a
start. `OperatorUI`: the server answers, timers fire while they are set and
answers are handled; the user owes nothing, and requests may fail.

## 4. Proofs

Assumptions: the named `ASSUME`s of the modules. Any number of steps,
operators, attempts, calls and crashes.

1. `TypeCorrect`: `Spec => []TypeOK`. `TypeOK` is not inductive: an approval
   adds one to the cursor and a submission writes the step it read. `InFlight`
   says what an operation in progress relies on: a decision names the artifact
   it read, at the cursor unless the budget stopped the run; a submission names
   a request of its step and attempt; the worker is inside an enabled step.
   `StepKeeps` shows that rows keep their position, step and attempt and that
   results and approvals do not disappear, whence other actors' steps do not
   disturb an operation.
2. `WaitsHaveResults`: adds `SavedInOrder` (a row, then its artifact, then the
   wait, for the worker and for each submission) and `BudgetFlagged`. Together
   with 1 they are the inductive invariant `IInv`.
3. `ReviewGates` and `CompletionIsReviewed`: `GateInv` adds the two properties
   themselves and `SubmissionsGated` (a submission moves on from a step that had
   been reached). The cursor advances by a skip, by the worker past a step
   without checkpoint, by an approval or by a submission; in each case the step
   left behind is settled, and `SettledStays` keeps it settled.

4. `RunImplementsProtocol`: `Spec => KeepsProtocol`. Under the mapping of
   `RunProperties` (`WorkerStatus`, `BeingSubmitted`) each action is a step of
   `RunStatus` or a stutter. Only `TypeOK` is needed: `RunStatus` itself allows a
   stale submission or cancellation to write, and says which.

5. `RouterProofs`: `RouterInv` adds to the types that a step being tried was not
   refused and its candidate is usable (`Routed`), and how many calls each
   candidate can have cost (`Counted`). A step may be bound to one model twice;
   nothing assumes its two models to differ. From it: `Privacy` (a sensitive step
   that was not refused is bound to the local model alone), `CancellationStops`
   (a call sent late was paid for before), `Grounding`, `RetriesAreRepairs`
   (`Tried`: at the primary all attempts are tries of it that the position
   counts, at the fallback they are those that came before), `FailuresRecorded`
   (a count of attempts against rows, one `Append` at a time) and
   `RouterKeepsBudget`, the refinement of `CallBudget`: there a candidate about
   to be tried is a call to come exactly if a usable one is left.
6. `ExecutionProofs`: `ExecutionUsesRouter` shows that every execution of a
   workflow file is a behaviour of `ModelRouter`, so that 5 holds of the
   specification the run `execution` checks. `AcceptedStepsAreTasks` shows that the
   assumption `StepsAreTasks`, which ties the router's `Tasks` to the files, leaves
   out no document that passes preflight. `ExecutionInv` adds that a run in
   execution holds a list that passed validation (`Held`), that the router is
   asked for the step at the cursor (`Asked`), and that the step last decided on
   is behind it (`Behind`). With what validation leaves (`UniqueSteps`,
   `FitModels`) follow `ValidatedModelsFit` and `DecisionsStand`.

7. `RunOperatorProofs`, with any number of operators. `AttemptsAreFresh`: a new
   attempt is one more than the greatest taken, and nobody but the worker takes
   it, since a submission writes only an attempt a request was made for
   (`LatestAttempt`, `Unrequested`). `ApprovalsMatchWaits` is an action
   property: what an operator read may be stale, yet `finish_review` compares
   status, flag, step and attempt again in the transaction that approves, and
   `InFlight` says that the artifact it names is of the step and attempt it read.
   `ModelsArePaid` counts, one `Append` at a time: `PaidInv` adds that while the
   worker has a call or a result under way, the inequality it will use is strict.
8. The same module, for one operator (`OneOperator == \A c, d \in Clients : c = d`,
   a hypothesis of these theorems, not of the model). It is needed: with two
   concurrent submissions of one request the first two properties fail (section
   3). It says nothing of the worker, which runs beside the operator, nor of
   crashes.
   * `CursorOnlyAdvances`: `TurnInv` says that nobody holds an old copy that it may
     still write. While the worker executes, the run does not wait and the cursor
     is the worker's index; while a submission is written, the run waits and the
     cursor is the one it read.
   * `ReviewsShowOutput`: an attempt has one artifact, and it equals its
     `run_steps` row; between the two the worker or the submission that wrote the
     row is the only one that may add the artifact, and a request is pending only
     while its attempt has no output (`ResultInv`).
   * `WaitsAreActionable` and `ChangesReachTheModel`, as long as the process was
     not restarted (`crashes = 0`; the code does not keep them over a restart,
     section 5 and hazards): what a wait needs exists before the wait is written
     (`RowsInv`, `WaitInv`); feedback is in the run row while the step is queued, then in the
     worker's prompt, then in the output, which is the one the run waits with
     (`FeedbackInv`).
9. `CreationProofs`: `CreationInv` ties a form's key to what its user wants
   (`KeyIsIntent`), a request thread to the caller that waits for it, a row to
   the request it was inserted for (`RowsTold`). The unique index is what refuses
   the second row of a key that both handlers looked up in vain. `BrandRead` says
   that a handler that found a version finds a profile next, which is
   `BrandsAreNamed`: a version was active when it looked, and no save, failed save
   or activation leaves none active (`BrandNextKeeps`); the insert then stores both.
10. `LibraryProofs`: the brand rows need their type only. For assets
   (`FilesAccounted`) a file that is not whole is being copied or was interrupted,
   and a reference without a sidecar belongs to an upload about to write it.
11. `QueueProofs`: `Owned` says that a living thread is the last one of its worker
   object, that object the runtime of its store, and that the lock keeps an object
   not yet launched to the request that made it; so a store has at most one
   thread (`OneThread`), which is `StoreHasOneExecutor`. `RowInv` adds that a
   thread's run is of its store and that a recovery under way has all rows found
   running (`ToRecover`): `RunningRunsAreHeld`. `QueueImplementsProtocol` needs
   `KeepInv` besides: rows found by a recovery are still running or were cancelled
   meanwhile, and nobody but its thread moves a running run. A run's worker is
   then `held`, `free` or `down` by its store's one thread, and each step is a
   step of `RunStatus` for the run it concerns and a stutter for all others.
12. `UIProofs`: `UIInv` says that no copy on its way to the page has events the server
   has not, and that, while `lastSeq` is reset by a selection, a copy of the
   selected run on its way has at least the events shown (`NoOlder`): a run is
   selected once, so whatever arrives was read after the selection. Otherwise the
   comparison with `lastSeq` refuses an older copy.

The inductive invariants were checked by TLC on the instances of the runs before
they were proved. Proving the queue corrected the model in one place: a worker
object counted as alive when the *name* of its last thread had been given to a
later thread (`Alive`), which a bounded set of names allows and Python does not.
The proof also needs the names of stores, objects and threads to differ from
`None` (`NamesAssumption`), as they do in the code.

Every invariant and action property of the passing runs is a theorem. Only
model-checked, being out of the prover's reach, are the four liveness properties:
`RunningSettles`, `QueuedIsTaken`, `QueueIsServed` and `OverIsShown`.

## 5. Where the code and its documents disagree

* A cancelled run may take another outcome (`CancelIsFinal`): `cancel` writes
  CANCELLED over a status it read earlier, and the worker writes its next status
  over CANCELLED without looking at the flag.
* A rejected run may be resumed by a submission under way (`RejectIsFinal`).
* A run flagged while running may end in a wait that accepts neither review nor
  submission (`CancelTakesEffect`); a second cancellation ends it.
* A restart in the middle of a submission leaves a wait without a pending
  request (`RestartKeepsWait`).
* A visible page may be left without polling, without a request under way and
  with an old copy of a run that is over (`VisiblePageIsCurrent`): the reload of
  an inconsistent copy and the refresh on return both give way to a request that
  is still loading the workflow definition.

## 6. Not modelled

* Artifact files, cost estimates and aggregation of usage, the HTTP and command
  line translation, tracking reports and maintenance scripts: they hold no state
  that a decision of the system depends on. Adapters' HTTP is external.
* Cloud assignments (`tools/seguimiento`): the maintainers' own tracking, apart
  from the framework.
* Migrations and the metadata backfill: they run before anything else. A crash
  between a migration's script and its row is recorded as a hazard.
* Two processes on one database: recovery cannot tell whose runs it requeues.
* Edits of the workflow file while a run is queued again, where only the range
  of the cursor is checked.
* The panel's own copy of a run (its answer may belong to the run selected
  before); drafts and confirmation boxes.
