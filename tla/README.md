# TLA+ models of PDM_Algorithm

PDM_Algorithm trains time-series forecasters (informer, autoformer) for measuring points of industrial equipment and
serves their predictions. This directory holds TLA+ specifications of the parts of it that keep state and run
concurrently, the TLC configurations that check them, and TLAPS proofs.

Paths below are relative to `src/src/valeo_pdm/` unless they start with `sql/`, `tests/` or `docs/`.

## 1. The system

| Component | State it keeps | Operations | Interacts with |
|---|---|---|---|
| Training API (`api/router.py`) | none of its own | preview, `POST /train`, `GET /train/status`, `POST /train/checkData`, predict | job table, Celery publish, manifests, configuration |
| Job table (`db/training_jobs.py`, `sql/001_create_training_jobs.sql`) | one row per job: identity, plan, status QUEUED/RUNNING/SUCCEEDED/FAILED; unique key on (EquipmentCode, MeasCode, ModelInfoID) | create_queued, claim, mark_succeeded, mark_failed, delete_queued | API and workers, each call its own transaction |
| Broker and workers (`training/celery_app.py`, `training/tasks.py`) | Redis list, unacknowledged messages, one task per worker (concurrency 1, prefetch 1, late acknowledgement) | publish, deliver, redeliver after the visibility timeout, claim, train, record, acknowledge | job table, run control |
| Run control (`training/run_control.py`, `training/execution.py`, `training/from_config.py`) | file lock per ModelInfoID, run directory per model type with `training_manifest.json`, checkpoint | lock, reserve, update manifest, validate, mark failed, mark interrupted | workers, CLI trainings and the status endpoint write the same manifests |
| Platform write-back (`db/train_status.py`) | status columns in two tables of the platform | mark_running (first table only), mark_success, mark_failed: each table in a transaction of its own, best effort | called by run control |
| Data windows (`transformer/data.py`) | none (lengths and counts) | clean, resample, count windows, split, minimum rows | checkData and trainers |
| Training plan, configuration (`training/plan.py`, `transformer/config*.py`) | configuration files and database rows; a hash of the confirmed plan | preview, resolve, hash, confirm | API, CLI, workers (frozen plan in the row) |
| Training loop (`transformer/train_*.py`) | best loss, epochs without improvement, checkpoint file | epoch, save best, early stop, test | run directory |
| Prediction v1 (`transformer/predict.py`, `artifacts.py`) | process-wide model cache keyed by checkpoint path | find checkpoint, load, predict | run directories while trainings write them |
| Prediction v2 (`prediction_v2/`, `api/prediction_v2.py`) | none: the catalogue (manifest and artifact files) is read anew by every call | authenticate, load catalogue, verify request digest, normalise history, predict | whoever deploys the catalogue, file by file |

What is hard in it:

* **Three systems that fail separately.** Row, message and training process have no common transaction. Every database
  call may fail before or after it took effect, publishing may raise although the message went out, messages come twice.
* **Processes die anywhere**: API, worker, pool child, CLI training. What they leave behind (row, message, manifest,
  lock file) must not be mistaken for work in progress, nor for success.
* **Manifests have three kinds of writers.** A training, its late failure mark after the lock is gone, and any status
  request rewrite a manifest by reading, changing and replacing it.
* **Names that differ.** The lock and the unique key are named by the ModelInfoID, the directory also by the model type.
* **Counting twice.** checkData and the trainers compute windows by different formulas.
* **Configuration that moves.** A plan is computed at preview, at POST and in the worker; a database row, a YAML file and
  the program's own defaults may change between any two, and the database may be out of reach at one of them.
* **Files read while written.** Checkpoints are emptied and rewritten in place, piece by piece, while prediction requests
  read them piece by piece; a catalogue is deployed file by file under the eyes of prediction v2.
* **Numbers at their limits.** NaN losses, gaps at the edge of two limits, means beyond the decimal precision.

What correctness means, component by component:

* Queue: a job is trained at most once; an identity is used by one training; a row that stays QUEUED or RUNNING has a
  message or a worker; a terminal row is true; what `POST /train` answered stays true; an accepted job settles.
* Run control: one training of a ModelInfoID at a time; a directory never changes hands; `succeeded` and `interrupted`
  are true; a status answer is true; polling settles every run.
* Data windows: checkData and the trainer agree to the row; the windows made are the windows counted.
* Plan confirmation: what is trained is what was accepted, and what was accepted is what an insisting caller was shown; a
  plan comes from one configuration block; a queued plan survives releases.
* Training loop: the run stops exactly when out of patience, its best epoch on disk. Serving: a model that
  serves is one whole best checkpoint unless a save overlapped the load or another save; every request ends; only the
  Informer cache is stale.
* Prediction v2: a request digest determines the forecast; a retry is answered; the forecast continues the history that was
  sent; an answer never mixes two deployments.

## 2. Plan

In order of importance; all of it is done.

| # | Modules | Content |
|---|---|---|
| 1 | `JobLifecycle`, `TrainingQueue`, `TrainingQueueProofs` | abstract life of a job; API handler, table, broker, workers; refinement |
| 2 | `RunControl`, `RunControlProofs` | lock, directories, manifests, status fallback, platform status |
| 3 | `DataWindows`, `DataWindowsProofs` | counting windows |
| 4 | `TrainingSystem`, `TrainingSystemProofs` | composition of 1 and 2; it implements both |
| 5 | `Confirmation`, `PlanConfirmation`, `PlanConfirmationProofs` | preview, hash, moving configuration and releases, frozen plan, CLI; refinement |
| 6 | `TrainingLoop`, `Serving`, `ServingProofs` | best checkpoint and early stopping, saves piece by piece; cache and requests reading beside trainings |
| 7 | `PredictionV2`, `PredictionV2Proofs`, `ReplayProofs` | catalogue, digests, normalisation, retries |

What could still be added: a refinement of `RunControl` to an abstract run (reserved, running, final) that records exactly
where the code leaves it (run `status_race`).

## 3. The modules

### JobLifecycle and TrainingQueue

`JobLifecycle` is the promise: a job is registered for a free identity, may be withdrawn while queued, starts, finishes;
identities of started jobs are never released. `TrainingQueue` is the code:

| Variable | Code |
|---|---|
| `row` | `dbo.training_jobs.status`, `"ABSENT"` without a row |
| `handler` | position and answer of each `POST /train` |
| `ready`, `unacked` | Redis list and Celery's unacknowledged set |
| `worker`, `task` | position of each worker in `train_model` and its message |
| `runDirs` | run directories that exist (also those of CLI trainings) |
| `starts`, `outcome`, `faulted` | history only |

One action per step whose interleaving shows: `CheckTarget`, `CreateQueued` (the INSERT), `ReadBack` (its SELECT, a
transaction of its own), `Enqueue`, `Withdraw` (delete_queued), `ApiCrash`; `Deliver`, `Redeliver`; `Claim`, `CreateRun`,
`Train`, `MarkSucceeded`, `MarkFailed`, `Ack`; `WorkerCrash`, `ChildKilled`, `Restart`; `CliRun`. Every database call has
the outcomes done, failed, and done with the reply lost.

The code does not repair every fault: a row whose INSERT was committed while the handler died, or a RUNNING row of a dead
worker, stays. `faulted` records these faults where they happen, so that `NoSilentOrphan` and `AcceptedSettles` say
precisely which faults strand a job; everything else must not.

### RunControl

One ModelInfoID (nothing is shared between two): a set of worker trainings, a set of CLI trainings, each with a model type;
a manifest per model type; status requests.

| Variable | Code |
|---|---|
| `pc` | position in `execute_training_plan` or `train_from_config` |
| `lock` | holders of `training_run_lock` |
| `manifest` | status and owner of `training_manifest.json` (`pid` with `process_identity` is one owner) |
| `buf` | the manifest `update_manifest` has read and not yet written back |
| `checkpoints`, `platform`, `registered` | checkpoint files, status in each platform table, whether a job row exists |
| `reader`, `topic`, `seen`, `answer` | position of a status request, model type, manifest it has read, its answer |
| `reused` | dead processes whose PID another process has |
| `outcome`, `goneAtAsk` | history only |

A training goes `Acquire`, `Reserve`, `Publish` (the rename), `ReadManifest`/`WriteManifest` (the two halves of
update_manifest, for running, succeeded and failed), `Announce`, `SaveCheckpoint`, `EndTraining`, `Conclude`
(validation, saved parameters, platform), `MarkFailed`, `Release`, `MarkLate` (the outer `except` of a worker, no longer
under the lock). A request goes `Ask`, `ReadStatus`, `CheckOwner`, `Reread`, `WriteInterrupted`. Any file operation may
fail; `Crash` ends a process anywhere and the kernel drops its lock (`LockAfterCrash`); `ReusePid` gives its PID away.
`Mark` sets each platform table or fails to, `MarkRunning` only the
first; `Tables` are the tables whose updates may succeed (both in run `runs_liveness`, which checks
`PlatformTellsTruth`; the first in the other runs, whose properties do not read the platform).
`Visible` is the set of processes the API's PID namespace shows with their identities: all of them if API and trainings
share it, none if the API runs in its own container.

The worker's two reads in `_mark_manifest_failed` are one action: between them only a status request could write, and only
`interrupted`, which the second read's write overwrites as the first would have. Staging directories have unique names
and no reader; they are left out. A CLI training without ModelInfoID uses no run control and is left out.

### DataWindows

A series is its number of rows. `Validate`, `TryMore` (the search loop), `Reply` are checkData; `Grow` adds rows between
check and training; `Require`, `MakeWindow` (the loop of make_windows), `Split` are the trainer's `build_dataloaders`.
`int(n * 0.8)` and `int(n * 0.1)` are modelled by exact floors: the doubles nearest 0.8 and 0.1 lie above them, and the
rounded products agree with the exact floors (compared for every n below three million).

### TrainingSystem

The queue and the run control around one ModelInfoID. Both modules are instantiated: `Queue` with the run directories read
off `manifest` (`Dirs`) and the plan of a job from the type of its run, `Runs` with the job as a worker run and its row as
`registered`. A worker that has claimed a row takes the steps of its run (`ExecuteTask`, `SaveCheckpoint`), and only what
`execute_training_plan` returns or raises tells it what to write (`TaskLearns`): `create_training_run` through or raised,
the metrics in hand (`Result`), or the outer `except`. `OwnStep` are the task's own database calls, `InvalidPlan` a stored
plan that cannot be restored, `Die` takes training and worker together. Everything else is a step of one of the two.
`ImplementsRuns` checks that what `RunControl` assumes of rows is what the queue does; `GET /train/status`, exits, reused PIDs
are left to `RunControl`.

### Confirmation and PlanConfirmation

`Confirmation` is the promise: a caller is shown plans, one is accepted - the one shown last if the caller insists, and all
must insist under VALEO_PDM_REQUIRE_TRAIN_PLAN_HASH (`README.md:129`, `:146` of the repository) - and that one is trained.
`PlanConfirmation` is the code:

| Variable | Code |
|---|---|
| `db`, `yaml`, `defaults` | the scenario's row of `mom_bas_ai_model_config`, its block and the defaults of `model_registry.yaml` |
| `release`, `edits`, `strict` | program version of API and workers, bound, the environment variable |
| `phase`, `call`, `registry` | position of a caller's request, its contents, what its handler has read of the registry |
| `current` | the CLI's second resolution (`from_config.py:492`) |
| `shown`, `row`, `trained` | plan of the last preview, `plan_json` with `plan_hash`, what was trained |
| `planner`, `recorded` | history only |

The handler reads the registry in one step (`Ask`) and the row in the next (`Preview`, `Accept`), as `get_model_config`
does; a row read may come back empty when the database is out of reach. A hash stands for what is hashed. Three
parameters stand for the 21: one every model has, one only the Autoformer has, one that a later release adds; a value is a
number or its text. ModelInfoID, days_back and execution mode travel unchanged and are left out, as are the job table and
the run directories (`TrainingQueue`, `RunControl`). Releases differ in model defaults and parameter names; a release that
changes a check's range or the JSON rendering is not modelled. As the row has no data_path column, a scenario configured
in the database cannot name a CSV file: an Autoformer, which needs one, is never plannable from there.

### TrainingLoop and Serving

`TrainingLoop` is `do_training` of the three trainers (`train_informer.py:179-230`; the other two have the same loop):
`ImprovingEpoch` appends a loss below the best and begins `torch.save`, which empties the file; `WritePiece` and
`FinishSave` write the archive, its directory last; `IdleEpoch` counts; `Stop` is an exception or a killed process at any
moment, the file left as it is. A loss that is NaN or infinite is `NoNumber`. Runs with a ModelInfoID write files of their
own; the trainings of `valeo-pdm train` without one share the default path of scenario and model type, and two of them may
save at once.

| Variable | Code |
|---|---|
| `pathOf`, `pc`, `val_losses`, `best`, `no_improve` | the locals of `do_training` and where it is |
| `written` | pieces its save under way has written |
| `file`, `saves` | contents of each checkpoint file, piece by piece; how many saves have begun on it (no file before the first) |
| `shared` | history: the saves that began while another run was saving to that file |

`Serving` adds the API process: `Resolve` and `NotFound` (only existence is checked); `Acquire`, `Hit`, `Miss`, `Insert`
for Informers under `_CACHE_LOCK`; `Direct` and `UseOnce` for the other model types; `ReadPiece` and `LoadError` for
`torch.load` in both; `Respond` ends a request, `Restart` the process. `cache` is `_MODEL_CACHE`, `lock` its lock,
`loaded` the pieces a request has in hand, each with the number of saves begun when it was read (`stamp`), `floor` that
number at `Resolve` (history).

A load is as many steps as there are pieces, the directory first, and any step of a training may fall in between. Of the
library the model takes what its file format implies: a piece has its place in every archive of one layout, so that the
directory of one save fits the pieces of another; the reader checks no checksum, takes what it finds, and reads zeros where
nobody has written though the file goes on behind (`Hole`, `InFile`). It raises where the file ends or no directory is
found, and may raise, or not, where it meets a piece of another run, whose layout may be its own, or zeros (`Unreadable`).
How many pieces an archive has is a constant (`Last`); the order in which the pieces other than the directory are read is
that of their places.

### PredictionV2

Calls of `POST /api/v2/predictions`, one at a time (a call shares nothing with another but the files it reads), while the
clock advances and manifest and artifacts are replaced file by file. `Send` authenticates, `ReadManifest` and
`HashArtifact` load the catalogue, `Predict` is the service: profile, canonical form, request digest, normalisation,
forecast, with the refusals in the code's order (`Verdict`). A decimal on the wire is an integer in units of
10^-`Fraction`; `CanonicalDecimal` rounds half to even to the profile's scale and fails beyond `Digits` digits as
`quantize` does; sums and quotients of a bucket are rounded to `Digits` significant digits as the decimal context does
(28 in the code, 3 in the run), so that order effects can occur. Digests stand for what is hashed. A unit is a name with a
spelling; a data_id is its place among the strings it is compared with. `Sorted` puts every point at the `Place` that a
stable sort by (timestamp, data_id) gives it; a sum over a bucket is a recursive function on sets of positions
that takes off the last one, which is the order in which `sum` adds. (Both are ordinary definitions, not RECURSIVE operators
or library sorts, so that they can be proved about.) The clock is assumed monotone. Left out: body validation (pydantic),
fields that are only hashed, the isolated-pilot mode's fixed hashes, file-descriptor care; a malformed manifest counts as
none.

### MC modules

`MCTrainingQueue`, `MCRunControl`, `MCDataWindows`, `MCTrainingSystem`, `MCPlanConfirmation`, `MCServing` and
`MCPredictionV2` declare model values, symmetry and the sets of inputs; they redefine nothing.

## 4. Runs

| Run | Shows | Instance |
|---|---|---|
| `queue_safety` | AtMostOnce, OneRunPerIdentity, NoSilentOrphan, OutcomeMatchesRow, AnswersHold, refinement of JobLifecycle | 2 requests for 1 identity, 2 model types, 2 workers, 1 worker crash |
| `queue_liveness` | AcceptedSettles | the same with 1 model type, no symmetry |
| `queue_withdraw` | **violated**: after 503 TRAINING_QUEUE_UNAVAILABLE the table is empty | as queue_safety |
| `runs_safety` | OneAtATime, DirectoryKeepsOwner, SucceededIsReal, InterruptedMeansGone, AnswerIsTrue | a worker and a CLI training, 2 model types, 1 reader that asks again and again, all processes visible |
| `runs_liveness` | RunSettles, PlatformTellsTruth | the same with 1 model type and both platform tables |
| `status_race` | **violated**: finished runs keep their status | 1 CLI training, 1 reader |
| `status_container` | **violated**: interrupted runs are gone | 1 CLI training the API cannot see |
| `windows` | MissingIsExact, WindowsAsCounted, SearchEnds | all lengths 0..3, series of 0..34 rows |
| `system` | RowAndManifestAgree, ImplementsRuns, AcceptedSettles | 1 job, 1 worker that may die once, 1 CLI training of the same directory |
| `plans` | WholeBlocks, CliTrainsWhatItRecords, RejectsOnlyOtherParameters, refinement of Confirmation | 1 caller, 2 rows, 2 registry blocks, 2 defaults sections, 3 releases, 2 edits |
| `serving` | TornOnlyByOverlap, StaleOnlyFromMemory, ReturnedBestIsOnDisk, StopsWhenOutOfPatience, OneModelPerProcess, RequestsEnd | a run of 3 epochs and one of 1, on one Informer file or on two files, archives of 2 pieces, 2 requests, any number of restarts |
| `replay` | ReplayStable, RetryAccepted, ForecastContinuesHistory, OneDeployment | every 2 of 13 requests, window of 30, 3 manifests or none, 2 artifact contents |

Every passing run also checks the type invariant of its module, but for the two liveness runs and `system`, which leave that
to the safety runs of the same modules; that of `Serving` includes that of `TrainingLoop`.

Deadlock is not checked: in all modules the work may be finished (or refused) with nothing left to do.

**Bounds.** Two jobs are enough for a race for one identity, two workers for a redelivery while the first still trains;
`MaxCrashes` = 1 worker death, with any number of killed pool children. In `RunControl` nothing needs a bound: processes
only move forward, readers cycle. Two processes are enough for the lock, for a directory left by a dead process and for a
late failure mark beside another training; a third process or a second reader adds no new kind of overlap (the proofs do not
depend on these numbers). In `windows`, the largest minimum is 3 + 3 + 9 * 3 = 33 rows, so 34 rows pass every boundary;
`MaxWindows` = 12 lies above the 10 windows at which the search stops, which is proved.
In `system`, one job and one CLI training of the same type meet in every place two processes can meet (directory, lock,
row); two jobs meet only at the unique key, which `queue_safety` checks. The whole with two jobs is too large for TLC; the
proofs cover any number. Callers of `plans` share nothing but the
configuration, so one is enough; two edits let it change both between preview and POST and between POST and worker. In
`serving`, `Patience` = 2 and three epochs with two losses and NaN give every order of improving and idle epochs up to
early stopping; an archive of a directory and one piece behind it is the least in which a load can mix two epochs of a run,
two runs can mix in a file, a hole can stay in it, and another save can begin during a load; two requests meet in the cache.
In `runs_liveness` two trainings of one model type cannot both get its directory; that the platform's statements about
trainings of different model types do not get mixed up is in the proof.
In `replay`, every property relates at most two answers, hence two calls;
of a window of 30 a tenth is three, so that a run of three and a count of four are refused for different reasons.

**Fairness.** Queue: a live worker keeps executing its task (weak), every waiting message is delivered again and again
when workers are free (strong: Redis lists are first in first out), unacknowledged messages return (weak: visibility
timeout). Nothing is assumed of API handlers, nor that a dead worker returns. Run control: a training process that can
step does (weak), a CLI process exits when done, the disk does not fail a status request for ever (strong on reading and
writing), and somebody keeps asking for every model type (strong, as requests without a row compete with registrations).
Pool children of workers need not exit. DataWindows: sequential code runs on. TrainingSystem: the queue's
fairness, the task taking the steps of its run; its `AcceptedSettles` holds as long as the workers are not all down for good
(the repository's README has them started by hand, and `docker-compose.yml` restarts only the API). Serving: a thread of a
live API process runs on (weak, per request); nothing is assumed of trainings, which may stop for good in the middle of a
save. PlanConfirmation and PredictionV2 need none.

**Findings.** (1) `router.py:455-463`: if publishing raises after the message went out, or the compensating DELETE fails,
the caller reads 503 while the job is queued or trains; a test says the table is empty. (2) `run_control.py:155,164`:
mark_interrupted_if_stale decides on a manifest read earlier and overwrites the current one without looking, so a training
that finishes and exits in between is reported FAILED for good. (3) The PID test is meaningless across PID namespaces: an
API in a container that shares `artifacts/` with trainings outside declares live trainings interrupted.

**Seen on the way, inside what the properties allow.** (4) `prediction_v2/normalization.py:150`: the mean of a bucket adds
decimals of up to 28 digits in the order they came, rounding each sum, while the request digest ignores that order. With
values as 99999999999999999999999999.99, 0.06, 0.05 and -99999999999999999999999990.00 the same digest gets 2.50, 2.51 or
2.52. `ReplayStable` and `RetryAccepted` therefore hold for buckets whose partial sums stay within the precision
(`WithinPrecision`); without that condition run `replay` finds the difference. (5) A RUNNING row of a training whose worker
died stays, also in the composition: `AcceptedSettles` excepts jobs in `faulted`. (6) An Informer replaced on disk is served
only after a restart of the API: `StaleOnlyFromMemory` says that the cache is the only place where this happens. (7)
`prediction_v2/predictors.py:16` repeats the unit as the profile spells it, not in the canonical form that everything else
uses: two answers to one digest under two deployments may spell the unit differently. `ReplayStable` compares forecasts with
their units in canonical form (`Read`). (8) `train_informer.py:201`, `predict.py:30`, `:329`, `:382`: a load that overlaps a
save may return tensors of two epochs without an error, and an Informer torn that way stays in memory until the API
restarts; two trainings without ModelInfoID that save to the default checkpoint at once may leave an archive of both, or one
with zeros in it, that loads. `TornOnlyByOverlap` says that these overlaps are the only way to a torn model. (9)
`execution.py:218`: the platform is told success before the manifest is written; if that write fails, the manifest says
failed and the platform success, for good. `PlatformTellsTruth` allows it: the training did return. The platform's two tables
may disagree likewise (`train_status.py:153`).

## 5. Proofs

TLAPS proves the following for all values of the constants. No theorem assumes more than the named assumptions
(`ConstantsAssumption`, `RunAssumption`, `WindowsAssumption`, `PlanAssumption`, `LoopAssumption`,
`ServingAssumption`, `PredictionAssumption`, `RequestAssumption`) except where noted.

**TrainingQueueProofs.** `TypeCorrect`, `TrainedAtMostOnce`, `NoOrphanWithoutFault`, `TerminalRowsTrue`,
`ModelInfoIDConsumed`, `AnswersStayTrue`, `TableImplementsLifecycle`. That a job is trained once cannot be shown from the
row alone: a redelivered message finds a worker still busy. The inductive invariant says who owns a row: an executing
worker owns a row that left QUEUED by its own claim (`ExecutorInv`), an unpublished job has neither message nor worker
(`HandlerInv`), queued rows have never started (`StartsInv`), the unique key holds (`UniqueKey`), an acknowledgement never
drops an untouched job (`AckInv`). The refinement maps a withdrawn row to WITHDRAWN and an identity to the job that
holds it; every action is a step of `JobLifecycle` or a stutter.

**RunControlProofs.** `RunTypes`, `OneTrainingAtATime`, `OwnerForGood`, `SucceededIsTrue`, and, assuming
`Visible = Runs`, `InterruptedOnlyGone` and `AnswersTrue`. The argument: `LockInv` ties the lock to the positions;
`OwnerInv` says that a process with anything left to write finds itself in the manifest and in what it has read, so that
its write-back changes no owner; `ReaderInv` says the same of requests; hence no step takes a directory away
(`KeepOwner`). Owners being fixed, `OutcomeInv` can say what a final status tells about the position of its owner, and
`GoneInv`, that a request about to write `interrupted` has seen its owner dead. Processes only move onward (`Onward`),
so what was seen stays true until it is written. Run `status_container` shows why the last two need `Visible = Runs`.
`PlatformIsTrue`, for each table by itself, adds `PlatformInv`: a manifest that says succeeded has an owner past its training, and a process on its
way to a failure mark has seen its trainer end; both survive the crash of anybody. `OnlyRequestsOverwrite` (and, with
`Visible = Runs`, `OnlyRequestsOverwriteFinished`, for interrupted runs as well) delimits finding (2): once a manifest is
final its owner is past every write but the failure mark that is there already, so only a status request can still change
it. What run `status_race` shows is the one way a finished run is lost.

**TrainingSystemProofs.** `OneStory`, `OneDirectory`, `RunsImplemented`, `QueueImplemented`, `SystemTypes`, `QueuePromises`,
`RunPromises`, `LifecycleImplemented`: the composition implements both its parts, so that everything proved of them holds of
the whole. `TrainingQueueProofs` and `RunControlProofs` are instantiated with the variables of the composition. The
inductive invariant joins the two invariants with `Link`, which the parts cannot state: the position of a worker, the row of
its job and the position of the job's run move together (`TaskInv`); a run starts only after its row was claimed, and a
terminal row agrees with the manifest (`RowInv`). An action is then shown three times: as a step of `TrainingQueue`
(`QueueRefined`), as a step of `RunControl` (`RunsRefined`), and to keep `Link` (`LinkStep`); the first two carry the
components' invariants along. `OneDirectory` is what the unique key is for: lock and key are named by the ModelInfoID,
directories also by the model type, so only the row keeps two queued jobs from leaving two directories. The critical steps
are those where a row disappears (`delete_queued` finds no row under a run) and where the row becomes SUCCEEDED (the run has
returned its metrics, so its manifest said so when it ended).

**DataWindowsProofs.** `WindowTypes`, `CheckAgreesWithTrainer`, `WindowsMadeAsCounted`, for all lengths, strides and
series. Ten windows are the fewest that leave no split empty (`UsableFromTen`); count_windows reaches n exactly at
seq + pred + (n - 1) * stride rows (`CountReaches`, from what division returns and that multiplication is monotone); the
loop of make_windows keeps start = made * stride.

**PlanConfirmationProofs.** `TypeCorrect`, `NoMixedBlocks`, `CliRecordsWhatItTrains`, `AcceptedPlansRestore`, `Implements`.
The heart is `RoundTrip`: a plan built by one release and rebuilt from its stored form by any release that knows the same
parameters is the same plan, because it holds a number for every parameter, conversion leaves numbers alone, and
`{**defaults, **configured}` lets the stored values win. The invariant (`CallerInv`) says of a queued job that its plan has
that property and its hash (`SoundJob`), of a caller that the hash it sends is that of the plan it was shown, and of a CLI
training that the recorded hash is that of `current`. The refinement takes `row` as accepted and `trained` as trained.

**ServingProofs.** `TypeCorrect`, `BestIsOnDisk`, `EarlyStopping`, `TearsExplained`, `NothingElseIsStale`, `CacheIsStable`.
`LoopInv` ties `best` and `no_improve` to the list of losses: `best` is the first of the smallest (`Tracks`), and
`no_improve` the number of epochs since, so that being out of patience is a matter of the distance to the best epoch
(`PatienceByBest`). A run alone on its file finds there what it saved last (`OwnFile`). What torn reads leave is shown in two
parts. `FilesInv` (`OneSave`): a file whose last save began alone holds, up to where the writer is, pieces of one epoch, the
best of its run then, and holes behind; `OpenedAlone` is the step that establishes it (emptying the file is what makes it
true), `WrittenAlone` the one that carries it on, and no later epoch undoes that a saved epoch was an improvement
(`BestKept`). `ReadsInv`: every piece a reader holds with the stamp of a save that began alone is of that epoch, and two
pieces of one such stamp are the same; it holds for requests and for the cache alike, whatever is written after the read,
because stamps only grow (`SavesGrow`, `ReadsKept`, `ReadOn`). The lock is owned by the one request inside it (`LockedOut`),
which is why the cache is never replaced.

**PredictionV2Proofs.** `TypeCorrect`, `AnswersOneDeployment`, `ContinuesHistory`. `CallInv`: the hashes read so far are the
ones the catalogue in hand names, whatever has been deployed since; `ExchangesInv`: every answer was justified when given.
That one of the last three buckets has a sample follows from the missing set being tolerable, and that the forecast
continues the window to the interval, from the window's alignment (`WindowLength`).

**ReplayProofs.** `SameDigestReplays`, `RetryIsAccepted`, for all requests, window sizes, precisions and deployments. What
has to be shown is that a digest, which ignores the order of the points, determines numbers that are computed in that
order. The library's induction theorems cannot be used, but a set of naturals that holds 0 and every successor is all of Nat
(`InductionByOne`, from the well-foundedness of <), and that much induction is enough:

* Sorting (`SortedInOrder`, `SameOrder`): places are a bijection, so `Sorted` lists the points of a history in strictly
  increasing order, and two such lists of the same points are equal (look at the first place where they differ).
* Adding (`SumsExist`, `AnyAdded`, `SumPermuted`): sums over sets of positions exist; any element may be taken off last;
  hence a bijection of equal values keeps the sum. This is of exact sums. Rounded ones are equal to them as long as the sum
  of the magnitudes is representable (`RoundedExact`), which is what `WithinPrecision` says: its place in both properties.
* Buckets (`SamplesPair`, `SumsAgree`, `SameBuckets`): two histories of the same points without duplicate keys have the
  same samples, sums, means and gaps.
* The invariant (`Decided`): every answer was accepted from some request at some time, and every refusal was decided at a
  time not before the end of any window answered earlier (the clock is monotone). TLC checks it on the instance of `replay`
  too. `RetryIsAccepted` then goes through the refusals of `Verdict` one by one (`AcceptedAgain`): that the retried history
  has no duplicate key follows from its having as many points as the answered one, and the same (`SamePointsKeyed`).

`RequestAssumption` is what pydantic checks before a body gets here (`models.py:29-55`: natural timestamps and window, all
fields there) plus numbers being integers on the wire's grid. The last conjunct of `PredictionAssumption`, that powers of
ten are positive, is arithmetic the provers do not know; TLC evaluates it.

**Model-checked only.** The liveness properties (`AcceptedSettles` in two runs, `RunSettles`, `SearchEnds`, `RequestsEnd`):
TLAPS does not handle fairness. The three violated properties are counterexamples by nature. Every other property of a run
is stated by a theorem.

## 6. Not modelled, and why

* Network arithmetic (`transformer/models/`): tensors, no control state.
* Cleaning and resampling of series: a dataframe pipeline; the models take the resulting number of rows.
* Data readers, gateway, CLI front end, paths, the onboarding script: I/O, argument parsing, stateless forwarding.
* The loader of `train_testmodel`, a third trainer the API does not offer, which does not require usable splits (its epochs
  are `TrainingLoop`'s).
* What prediction v1 computes: residuals, plots, numbers.
* Prediction v2's fixture generator and health check, and the validation of bodies by pydantic.
* `src/statics/`: Redoc and Swagger UI, minified JavaScript of third parties that the API serves as files. These bundles are
  the only JavaScript of the repository; the program itself is Python, and none of its behaviour is in them.
* Wall-clock time: timeouts and clock readings are steps that may happen at any moment.
