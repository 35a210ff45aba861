# Verification of secom-mlops

TLA+ models, TLC runs and TLAPS proofs for secom-mlops, an MLOps system that
predicts faults of a semiconductor process: Kafka events become feature
snapshots, a predictor serves them through a gateway that splits traffic
between a release and a canary model server, and operators move model versions
from training to canary to release and back.

Paths are relative to the root of the repository.

## 1. Inventory

| Component | State | Operations | Interacts with |
|---|---|---|---|
| **Deployment control plane**: `scripts/deployment/{deploy_candidate_to_canary, promote_candidate_to_release, rollback_release_deployment, rollback_candidate_canary}.py`, `secom_mlops/monitor/deployments.py` | `model_deployment_requests`, `model_runtime_deployment_state`, `model_runtime_reload_event` (PostgreSQL); the locals of each running script | four scripts, each one process per run, each a sequence of separate calls | MLflow aliases, model servers (HTTP), gateway admin (HTTP) |
| **Model runtime servers** `secom_mlops/serving/runtime/app.py`, one per slot | the loaded model, run id, threshold | start, `/admin/reload-model-version`, `/admin/reload-threshold`, `/metadata`, `/invocations` | MLflow, deployment store |
| **Candidate registration and requests** `secom_mlops/training/candidate_registration.py`, `record_serving_candidate_deployment_request.py` | registry aliases, evaluation results | register, evaluate, request | MLflow, PostgreSQL |
| **Model gateway** `container/nginx/*` | the active nginx configuration file and the one nginx has loaded | set traffic policy, reload, restore | nginx, the deployment scripts |
| **Online predictor** `secom_mlops/serving/api/*` | the batcher's queue and worker, the event publisher's queue and worker, futures of the requests | predict, predict by id, shadow submission, shutdown | Valkey, model servers, Kafka |
| **Feature assembler** `fdc-feature-assembler` (Kafka Streams) | one state per sample id | process an event: merge, count, forward | Kafka |
| **Feature materializer** `fdc-feature-materializer` | consumer offset | write Valkey, insert into PostgreSQL, commit | Kafka, Valkey, PostgreSQL |
| **Archivers** `feature-raw-archiver`, `label-archiver`, `prediction-log-archiver` | consumer offset, open transaction | parse, insert, commit the row, commit the offset | Kafka, PostgreSQL |
| **Workload scripts** `scripts/workload/*_from_cursor.py` | a cursor in a file, the events without a delivery report | load, send or request a batch, wait, save the cursor | Kafka, predictor |
| **Dataset catalogue and builders** `secom_mlops/datasets`, `scripts/datasets` | `dataset_builds`, artifacts in MLflow | read a cohort, claim, upload, mark READY or FAILED, load | PostgreSQL, MLflow |
| **Serving gate** `scripts/monitoring/compare_candidate_with_champion_serving.py`, `secom_mlops/monitor/serving_gate_evaluations.py` | an MLflow run per evaluation, a tag of the version that points to the latest | pin versions, load, evaluate, publish | MLflow, datasets |
| **Manual deployment scripts** `clear_model_alias.py`, `promote_model_alias.py`, `mark_model_deployment_rolled_back.py` | aliases, review tags, `rollout_status` | clean up, promote, close | MLflow, PostgreSQL |
| **Training, monitoring, offline feature store** `secom_mlops/{training,monitor,feature_store}`, `scripts/monitoring` | models, metrics, drift reports | batch jobs started by Airflow | PostgreSQL, MLflow, Prometheus |

Sections 2 to 8 are about the parts that are modelled, section 9 about the rest.

What is hard: scripts that fail, are killed or overlap between two of their
calls; reloads that outlive the client that asked for them; server restarts in
the middle of a rollout; asyncio tasks that race a timeout, a cancellation and a
shutdown; consumers that crash between a write and the commit of the offset; tables that
are read while rows with an earlier time are committed; aliases that move while
an evaluation or an operator's script is under way.

What makes each component correct:

* **control plane**: a version is approved before the canary serves it, verified
  on the canary before the release serves it, verified on the release before
  champion names it; a script that completes leaves the server, the alias and
  the runtime state row in agreement; no script and no request hangs.
* **predictor**: every accepted request is answered exactly once, the answer is
  that of its own features, an event is published at most once and only for a
  prediction that was made, shutdown leaves no request waiting.
* **assembler and materializer**: the online store ends at the newest snapshot of
  every sample, a record is archived before its offset is committed, evidence of a prediction
  leads to its features, and what stops the consumer is known.
* **workload scripts and archivers**: the cursor passes nothing that was not
  sent, a record is stored before its offset is committed, and what the cursor
  has passed is in the table in the end.
* **datasets**: an id that was reported names one content and goes on loading
  while builders follow one another, that content is a
  point-in-time cohort of its window, and no sample is trained on twice.
* **gateway**: the policy changes only with a request that succeeds or with a crash,
  and then to nothing but the default or what the cut off request wanted, the report is
  true, and no handler keeps the lock.
* **review of a candidate**: an evaluation is true of the versions it names, a
  request rests on the newest evaluation of its version, and what an operator's
  script rejects or promotes has earned it.

## 2. The deployment control plane

### Modules

| Module | Models |
|---|---|
| `Deployment` | the shared variables, the control flow of a script (start, go on, raise, end), the calls several scripts make |
| `ModelServer` | the two model servers: reload, refusal, failure; late replies, timeouts, killed scripts, restarts |
| `CanaryDeploy`, `ReleasePromotion`, `ReleaseRollback`, `CanaryRollback` | one script each |
| `StagedRollout` | the abstract specification: the stages of a version and nothing else |
| `DeploymentControl` | what no script waits for (registration of a candidate, recording of a request, the operator's traffic change), the composition, its fairness, its properties, the refinement mapping |
| `MCDeploymentControl` | constants for TLC |
| `DeploymentControl_proofs` | the proofs about the stages |
| `DeploymentSerial_proofs` | the proofs about steps: what a promotion replaces, what scripts one at a time find and leave, who answers for a reload |

### State and actions

`pc[o]` names the next call of the running script `o`, `"idle"` when none runs.
A script is a sequence of calls to PostgreSQL, MLflow, nginx and a model server
with no transaction around them, so **each call that changes or reads shared
state is one action** and anything may happen between two of them. The reads
that precede the first write of a script and that no other action can
invalidate (the validation of a request, the run id and threshold of a version)
are one action with the start. `arg`, `obs`, `row` and `prev` are the locals that
live across calls: the request, the metadata observed, the runtime state row,
and the previous version in the reload's response.

Only succeeded reload events are kept (`events`): the failed ones are written for
the audit and nothing reads them. A version stands for version, run id and
threshold, which the registry ties together and which the code compares
together. Sending a reload puts a message into the server's `inbox`. The handler
of the server is a coroutine without an `await`, in one uvicorn process, so a
server handles its requests one at a time and in order; the message of a script
that timed out or was killed (`live = FALSE`) is handled all the same, as the
server does not notice.

Failures are steps that spend from a budget (`faults < MaxFaults`):

| kind | what happens |
|---|---|
| `call` | a call raises and has no effect |
| `lost` | a call has its effect and the script sees an exception |
| `reload` | the model server fails to load the version |
| `timeout` | the HTTP client gives up, the server goes on |
| `metadata` | `GET /metadata` fails |
| `crash` | the script's process is killed |
| `restart` | a model server restarts, drops its requests and loads champion |
| `seed` | the runtime state row cannot be written when a server starts |

Exceptions go where the code sends them: `deploy` and `promote` have an except
block that marks the request `failed` and raises, the rollbacks only write an
audit event and raise; a fault in the except block itself leaves the request as
it is.

### Runs

All runs use three versions (the one in service and two others) and two
requests: two versions to replace each other, one to go back to, and two
requests that can name the same version or different ones. `FaultKinds`,
`MaxFaults`, `Scripts`, `MaxActive`, `Percents` and `Trainable` are the bounds.
`CHECK_DEADLOCK FALSE` everywhere: operators may stop, and every request may
reach a terminal status.

| Run | Instance | Shows |
|---|---|---|
| `rollout` | two at a time of the three scripts that reload, one late reload or server restart; at most three recorded reloads (`FewReloads`) | `TypeOK`, `OnlyApprovedServed`, `DeployedHasEvidence`, refinement of `StagedRollout`, and `EvaluatedLineage`: `expected` in the reload payload does protect a promotion from a reload that another script did after the promotion observed the server |
| `serial` | one script at a time, one fault (no restart), traffic and candidate alias change | `CompletionConsistent`, `RolledBackIsFinal`, `WithdrawnTakesNoTraffic` |
| `live` | fair; one failing reload, timeout or metadata read | `ReloadingResolves` |
| `rollback_moves` | violation; one killed script | see section 10 |

`rollout` has the two fault kinds that bring an effect nobody waits for: a reload
that lands late, and a server that loads champion again. The other kinds stop a
script between two calls, in `serial`; the proofs have any number of faults of all
kinds. `serial` leaves server restarts out on purpose: a release that restarts
between the verified reload and the champion update loads the old champion, and
the promotion completes with a server that runs the old version.

**Scripts one at a time.** Each script is an Airflow DAG with
`max_active_runs=1`; nothing excludes two different scripts. `MaxActive = 1` is
the documented procedure, `MaxActive = 2` what the code permits; each property
that needs the first says so in its comment, and the violations show what
happens without it.

**Fairness.** Weak fairness of each script's next step (a process that was
started runs) and of the servers (they answer what they received). No fairness
for operators and faults. `ReloadingResolves` holds for the reload's own faults
only: a script that is killed, or whose except block cannot reach the database,
leaves the request in a reloading status.

### Proofs

`DeploymentControl_proofs` and `DeploymentSerial_proofs` prove, for all constants that
satisfy the named assumptions (`VersionsAssumption`, `NoneAssumption`,
`PercentsAssumption`, `BoundsAssumption`), so for any number of versions, requests and
faults, and of simultaneous scripts unless the third column says otherwise:

| Theorem | Says | Under |
|---|---|---|
| `InvariantHolds` | `Spec => []IInv` | |
| `TypeCorrect` | `Spec => []TypeOK` | |
| `RolloutInvHolds` | `Spec => []RolloutInv` | |
| `ApprovedServed` | `Spec => []OnlyApprovedServed` | |
| `DeployedEvidence` | `Spec => []DeployedHasEvidence` | |
| `Refinement` | `Spec => StagedRolloutSpec` | |
| `EvaluatedLineageHolds` | `Spec => EvaluatedLineage` | |
| `OrphansAreExplained` | only `GivesUp` adds to `Orphans` | |
| `ReloadingIsHeld` | `Spec => []NobodyIsLeft` | no fault of kind `call` or `crash` |
| `SerialInvHolds` | `Spec => []SerialInv` | `MaxActive = 1` |
| `RolledBackStays` | `Spec => RolledBackIsFinal` | `MaxActive = 1` |
| `WithdrawnOutOfTraffic` | `Spec => WithdrawnTakesNoTraffic` | `MaxActive = 1` |
| `CompletionAgrees` | `Spec => CompletionConsistent` | `MaxActive = 1`, no server restarts |

None of the three safety properties is inductive: a promotion that is about to
move champion has checked everything many calls ago. `RolloutInv` records the
evidence that survives from one call to the next: what a running script knows
about its request (`DeploySound`, `PromoteSound`, `RollbackSound`,
`WithdrawSound`), what a reload in flight may ask for, whoever sent it and
whether or not it is still waited for (`InboxSound`), and where a runtime state
row may lead a rollback (`RowSound`). The stages only grow (approved requests
are never changed, events never deleted), which is why a late reload is harmless
for them: lemmas on monotonicity come first, then the effect of each kind of
call, then one lemma per script. `Refinement` uses the invariant to show that
each step is one step of `StagedRollout` or a stutter.

`EvaluatedLineage` needs one thing more than `IInv`: `LineageSound` says that while a
promotion asks for a reload or waits for one, what it has observed is what its request
allows, and its outstanding message names that version. So a server that has moved on
since refuses, and one that answers has replaced the version the candidate was compared
with, although reloads of other scripts, or of the promotion's own killed predecessor,
may be in the inbox before it.

The serial theorems assume what the runbook says, one script at a time, and no bound on
the faults. `SerialInv` has that no second script runs, that the request of a running
deployment or promotion is not rolled back, and that the canary stays without traffic
from the rollback's call to its mark (`SetTraffic` counts as a script). `CompletionAgrees`
rests on `SettledInv`: after the verified reload the release serves the version of the
request, after the alias was set champion names it, and nobody else touches either. The
reload that a killed script has left in the inbox is the hazard there: it is handled
before the next script's own, as the server takes its messages in order, and before the
`GET /metadata` that verifies it. A restart in between does break it: the release loads
the old champion, the promotion goes on; hence the condition.

`Orphans` are the requests in a reloading status with no script between that mark and
the next one (`InFlight`). `OrphansAreExplained` says which steps can add one: a kill, or
a database error in the except block, nothing else, although a second script may mark
the same request meanwhile. `ReloadingIsHeld` is the half of `ReloadingResolves` that
needs no fairness: a request that is stuck is stuck because its script does not go on.

Several of these theorems are about invariants or steps that no run lists; TLC has
checked each of them before it was proved. Only checked by TLC: `ReloadingResolves`,
which is liveness and outside the prover.

## 3. The online predictor

### Modules

| Module | Models |
|---|---|
| `EventPublisher` | `BufferedPredictionEventPublisher`: bounded queue, batches, drop when full, close |
| `PredictionBatcher` | `PredictionBatcher` in `serving/api/batch.py`: bounded queue, batches, the request to the model, completion of the futures, close |
| `PredictionService` | the request handlers (`predict`, `predict_debug_many`, their shadow copy), their two timeouts, the lifespan and its shutdown; the properties |
| `PredictionOutcomes` | the abstract specification: an invocation is decided once, an event exists only for a prediction that was made |
| `MCPredictionService` | constants for TLC |
| `PredictionService_proofs` | the proofs |

### State and actions

Everything runs on one asyncio loop, so **an action is what one task does between
two awaits**. `queue`, `batch` and `active` are the batcher's queue, the batch its
task holds and the inputs of the request in flight; `worker` is the await the task
is at. `future[i]` is the future of invocation `i`, and `answer[i]` the invocation
whose features the model computed its prediction from: results are paired with
requests by position, so a mistake in the pairing shows as `answer[i] # i`. An
invocation that was given up while it waited is left out of the request to the
model (`Dispatch`), and one that was given up while the request was in flight is
passed over when the answer comes (`RowsToComplete`); both are what makes the
pairing delicate.

`Begin`, `Put`, `Gather`, `PutTimeout` and `ResponseTimeout` are the awaits of a
handler. A `ResponseTimeout` cancels the futures that are not done and cannot
fire when there are none, as in `asyncio.wait_for`. The shadow copy is submitted
without waiting. `Shutdown` waits until no handler is left, because uvicorn does,
and `ShutdownStep` follows the lifespan: batchers first, then, per publisher,
stop accepting, join the queue, cancel the task.

`unfinished` is the counter that `Queue.join` waits for. That the sink may drop
events or raise is not distinguished: the publisher goes on in both cases, and
`offered` records that it was called.

Closing a batcher cancels its task, and the cancellation is taken to be effective.
The `wait_for` at `secom_mlops/serving/api/batch.py:196` could swallow one when an item
arrives at that very moment; at the shutdown no handler is left to put one.

### Runs

| Run | Instance | Shows |
|---|---|---|
| `predictor` | no shadow model; two calls with an event and one with two rows, so four invocations on a queue of 2, batches of up to 3, an event queue of 1 | `OwnPrediction`, `EventOnlyForAnswered`, refinement of `PredictionOutcomes` |
| `predictor_shutdown` | a shadow model; two calls with their copies, queues of 1, batches of 2; fair | `DrainedAtShutdown`, `NothingLeftPending`, `CallsEnd`, `ShutdownEnds` |

The queues are smaller than the number of invocations, so that putting blocks,
shadow copies and events are dropped, and timeouts meet blocked rows; a batch can
hold all queued rows and less, so that requests of different calls share one.
`CHECK_DEADLOCK FALSE`: after shutdown nothing is left to do.

**Fairness.** Weak fairness of each handler, each batcher's task and each
publisher's task (the loop runs every task that can go on), of the shutdown, and
of the *primary* model: its HTTP client has a timeout, so an answer or an error
comes. None of the batcher's own timeouts, and not the shadow model: calls and
shutdown end although it never answers.

`EventOnlyForAnswered` is about calls with one row. Only `/predict-by-id` records
events, and it has one; `CallsAssumption` says so.

Not modelled: JSON and HTTP of the model runtime,
validation of requests (a call is one that passed it), the Kafka producer behind
the sink, the predictor being killed (its futures are gone with it).

### Proofs

`PredictionService_proofs` is about any calls, rows, queue and batch sizes, with a
shadow model or without (`PathsAssumption`, `EventBoundsAssumption`,
`BatcherAssumption`, `CallsAssumption`):

| Theorem | Says |
|---|---|
| `InvariantHolds` | `Spec => []IInv` |
| `PredictionsAreTheirOwn` | `Spec => []OwnPrediction` |
| `EventsAreOfAnsweredCalls` | `Spec => []EventOnlyForAnswered` |
| `ShutdownDrains` | `Spec => []DrainedAtShutdown` |
| `ShutdownLeavesNothingPending` | `Spec => []NothingLeftPending` |
| `DecidesOnce` | `Spec => OutcomesSpec` |

The invariant is built on `NotPut`, the invocations that no handler has put on a
queue yet: it only shrinks, no batcher holds any of them (`HeldInv`), so none of
them has a prediction or an event (`EventInv`), and a call that fails while it puts
its single traced row has no event either (`CallInv`). A pending future is of a row
in `NotPut` or of one on a queue or in a batch (`PendingInv`); a flush has asked for
everything pending in its batch (`FlushInv`), so an answer leaves nothing of it
pending; and a closed batcher holds nothing (`ClosedInv`), which leaves nothing at
all when the shutdown has ended. `PublisherInv` counts: `unfinished` is the length
of queue and batch, and a publisher that was told to stop accepts nothing more.
Only checked by TLC: `CallsEnd` and `ShutdownEnds`, which are liveness.

## 4. The feature pipeline

### Modules

| Module | Models |
|---|---|
| `FeatureAssembler` | the Kafka Streams task: merge, snapshot, changelog, producer buffers, commit, restart |
| `FeatureMaterializer` | the consumer: parse, Valkey, PostgreSQL, offset commit, restart |
| `FeaturePipeline` | both, with the predictor's read of a snapshot; fairness, properties, refinement mapping |
| `AtLeastOnceSink` | the abstract specification: store, then pass the offset, one by one |
| `MCFeaturePipeline` | inputs for TLC |
| `FeaturePipeline_proofs` | the proofs |

### State and actions

`patches` is the input topic, one partition: one of the sequences in `Inputs`, chosen
at the start. `Process` is `FeatureStateProcessor.process`: the state of the sample is
merged and counted (`Merged`), stored, and a snapshot is forwarded (`Snapshot`). A
patch that is not `accepted` (a missing or mistyped field, another key than its
sample, an unknown feature, a number that is not finite) throws before the store is
written, which shuts the application down; its container is started again and it
throws on the same patch (`Rejects`). A sample id is any text and a time any number,
negative ones included, as the assembler checks neither; a time that is not finite
would be refused by the materializer in the same way as a negative one.

The store is local; its changelog and the snapshots are sent by a producer with a
buffer, so a process that dies loses what is in `changes` and `emitted` but not what
was sent. `CommitInput` needs both buffers empty, as Kafka Streams flushes before it
commits. `RestartAssembler` restores `state` from `changelog` and goes back to
`offset`: patches whose state change was sent and whose offset was not committed
are merged, and counted, twice. The vector hash is modelled as the canonical
vector itself (a function that tells any two vectors apart; the code takes
SHA-256); what the id is made of is kept, since the two unique keys of the table
depend on it.

The materializer parses a record before it writes: `Refuse` is the parser throwing
(`Parses`: the form of the sample id, times that are not negative, an ordered window,
counts that agree), after which the process is started again at its committed offset.
`SetOnline`, `Persist` and `CommitRecord` are the three writes of the handler, in
their order; a failure of any of them ends the process, so it is a
`RestartMaterializer` between two of them. `Persist` has the three outcomes of
the INSERT: inserted, kept because the id is known, or rejected by the other
unique key. `Predict` reads Valkey and leaves the snapshot in `evidence`.

### Runs

| Run | Instance | Shows |
|---|---|---|
| `feature` | one of six inputs (below); both processes die at most once, anywhere; fair | `EvidenceJoinable`, `OnlineIsLast`, `VersionIdentifiesSnapshot`, `StopsAreExplained`, refinement of `AtLeastOnceSink`, `FeaturesConverge` |
| `feature_stuck` | `TwoRuns`, the assembler dies once; fair | violation, see section 10 |

| Input | What it makes happen |
|---|---|
| `TwoRuns` | a sample in two groups with different times, another in between: a replay can issue a version with another id |
| `Corrected` | a complete sample, then a feature with another value and an earlier time: a replay can issue an id with other features |
| `Repeated` | the same with one time: a replay can issue an id with other features, and no version with another id |
| `Early` | a time before 1970 |
| `Foreign` | a sample id of another form |
| `Malformed` | a patch that throws, in front of a good one |

Two samples are enough for one to be written between two snapshots of the other,
and three patches for a replay of some, none or all of them. One restart of each
is enough for every replay: a second one only repeats it with a longer topic, and
the proofs cover any number. Each way for `Stopped` and for `Reissued` to become true
is reached: without any one of the three causes in `StopsAreExplained`, or without the
exception in `EvidenceJoinable`, TLC finds a violation.

`EvidenceJoinable` is what the code gives: evidence finds a row with its id, its version
and its hash, or one is still to come. The exception is an id that a restarted assembler
issued twice with different features (`Reissued`): the table keeps the first row, so
that evidence of the other snapshot finds a row whose hash differs. It stays so for
good (section 10).

**Fairness.** Weak fairness of each step of the assembler by itself (the producer
sends what it holds, the task commits every second) and of the materializer. None of
the assembler while it is about to throw on a patch (`Goes`): it may be closed before
it sends or commits anything, so `FeaturesConverge` is about inputs without such a
patch. Both containers have `restart: unless-stopped`, so a restart is one step. No fairness
for restarts and predictions.

### Proofs

`FeaturePipeline_proofs` is about all samples, finite sets of keys, inputs and numbers
of restarts (`KeysAssumption`, `PatchesAssumption`, `OffsetAssumption`,
`AssemblerAssumption`, `MaterializerAssumption`):

| Theorem | Says | Besides the constants' assumptions |
|---|---|---|
| `TypeCorrect` | `Spec => []TypeOK` | |
| `VersionsIdentify` | `Spec => []VersionIdentifiesSnapshot` | |
| `StopsExplained` | `Spec => []StopsAreExplained` | |
| `EvidenceIsJoinable` | `Spec => []EvidenceJoinable` | committed offsets at the start |
| `OnlineLast` | `Spec => []OnlineIsLast` | committed offsets at the start |
| `SinkImplemented` | `Spec => SinkSpec` | committed offsets at the start |

Three invariants that are inductive relative to `TypeOK`, and two that are so
together:

* `VersionInv`: as long as the assembler has not died, the snapshots that were
  sent, followed by the ones in the buffer, have one version each per sample, and
  none above the count of the state.
* `WindowInv`: in every state that counts a patch, in the store, the changelog and the
  buffers, and in every snapshot, the window is ordered and both its ends are event
  times of patches of the sample; a snapshot is otherwise what the parser expects.
* `RowsInv`: a row is a record of the topic.
* `MaterializerInv`: the position is the committed offset, what is behind it is
  stored, the record at hand has passed the stores that `step` says, and what is
  online, stored or used came from the topic.
* `OnlineInv`: which record of a sample Valkey holds, relative to the position of
  the consumer: never an older one than the records behind it, and possibly the
  one at hand, which a restart begins again.

`StopsExplained` follows from the first three: a record that the parser refuses has
an id or a time of the kinds named, since the rest is consistent; one that the table
refuses has the version of a row with another id, hence two ends of a window, which by
`WindowInv` are two times of patches and by `VersionInv` need a death. A sample whose
patches have one time therefore never stops the materializer, however often the
assembler dies. `EvidenceIsJoinable` uses `VersionInv` for the identity: before the task
dies an id has one content, after it `Reissued` says that it had two.

`TypeCorrect` is proved and no run lists it. Only checked by TLC:
`FeaturesConverge`, as liveness is outside the prover.

## 5. The model gateway

| Module | Models |
|---|---|
| `GatewayAdmin` | `container/nginx/model-gateway-reload-admin.py` and `start-model-gateway.sh`: the handlers, the file, nginx, deaths of the admin process and of the container |
| `TrafficPolicy` | the abstract specification: the policy changes with a success; an upset may bring the default or what a request wanted that it cuts off, and nothing else |
| `MCGatewayAdmin` | symmetry for TLC |
| `GatewayAdmin_proofs` | the proofs |

A handler is a thread, and each of its commands (replace the file, `nginx -t`,
`nginx -s reload`, truncate and rewrite in the restore) is one action. The lock is
tried and never waited for. `nginx -s reload` only signals: `LoadFile` is the
moment at which the master reads the file, which may have been replaced again.
A file is a member of `Texts`: a prepared policy, another text, or one that was
truncated. An *upset* is what no handler does: a command that raises, a signal
that is served too early or whose load fails, a death of the admin process, a
start of the container. It does not excuse every policy: `TrafficPolicy` allows the
one in force, the default, or the wanted (or half written) one of a request that this
very upset leaves without an answer.

`gateway`: three calls, each with any of four percents (one not allowed, one
allowed without a prepared file) or a plain reload, any file at the start, one
upset. Three calls let one be refused, one fail and one succeed in any order.
Weak fairness of the handlers, which are threads with commands that end, and of
nginx getting to a signal. `CHECK_DEADLOCK FALSE`: the calls are used up.

`GatewayAdmin_proofs` proves for any sets of percents and calls and any number of
upsets: `TypeCorrect`, `LockHolds` (`LockInv`, the invariant that one handler holds
the lock and is between its first and last command), `ReportIsTrue` and
`PolicyImplemented` (refinement of `TrafficPolicy`). The inductive invariant says
in addition which of `previous`, the wanted and the torn text the file holds at each
step of a handler, which is what a death there leaves behind, and, while nothing was
upset, that nginx runs what it was told to. Only checked: `LockReleased`,
`SuccessTakesEffect` (liveness).

Not modelled: the proxying, which is nginx's; authentication and JSON of the API.

## 6. Ingestion

| Module | Models |
|---|---|
| `WorkloadCursor` | the three scripts that walk over the samples with a cursor: features, labels, predictions |
| `Archiver` | the three archivers: one program three times, with the payload check of the label archiver |
| `Ingestion` | both around one topic, run as it is with `MCIngestion.cfg`; fairness, properties, refinement of `AtLeastOnceSink` |
| `Ingestion_proofs` | the proofs |

A behaviour is about one stream. A run of a script loads the cursor once, builds a
batch (`outbox`), and saves the cursor after the batch: the senders only when every
event was reported delivered, the predictions up to the first sample without an
answer. librdkafka delivers in any order and may deliver twice, as the producer is
not idempotent. A label's id is made of the sample and the revision, so that a
second delivery, or a run after an edit of the label file, repeats it; features and
predictions have a fresh id each time. The archiver inserts in a transaction,
commits it, and commits the offset; anything that is thrown ends the process, and
the container starts it again at the committed offset.

`ingestion`: two runs, batches of two of up to three samples each, one failed or
doubled delivery or killed run, one edit of the label file, one death of the
archiver. Batches of two with three samples make a full and a partial batch.
Checked: `CursorSound`, `NothingSentBehindCursor`, `SinkSpec`, `PassedIsArchived`.
The label group starts with an offset (`FromLatest`): with `latest`
(`container/docker-compose.yml:609`) a group that has none passes over what was
sent before its first commit, and the code promises nothing else. Weak fairness of
the steps of a script and of the archiver, which the container starts again.
`CHECK_DEADLOCK FALSE`: scripts end. `PassedIsArchived` makes an exception for an
edited label file: a label that repeats an id with another payload stops the label
archiver, at that record, for good (section 10).

`Ingestion_proofs` proves for any finite set of runs, any batch size and any number
of failed deliveries, edits and deaths (`CursorAssumption`, `EditsAssumption`,
`RestartsAssumption`, and `NoneAssumption`: None is no event): `InvariantHolds`,
`CursorIsSound`, `NothingIsSentAgain` and `ArchiverImplementsSink`. The cursor alone
is not inductive, as several runs may save it: a run that ends puts the cursor
where it began plus what was acknowledged, so the invariant says of every run that
what it holds as acknowledged is on the topic or was answered (`AckInv`) and that
everything before its start was passed (`StartInv`). Nothing ever leaves the topic,
so both survive what the other runs do. For the archiver, `ArchiverInv` ties its
next step to what it has stored of the record at the committed offset.
`NothingIsSentAgain` assumes `MaxActive = 1`, as the scripts are started; two runs at
a time send twice. Only checked: `PassedIsArchived` (liveness).

Not modelled: what offsets and reflections do to the numbers
of a patch, dry runs, `smoke_predict_by_id.py`, several partitions (an archiver
handles each record to its end before the next).

## 7. Datasets

| Module | Models |
|---|---|
| `OfflineRows` | the tables and their late commits; the label at a cutoff |
| `TrainingDataset`, `ServingGateDataset` | cohort queries, members, readiness, identity, frame, manifest, and what the loader verifies |
| `DatasetCatalogue` | `dataset_builds`, the artifacts, and the builders call by call with their failures |
| `Datasets` | the composition and its properties |
| `PublishedDatasets` | the abstract specification: an id names one content; it is withdrawn only where builders overlap, by one that claimed it while it was not offered and fails later |
| `MCDatasets` | tables of five samples |
| `Datasets_proofs` | the proofs |

Times are small numbers. A row has the time of its insert and becomes visible at
its commit, which may be later (`CommitSnapshot`, `CommitLabel`, `CommitDecision`):
two builders of one window may see different rows. A hash stands for its content,
so a dataset id is the set of identity records it is computed from, and a file's
checksum is the file. A builder reads the cohort in one repeatable-read
transaction, claims, uploads, and marks; `StepFails`, `ReadyReplyLost`,
`ClaimReplyLost` and `Kill` are what may go wrong at each of them.

`datasets`: three builders over two windows; in half of the behaviours one after
the other with two faults, in the other half side by side with one (`MaxFaults` is a
bound for each; side by side is what `README.md:190`, one writer, excludes but a builder
that outlives its task does not). A fault is any of the four in both halves, so the
late error of one builder meets the row that another has reported. One late row of
seven, among them a repeated snapshot, a payload that
does not fit its counts, a revised label, a label after the cutoff, and decisions
with another hash or before their snapshot. Two faults let a lost answer meet a
failed recording. `CHECK_DEADLOCK FALSE`: the builders are used up. Safety only: a
builder that was killed leaves its row BUILDING and the next build takes it over,
but nothing starts one.

`ReportedLoads` and `PublishedDatasets` say what remains: one after another, a
reported id goes on loading; side by side, it may stop, but only when a builder that
claimed the id while it was not offered has failed on it since, and what is offered under
it later is the same content.

`Datasets_proofs` proves all four for any finite tables, windows, number of builders,
faults and late rows: `ReportedCanBeLoaded`, `PublishedDatasetsImplemented`,
`SamplesAreTrainedOnOnce`, `LoadedDatasetsAreSound`. Assumed are the keys of the
tables and that the snapshots of a sample carry times in the order of their
versions (`RowsAssumption`; Valkey's clock stamps them when the materializer writes
them), that two windows with one start have one cutoff (`ConfigsAssumption`; the
cutoff is not part of a training identity, and the windows are the DAG's
intervals), `MinimaAssumption` and `BuildersAssumption`. The argument: an id
determines the members it was computed from (`SameIdentity`, as whether a payload
is sound is a matter of its snapshot), so that any builder of that id may claim the
row and any other may mark it READY (`RowInv`), and what is loaded is the id's own
members. One after another, a reported row stays READY because nobody is past the claim of
its id when it becomes so (`AloneInv`); side by side, the only step that takes READY
away is that of a failing builder, which its state `FAILED` records (`ReportedInv`).
`FirstInv`: the first complete snapshot of a sample stays the first, which late
commits keep true because versions are committed in order.

Not modelled: the text of manifests and Parquet, the dry run, training itself.

## 8. The review of a candidate

| Module | Models |
|---|---|
| `GatePolicy` | what the gate computes: selection of decisions, metrics, verdict |
| `ServingGate` | runs of the gate and of the script that records a deployment request, moves of the aliases |
| `CandidateCleanup` | `clear_model_alias.py` |
| `AliasPromotion` | `promote_model_alias.py`, `mark_model_deployment_rolled_back.py` |
| `CandidateReview` | the composition and its properties |
| `CandidateReview_proofs` | the proofs |
| `MCServingGate` | three versions and two datasets |

Each call of MLflow or PostgreSQL is one action, `epc` and `spc` say which is next,
`ectx` and `sctx` are the local variables of a process. A version stands for
version and run id, which the registry ties together. `latest` is the tag that
points to the latest evaluation; `review` the tag of the cleanup; `requests` the
rows without `rollout_status`, which is `rollout`. `before` and `champions` in the
context of a script are history: what was published and who was champion since its
start. Metrics are fractions, and thresholds percents.

`RecordRequest` of `DeploymentControl` (section 2) is the record script as one step and
takes the verdict as given; here are its calls. The deployments of an approved
request, in turn, are here only their end: champion moves and the request is
`deployed`, or it is `failed`.

`serving_gate`: two evaluations and two scripts of which three processes run in a
behaviour, and one upset (a move of an alias, a deployment that ends, a failed call,
a kill). Version 2 passes against 1 on the newest decisions and fails on the
oldest, 3 is worse than both, and one dataset has too few labels, so that verdicts
differ by version, by dataset and by selection. Three processes are what the properties
relate: two evaluations of a version and a script that acts on one of them, or an
evaluation, a request and what is done with it. Symmetric in the scripts.
`CHECK_DEADLOCK FALSE`: processes are used up.

`VerdictIsTrue` and `RequestsSound` hold however the aliases move because the
scripts pin versions; `NewestEvaluationCounts` and `RejectionsEarned` are relative to what
was published when the script started, because one that is published between the
script's look and its write is not seen. `PromotionsApproved` is about promotions
that name a request or demand one: by hand, champion may be moved without any.

`CandidateReview_proofs` proves for any versions, datasets, thresholds and numbers of
evaluations, scripts and upsets (`EvaluationsAssumption`, `ChampionAssumption`,
`NoneAssumption`). `LimitAssumption` says that the limit and the two minima are
positive, as the constants of the code are (1000, 20 and 20); `RowsAssumption` that a
dataset is finite and that no two of its decisions share an id, which is the primary key
of `prediction_logs`:

| Theorem | Says |
|---|---|
| `InvariantHolds` | `Spec => []IInv` |
| `VerdictsAreTrue` | `Spec => []VerdictIsTrue` |
| `RequestsRestOnEvaluations` | `Spec => RequestsSound` |
| `LaterFailureBlocks` | `Spec => NewestEvaluationCounts` |
| `RejectionsRestOnEvaluations` | `Spec => RejectionsEarned` |
| `PromotionsRestOnApproval` | `Spec => PromotionsApproved` |

The last four are about single steps of a script that acts on what it read
several calls before. The invariant keeps, for every place in the scripts, what such
a reading is still worth: an evaluation in a context is finished and never changes,
a pointer that was read was the newest one published at the start or later, a
request in a context is one that was recorded, and a recorded request rests on a
finished evaluation that passed.

`VerdictsAreTrue` needs `VerdictInv` besides: from the call that loads a model on, the
model is that of the version the run will name, a dataset that is past its check can be
used, and what a finished run says of its versions is the verdict on what was selected
(`PinnedInv`). That the selected decisions are the newest is a lemma about data:
`Newer` is a strict order of the labelled decisions, the number of newer decisions ranks
them from 0 on without gaps, so that exactly `Limit` have a rank below `Limit`, and any
`Limit` decisions that are newer than all others are these (`SelectedAreNewest`). No
induction is needed: a rank is an injection into an interval of the same size.

Not modelled: bootstrap intervals and artifacts of the evaluation run, dry runs,
`--keep-source-alias`, other target aliases.

## 9. What is left

Not modelled, and why:

* **Training and model packaging**: sequential numeric code.
* **Monitoring and evaluation**: batch jobs that read tables and write metrics; they
  keep nothing between runs but drift baselines, and their content is statistics.
* **Offline feature store**: the merge of the assembler repeated over Parquet.
* **Airflow DAGs**: each calls one script; their `max_active_runs` is a guard or a
  constant of the models.
* **Wrappers, scenarios and utilities**: sequences of the calls above, inspection.

Partly modelled: the model runtime server (`reload_threshold` and the computation of
`/invocations` are left out), the predictor (validation, the reader of Valkey
beyond what it returns), the deployment store (listings), and registration (tags).

Worth doing next: the safety halves of the other liveness properties, as
`ReloadingIsHeld` is that of `ReloadingResolves`; drift baselines as one more publisher
of artifacts.

## 10. Where code and documentation disagree

Two of them are runs that TLC must find violated.

1. `rollback_moves` (`RollbackMovesChampion`): a promotion that is killed after
   its reload and run again records the promoted version as its own
   predecessor; the release rollback accepts the row and moves nothing.
2. `feature_stuck` (`EveryUpdateCommitted`): a snapshot that repeats a version with
   another id violates the second unique key, which the INSERT does not handle;
   the materializer fails on it at every start and no later record is stored.

The models also show, without a run of their own:

* `container/README.md:833` says champion *always points to the currently approved
  serving model*. The release is reloaded before champion moves
  (`promote_candidate_to_release.py:438`, `:478`); a failing alias update leaves them
  apart while no script runs, and so do two overlapping scripts without any fault
  (`MaxActive = 2`): each DAG is serialized with itself only.
* The candidate alias is looked up and deleted in two calls
  (`promote_candidate_to_release.py:248`, `clear_model_alias.py:159`); a registration
  in between loses its alias.
* A promotion that fails after moving champion is marked `failed`, which the
  canary rollback accepts and marks `rolled_back`; champion goes on naming the
  version.
* Terminal statuses are checked at the start of a script and overwritten
  unconditionally at its end (`secom_mlops/monitor/deployments.py:122`, `:175`): with
  `MaxActive = 2`, `RolledBackIsFinal` fails, and `promote_model_alias.py` turns a
  request that was closed meanwhile into `promoted`.
* After a restart of the assembler a version can stand for two snapshots
  (`FeatureStateProcessor.java:68`), where `monitoring-schema.sql:265` has it
  unique and `container/README.md:99` has consumers join by it. They also require
  the hash to match, so such a row is left out and not mistaken.
* A whole id can stand for two snapshots in the same way: with patches `{g1, g2}` at 2
  and `{g1: w}` at 1 of one sample (`Corrected`), a replay can give `(2, 2)` other features
  than before. `ON CONFLICT DO NOTHING` (`ServingSnapshotRepository.java:29`) keeps the
  old row and commits the offset, so a prediction from the new one never joins by hash,
  where `fdc-feature-materializer/README.md:3-7` has every record archived as it is
  online and `:21-24` its hash verify that both are the same vector. `Reissued` is this
  exception in `EvidenceJoinable`.
* The assembler accepts any text that is not blank as a sample id and any number as a time
  (`FeatureStateProcessor.java:42`, `:53`); the materializer's parser wants `secom-` and
  seven digits and times that are not negative (`FeatureSnapshotParser.java:81-101`).
  A snapshot that only one of them accepts stops the materializer for good, the
  samples behind it included (`Foreign` and `Early`; the workload scripts send neither).
* A malformed patch ends the assembler (`FeatureStateProcessor.java:37-54`,
  `FeatureAssemblerApp.java:46-49`), which is started again in front of it, for ever. What
  it consumed since its last commit may be merged and sent again at each of these starts.
* An edited label file repeats a `label_event_id` with another payload, on which the label
  archiver fails at each start (`LabelRepository.java:73`) and stores no later label.
* `container/postgres/README.md:19` calls the artifacts of `dataset_builds` immutable. Their
  content is, but not that they are offered: a builder that fails late marks its row
  `FAILED` by the id alone (`training_dataset_repository.py:279`, called at
  `training_dataset_builder.py:213`), also when another builder has published it
  meanwhile. `README.md:190` supports one writer, by `max_active_runs=1`; a
  builder that outlives its task is a second one. `ReportedLoads` has this exception.
* `README.md:157` selects `snapshot.available_at <= T-L` where the query and `README.md:176`
  say `<`. The models follow the code.
* With `auto.offset.reset` at `latest` (`container/docker-compose.yml:287`) a
  consumer that dies before its first commit skips the record it had begun
  (`FreshGroups = TRUE`), which `fdc-feature-materializer/README.md:9` says can be
  replayed.
* The window of a decision is that of its first decision of a release; one that
  is committed after a dataset was built can put the same sample and version into
  the dataset of another window (`serving_gate_dataset_repository.py:41`).
