# A TLA+ model of the Temporal Python SDK

This directory holds TLA+ specifications of the Temporal Python SDK in `src/`: modules
that model its components, TLC configurations that check them on small instances, and
proofs checked by TLAPS. `PROJECT.json` lists the components, the runs, the mutants
each property is tested against, the source lines behind every definition, the
hazards of the code, the findings and the theorems.

## The system

A process hosts a `Worker` on one asyncio event loop. The worker talks to "core", a
Rust library reached through the bridge, which polls the Temporal server. Core hands
out activity tasks and workflow activations and expects a completion for each.

| part | state | operations | hard part |
|---|---|---|---|
| `worker/_worker.py` `Worker` | started flag, shutdown events, tasks of the two workers | `run`, `shutdown`, `__aenter__`, `__aexit__`, `client` setter | failure of either worker, user cancel and shutdown requests in every order; the drain that replaces a failed poll loop |
| `worker/_activity.py` `_ActivityWorker` | running activities, failure queue, shutdown event | `run`, `drain_poll_queue`, `wait_all_completed`, `_cancel`, `_heartbeat`, `_heartbeat_async`, `_run_activity` | a cancel, a heartbeat and a failure of the worker landing in any await of an activity's task |
| `worker/_activity.py` `_ThreadExceptionRaiser` | lock, thread id, pending exception, shield depth | `set_thread_id`, `raise_in_thread`, `shielded` | the event loop cancels while the thread enters and leaves shields, starts or ends |
| `worker/_activity.py` `_MultiprocessingSharedStateManager` | heartbeat functions, completions, a bounded cross-process queue, a processor thread | `register_heartbeater`, `unregister_heartbeater`, `_heartbeat_processor`, `send_heartbeat` | the processor stops when there is nothing left to do while a new activity registers |
| `worker/_workflow.py` `_WorkflowWorker` | running workflows, eviction failures | `run`, `_handle_activation`, `drain_poll_queue` | activations, evictions, deadlock timeouts and threads that outlive them |
| `worker/_workflow_instance.py` | a deterministic event loop per workflow run: ready queue, tasks, conditions, pending commands by sequence number, handlers, patches, queries, updates | `activate` and one `_apply_*` per job, one `workflow_*` per API call, `_run_once` | the order of jobs, the wake up of conditions, cancellation of handles before, during and after their resolution, eviction |
| `worker/_replayer.py` | one workflow worker fed with histories | `workflow_replay_iterator` | failures reported from the eviction hook race the next history |
| `worker/_tuning.py`, `bridge/worker.py`, `bridge/src/worker.rs` | slot suppliers, the worker handle | poll, complete, shutdown | the handle can be finalized only by its last owner |
| `client.py` | handles, iterators | `result`, pagination, update polling, schedules | retries, run chains, page boundaries |
| `service.py`, `bridge/client.py` | lazily connected client, metadata | `_connected_client`, `_rpc_call`, `update_rpc_metadata` | several callers race the first connect |
| `testing/_workflow.py`, `testing/_activity.py` | time-skipping lock count, activity environment | `time_skipping_unlocked`, `auto_time_skipping_disabled` | overlapping uses |
| `worker/workflow_sandbox/` | import and builtin overrides | importer, restrictions | overrides applied and removed by nested and concurrent activations |
| `converter.py`, `common.py`, `exceptions.py`, `workflow.py`, `activity.py`, `runtime.py`, `types.py`, `contrib/opentelemetry.py` | mostly pure | conversions, declarations, decorators | failures round trip through the wire form |

What must hold across these parts: every task handed out by core is answered, once;
what is reported agrees with what happened (a cancelled result was asked for);
cancellation reaches whoever runs; a shutdown ends and is seen; a fatal error of a
worker is raised.

## Modules

| module | models | built on |
|---|---|---|
| `PollLoop` | what `Worker.run` relies on from a worker: take, answer, finish, fail, drain, end | |
| `ActivityWorker` | `_ActivityWorker`: poll loop, drain, `_run_activity`, cancels, heartbeats, `wait_all_completed` | implements `PollLoop` |
| `ActivityWorkerProofs` | the inductive invariant of `ActivityWorker` and its consequences | `ActivityWorker` |
| `WorkflowWorker` | `_WorkflowWorker`: poll loop, `_handle_activation`, the cache of instances, threads, deadlock detection, evictions, drain | implements `PollLoop` |
| `WorkerRun` | `Worker.run`, `shutdown`, `async with` | two instances of `PollLoop` |
| `ThreadCancel` | `_ThreadExceptionRaiser` and a thread pool | |
| `SharedHeartbeats` | `_MultiprocessingSharedStateManager` and its sender | |
| `Replayer` | `Replayer.workflow_replay_iterator` | extends `WorkflowWorker` |

Each `MC*` module makes the instances for TLC. Definitions whose name ends in
`_something` and whose comment begins with "Mutant" are deliberately wrong versions
of the definition after them; they are in no specification and serve to show that
the properties can fail.

Everything that runs on an asyncio event loop is atomic between two awaits, so an
action is what a task does from one suspension point to the next and a `pc` names
the await. A codec is a suspension point that may raise. Threads and other processes
interleave with all of this at every step.

**ActivityWorker.** `act[t]` is the `_RunningActivity` of a task token with the
await its task is in; `hb[t]` its queue of heartbeats and the tasks that drain it;
`sent` and `recorded` are what core has accepted. `PollStart`, `PollCancel`,
`PollShutdown`, `PollError`, `RaiseFromQueue` are the turns of the poll loop,
`Drain*` those of `drain_poll_queue`; `DecodeResumes`, `ExecReturns`, `ExecRaises`,
`ExecSwallows`, `EncodeResumes`, `EncodeFailureResumes`, `HeartbeatAwaited` and
`Completion*` lead an activity through `_run_activity`; `Heartbeat*` are `_heartbeat`
and `_heartbeat_async`. `Drops` is the task a poll brings in the same turn in which
the loop fails. A cancel that is on its way (`cancelPending`) raises in the next
await, and the code behind that await lets it through or swallows it.
`WaitAllCancelled` is a cancel of `run()` while `wait_all_completed` waits: the gather
cancels the task of every activity, whatever `_RunningActivity` says of it. `broken`
follows a `BrokenExecutor` from the activity to the failure queue of the worker.

**WorkflowWorker.** A task is the k-th activation of a run. `view` is what core knows
of a run, `running` the cache `_running_workflows`, `call` the thread an activation
runs in. `Timeout` leaves the thread running; `Raise` is the except clause, which
never completes a failed eviction. Core (external) hands out the next activation of a
run when it has an answer for the last one and evicts a run after a failure.

**WorkerRun.** `pc` is the await of `run()`. `BeginShutdown` stands for everything
from the end of the first wait to the wait for the poll loops, the replacement of a
failed loop by its drain included. The two workers are instances of `PollLoop`; that
the workers implement it is checked in their own runs. `ctx` is the `async with`
statement: its body may let the `CancelledError` that announces an error of `run()`
through, swallow it (`BodySwallows`) or end with something else (`BodyEnds`).
`unwinding` is a `wait_all_completed` that has been cancelled and waits for the tasks
it cancelled in its turn.

**ThreadCancel.** The event loop cancels, the thread sets its id, enters and leaves
shields and ends, and the pool gives the thread to the next activity. An exception
set for a thread strikes when the thread next runs Python code: also in the locked
sections of `shielded()`, which it cuts short before or after the depth is counted. From
inside a shield it reaches the end of the function only through the finally clauses of
the shields (`Leave`).

**SharedHeartbeats.** Registering is two steps, because the processor thread and
other event loops can get in between the store and the look at the size.

**Replayer.** Adds the iterator to `WorkflowWorker`: the event and the failure that
the eviction hook sets for the history being replayed. `OnEvictionHook` reads core's
reason: `NONDETERMINISM`, a failure, or a regular end (`CACHE_FULL`, `LANG_REQUESTED`).
Core may replay a history while `push_history` is still awaited (`Push`, `Pushed`), and
the push may raise (`PushFails`).

## Runs

| run | configuration | shows |
|---|---|---|
| `activity_lifecycle` | two activities, one of which makes up to 2 heartbeats (the second only while it is alone), 1 cancel, no suspending codec | each task is reported at most once and none ends silently; a cancelled result was asked for; heartbeats arrive in order and before the completion; `PollLoop` is implemented |
| `activity_codec` | one activity, suspending codec, 2 heartbeats, 2 cancels, fairness | the final completion is interrupted by nothing but a cancel of `run()`, activities end, a broken executor that was reported stops polling, a shutdown completes |
| `activity_silent_end` | violation | see Findings |
| `worker_run` | both workers, 2 activity tasks and 1 activation, a handler, 1 cancel, 1 caller of `shutdown()`, fairness | a completed shutdown means that nothing runs and the polls have ended; an early failure is raised; an error leaves an `async with` whose body lets it through; calls of `shutdown()` return |
| `run_context_hangs` | violation | see Findings |
| `thread_shield` | two activities, two threads, shields of depth 2, 2 cancels each | an activity's own cancel never strikes inside its shield and is thrown at most once |
| `thread_stranded` | violation | see Findings |
| `shared_heartbeats` | three activities, one poller, a queue of 2, 2 heartbeats each, fairness | unregistering flushes and leaves nothing behind; the processor is there while needed, and stops |
| `workflow_cache` | two runs of 3 activations, 2 threads, refused completions | the caches of core and worker agree; threads that outlive their timeout share an instance only with its eviction |
| `workflow_liveness` | two runs of 2 activations, 1 thread, codec, fairness | activations are answered, a shutdown ends the loop, `PollLoop` is implemented |
| `replayer` | two histories of up to 2 activations and an eviction, codec, fairness | a result is what the hook makes of the eviction of its own history, a failed activation is no success, a replay ends |
| `replay_hangs` | violation | see Findings |

**Bounds.** Two activities, or two runs, are enough for everything the code shares
between them: the failure queue, the dictionaries, the executor and the polls; no
code compares three. `worker_run` has two activity tasks, so that one can raise while
another is at work, and one activation, because the workflow worker waits for its own.
Two heartbeats fill a queue of two and leave a heartbeat task
that finds it empty; the real queue holds 1000. In `activity_lifecycle` the second
heartbeat is made only while the other activity has not been started
(`SecondHeartbeatAlone`): queues and heartbeat tasks belong to one activity. Two cancels give a cancel by the
server with a failed heartbeat before or after it, and a cancel of a cancelled
activity. Three activations of a run are a start, an eviction and a new start, with
the thread of the first still running. Three activities that share a heartbeat queue
of two let one register while another is being unregistered and a third fills the
queue. Deadlock is not checked, because all these systems end.

**Fairness.** Always weak fairness.

- `ActivityWorker`, `WorkflowWorker`, `SharedHeartbeats`: the steps that the event loop,
  core and the executors owe. A ready asyncio task runs, a call of core is answered, the
  poll of a worker that was shut down ends once core has its answers, the deadlock timer
  fires, a submitted call gets a thread when one is free. No error has to occur, and
  activity functions and workflow code owe nothing. Where a property needs them to come
  to an end, or core to refuse no completion, it says so in a hypothesis
  (`UserAndCoreCooperate`, the left sides of `ShutdownEndsLoop` and
  `ReplayEndsUnlessUnevicted`).
- `WorkerRun` assumes more of the user, because `Worker.shutdown` waits for it: `run()`
  or `async with` is reached at last, the body of the `async with` and the
  `on_fatal_error` handler end, and so does what works on a task. That the shutdown
  itself is not disturbed is the hypothesis `Undisturbed`.
- `Replayer`: also that core replays the histories it is given and evicts their runs.
  The user need not ask for the next history nor leave the context manager.

## Proofs

`ActivityWorkerProofs` proves, for every set of tokens, queue size, bound and with or
without a suspending codec: `TypeCorrect`, `AtMostOneCompletion` (`ReportedOnce`),
`NoSpuriousCancel` (`CancelledMeansAsked`) and `CompletionUninterrupted`
(`DoneUncancellable`). The assumptions are `FlagAssumption` and `BoundAssumption`.

None of these is inductive. `ReportedOnce` needs to know that core has accepted
nothing for an activity that is still on its way (otherwise `CompletionAccepted`
could be the second), hence the last conjunct of `ActivityInv`, and that a task the
drain may answer has not been started: with `pc = "none"` the record is untouched.
`CancelledMeansAsked` reads `byRequest` at the moment an exception is classified, so
`byRequest => asked` has to be carried along. `DoneUncancellable` needs that `done`
and the place in the code agree, because a cancel looks at the one and the awaits are
in the other, and that a cancel pending on a done activity comes from the gather of
a `run()` that was cancelled. `IInv` is the conjunction of these with the type invariant.

The steps of an activity's task all end in `Becomes(t, S)` for a set `S` of possible
records, so the lemmas `FinishType` to `PreparedGood` show that every record in such
a set is `Good`, and `TaskStepInv` that a step to a good record preserves `IInv`.
`CancelInv` and `RecordInv` do the same for cancels and heartbeats. What is left is
one case per action (`PollStepInv`, `WorkerStepInv`, `UserStepInv`,
`HeartbeatStepInv`), and `NextInv` puts them together.

Only model-checked: everything about the other modules so far; liveness, which is out
of the prover's reach; `HeartbeatsFlushed` and `HeartbeatsInOrder`; the
implementation of `PollLoop`.

## Findings

- `activity_silent_end`: a cancel that arrives while `encode_failure` is suspended is
  raised inside the except clause of `_run_activity`, whose inner handler catches
  `Exception` only. The task ends without a completion, and `wait_all_completed`,
  which "will not raise an exception", raises.
- `run_context_hangs`: when `validate()` fails in the `run()` that `__aenter__`
  started, nobody sets `_shutdown_complete_event`; the body is cancelled and
  `__aexit__` waits for that event for ever.
- `thread_stranded`: a cancel before `set_thread_id` is stored and not thrown when
  the id becomes known.
- `replay_hangs`: a failed eviction calls no hook, and the replay, which "should never
  take more than a few seconds", waits for ever.

Some guarantees hold only with an exception, which is part of the property:
`ReportedOnce` (the drain answers a cancel task like a start task), `ShutdownCompletes`
(a task polled in the turn in which the worker fails is dropped, and core waits for
it), `EarlyFailureRaised` (a loop that fails after the shutdown began is not reported
by `run()`), `ErrorLeavesContext` (an error that comes while `__aexit__` waits leaves `async with` as
a bare `CancelledError`, although `_worker.py:622-623` announces the error itself),
`BrokenExecutorStopsPolling` (an `encode_failure` that raises, or is cancelled, keeps the
`BrokenExecutor` from the worker), `DoneUncancellable` and `HeartbeatsFlushed` (a cancel
of `run()` in `wait_all_completed` reaches every activity, done or not), `ProcessorPresent` and `UnregisterEnds` (two event loops that
register at once, and a heartbeat function that raises), `ProcessorStops` (an
unregistering that found the queue full).

`EndsDone`, `HeartbeatsFlushed` and `HeartbeatsInOrder` hold without a suspending codec
only, and the last two say so. With one, TLC refutes them: `EndsDone` in
`activity_silent_end`; the others because every heartbeat has a task of its own. Of two
such tasks the second can be through its codec first, and core sees heartbeat 2 before
heartbeat 1; and the completion awaits the last task, while an earlier one may still be
encoding.

## Not modelled

The components with status `not_modelled` in `PROJECT.json`. Generated protobuf code,
metrics, logging and telemetry have no control worth a model; configuration is
abstracted to flags. Of the modelled files, the construction of activity info, headers
and interceptor chains is left out, as is what a payload converter makes of a value.

## Plan

1. `WorkflowInstance`: the deterministic event loop of `_workflow_instance.py`. Jobs in
   their four groups, `_run_once` with its conditions, pending commands by sequence
   number, cancellation of timers, activities (with local backoff), child workflows and
   external handles against their resolution, signals and updates with their buffers,
   patches, queries in read-only mode, eviction. Abstract specification: every command
   is resolved at most once and no coroutine runs after the workflow has completed.
   Replay of the same jobs gives the same commands.
2. Client: `WorkflowHandle.result` over run chains and pages, update polling, iterators,
   lazy connection with metadata updates; the time skipping of the testing environment.
3. Sandbox importer, bridge worker ownership, tuner and converter chains (the last two
   as operators checked against reference definitions).
4. Proofs: `ActivityWorker` implements `PollLoop`; invariants of `WorkerRun`
   (`ShutdownMeansStopped`), of `WorkflowWorker` (`CacheAgrees`, `InstanceExclusive`)
   and of `ThreadCancel`; then the type and command invariants of the workflow instance.
