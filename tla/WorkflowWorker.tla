--------------------------- MODULE WorkflowWorker ---------------------------
(***************************************************************************)
(* _WorkflowWorker of temporalio/worker/_workflow.py: the poll loop, one    *)
(* asyncio task per activation (_handle_activation), the instances cached   *)
(* per run, the threads activate() runs in, deadlock detection, evictions   *)
(* and the drain that replaces a failed loop.                               *)
(*                                                                         *)
(* A task <<r, k>> is the k-th activation of run r.  Core (external) hands  *)
(* out the next activation of a run when it has an answer for the last one, *)
(* starts only runs it does not have, and evicts a run after a failure.     *)
(***************************************************************************)
EXTENDS Naturals, FiniteSets

CONSTANTS
    Runs,
    MaxActivations,     \* bound: activations of one run
    ExecutorSize,       \* threads of the workflow task executor
    OwnExecutor,        \* TRUE: the worker created the executor
    HasCodec,           \* TRUE: payloads are decoded and encoded
    DeadlockDetection,  \* FALSE in debug mode
    SafeEviction,       \* ~disable_safe_eviction
    HasHook,            \* TRUE: there is an on_eviction_hook
    CoreRefuses         \* TRUE: core may refuse a completion

ASSUME SizeAssumption == MaxActivations \in Nat \ {0} /\ ExecutorSize \in Nat \ {0}
ASSUME FlagAssumption ==
    {OwnExecutor, HasCodec, DeadlockDetection, SafeEviction, HasHook, CoreRefuses} \subseteq BOOLEAN

VARIABLES
    loop,       \* where run(), or the drain in its place, is
    shut,       \* core's shutdown was initiated
    count,      \* run -> activations handed out
    view,       \* run -> what core knows of the run
    task,       \* task -> kind, where _handle_activation is, completion so far
    call,       \* task -> its activate() in the executor, and on which instance
    running,    \* _running_workflows: run -> the start that made its instance, or 0
    unevicted,  \* _could_not_evict_count
    throw,      \* _throw_after_activation is set
    hooked      \* tasks whose eviction hook was called

coreVars == <<count, view>>
vars == <<loop, shut, coreVars, task, call, running, unevicted, throw, hooked>>

Tasks == Runs \X (1..MaxActivations)
Kinds == {"none", "start", "job", "evict"}
Busy == {"decode", "activate", "encode", "complete", "accepted", "refused"}
Answered == {"accepted", "done", "drained"}
NoTask == [kind |-> "none", pc |-> "none", out |-> "ok"]
NoCall == [st |-> "none", inst |-> 0]

Init ==
    /\ loop = "polling" /\ shut = FALSE /\ throw = FALSE /\ unevicted = 0 /\ hooked = {}
    /\ count = [r \in Runs |-> 0] /\ view = [r \in Runs |-> "absent"]
    /\ task = [t \in Tasks |-> NoTask] /\ call = [t \in Tasks |-> NoCall]
    /\ running = [r \in Runs |-> 0]

At(t, pc) == task[t].pc = pc
Evicts(t) == task[t].kind = "evict"

-----------------------------------------------------------------------------
(* Core. *)

\* Core has an answer for everything it handed out.
AllAnswered == \A t \in Tasks : task[t].pc \in Answered \cup {"none"}

\* Core may hand out t, as an activation of this kind.
Offers(t, kind) ==
    /\ t[2] = count[t[1]] + 1
    /\ \A k \in 1..count[t[1]] : task[<<t[1], k>>].pc \in Answered
    /\ CASE view[t[1]] = "absent" -> kind = "start" /\ ~shut
         [] view[t[1]] = "cached" -> kind = "evict" \/ (kind = "job" /\ ~shut)
         [] view[t[1]] = "mustEvict" -> kind = "evict"

\* What core makes of an answer.
ViewAfter(kind, out) ==
    IF kind = "evict" THEN "absent" ELSE IF out = "ok" THEN "cached" ELSE "mustEvict"

-----------------------------------------------------------------------------
(* _handle_activation. *)

\* Mutant: the instance is removed only when core has accepted the eviction.
Complete_keeps(t, kind, out) ==
    /\ task' = [task EXCEPT ![t] = [kind |-> kind, out |-> out,
                    pc |-> IF HasCodec /\ kind # "evict" THEN "encode" ELSE "complete"]]
    /\ UNCHANGED <<running, unevicted>>

\* After the try block: the instance of an evicted run is removed, the completion
\* encoded if there is a codec, and sent.
Complete(t, kind, out) ==
    /\ task' = [task EXCEPT ![t] = [kind |-> kind, out |-> out,
                    pc |-> IF HasCodec /\ kind # "evict" THEN "encode" ELSE "complete"]]
    /\ running' = IF kind = "evict" THEN [running EXCEPT ![t[1]] = 0] ELSE running
    /\ UNCHANGED unevicted

\* The except clause: a failed eviction is not completed at all, any other
\* activation is completed with a failure.
Raise(t, kind) ==
    IF kind = "evict"
    THEN /\ task' = [task EXCEPT ![t] = [kind |-> kind, out |-> "ok", pc |-> "unevicted"]]
         /\ unevicted' = unevicted + 1
         /\ UNCHANGED running
    ELSE Complete(t, kind, "failed")

\* activate() is given to the executor.
Submit(t, kind, inst) ==
    /\ task' = [task EXCEPT ![t] = [kind |-> kind, out |-> "ok", pc |-> "activate"]]
    /\ call' = [call EXCEPT ![t] = [st |-> "queued", inst |-> inst]]
    /\ UNCHANGED unevicted

\* _create_workflow_instance, which may raise; the instance is cached and activated.
CreateWorkflowInstance(t) ==
    \/ UNCHANGED call /\ Raise(t, "start")
    \/ running' = [running EXCEPT ![t[1]] = t[2]] /\ Submit(t, "start", t[2])

\* From the decoded activation to the await of the activation: the instance is
\* looked up, or created.
Dispatch(t, kind) ==
    LET r == t[1]
        found == IF kind # "evict" \/ SafeEviction THEN running[r] ELSE 0
    IN  CASE found # 0 -> UNCHANGED running /\ Submit(t, kind, found)
          [] found = 0 /\ kind = "evict" -> UNCHANGED call /\ Complete(t, kind, "ok")
          [] found = 0 /\ kind = "job" -> UNCHANGED call /\ Raise(t, kind)
          [] found = 0 /\ kind = "start" -> CreateWorkflowInstance(t)

\* The loop polls an activation and starts its task, up to the first await.
Poll(t, kind) ==
    /\ loop = "polling" /\ Offers(t, kind)
    /\ count' = [count EXCEPT ![t[1]] = @ + 1]
    /\ IF HasCodec /\ kind # "evict"
       THEN /\ task' = [task EXCEPT ![t] = [kind |-> kind, out |-> "ok", pc |-> "decode"]]
            /\ UNCHANGED <<call, running, unevicted>>
       ELSE Dispatch(t, kind)
    /\ UNCHANGED <<loop, shut, view, throw, hooked>>

\* decode_activation returns, or raises.
Decoded(t) ==
    /\ At(t, "decode")
    /\ \/ Dispatch(t, task[t].kind)
       \/ UNCHANGED call /\ Raise(t, task[t].kind)
    /\ UNCHANGED <<loop, shut, coreVars, throw, hooked>>

ThreadFree == Cardinality({u \in Tasks : call[u].st = "running"}) < ExecutorSize

\* A thread of the executor takes a call.
CallStarts(t) ==
    /\ call[t].st = "queued" /\ ThreadFree
    /\ call' = [call EXCEPT ![t].st = "running"]
    /\ UNCHANGED <<loop, shut, coreVars, task, running, unevicted, throw, hooked>>

\* activate() returns a completion, failed or not, or, in an eviction, raises
\* because tasks of the workflow remain.  The task may have given up on it.
CallEnds(t) ==
    /\ call[t].st = "running"
    /\ call' = [call EXCEPT ![t] = NoCall]
    /\ IF At(t, "activate")
       THEN \/ Complete(t, task[t].kind, "ok")
            \/ ~Evicts(t) /\ Complete(t, task[t].kind, "failed")
            \/ Evicts(t) /\ Raise(t, "evict")
       ELSE UNCHANGED <<task, running, unevicted>>
    /\ UNCHANGED <<loop, shut, coreVars, throw, hooked>>

\* Mutants: no deadlock detection; the timeout completes without a failure.
Timeout_never(t) == FALSE /\ UNCHANGED vars
Timeout_ok(t) ==
    /\ DeadlockDetection /\ At(t, "activate")
    /\ call' = IF call[t].st = "queued" THEN [call EXCEPT ![t] = NoCall] ELSE call
    /\ Complete(t, task[t].kind, "ok")
    /\ UNCHANGED <<loop, shut, coreVars, throw, hooked>>

\* wait_for gives up: a call that waits for a thread is cancelled, one that has a
\* thread goes on in it.
Timeout(t) ==
    /\ DeadlockDetection /\ At(t, "activate") /\ (call[t].st = "queued" => ~ThreadFree)
    /\ call' = IF call[t].st = "queued" THEN [call EXCEPT ![t] = NoCall] ELSE call
    /\ Raise(t, task[t].kind)
    /\ UNCHANGED <<loop, shut, coreVars, throw, hooked>>

\* Mutant: the exception is put into the completion as it is.
Encoded_raw(t) ==
    /\ At(t, "encode")
    /\ \E out \in {task[t].out, "exception"} :
           task' = [task EXCEPT ![t].pc = "complete", ![t].out = out]
    /\ UNCHANGED <<loop, shut, coreVars, call, running, unevicted, throw, hooked>>

\* encode_completion returns, or raises, which makes the completion a failure.
Encoded(t) ==
    /\ At(t, "encode")
    /\ \E out \in {task[t].out, "failed"} :
           task' = [task EXCEPT ![t].pc = "complete", ![t].out = out]
    /\ UNCHANGED <<loop, shut, coreVars, call, running, unevicted, throw, hooked>>

\* complete_workflow_activation: core takes the completion, or refuses it, which
\* is only logged.
CompletionAccepted(t) ==
    /\ At(t, "complete")
    /\ task' = [task EXCEPT ![t].pc = "accepted"]
    /\ view' = [view EXCEPT ![t[1]] = ViewAfter(task[t].kind, task[t].out)]
    /\ UNCHANGED <<loop, shut, count, call, running, unevicted, throw, hooked>>

CompletionRefused(t) ==
    /\ CoreRefuses /\ At(t, "complete")
    /\ task' = [task EXCEPT ![t].pc = "refused"]
    /\ UNCHANGED <<loop, shut, coreVars, call, running, unevicted, throw, hooked>>

\* The task resumes and, after an eviction, calls the hook.  An exception of the
\* hook is kept and core's shutdown initiated.
TaskEnds(t) ==
    /\ task[t].pc \in {"accepted", "refused"}
    /\ task' = [task EXCEPT ![t].pc = IF At(t, "accepted") THEN "done" ELSE "lost"]
    /\ IF HasHook /\ Evicts(t)
       THEN /\ hooked' = hooked \cup {t}
            /\ \/ UNCHANGED <<throw, shut>>
               \/ throw' = TRUE /\ shut' = TRUE
       ELSE UNCHANGED <<hooked, throw, shut>>
    /\ UNCHANGED <<loop, coreVars, call, running, unevicted>>

-----------------------------------------------------------------------------
(* run() and drain_poll_queue(). *)

\* Mutant: the loop polls again.
PollShutdown_retries ==
    /\ loop = "polling" /\ shut /\ AllAnswered
    /\ UNCHANGED vars

\* The poll raises PollShutdownError, or something else.
PollShutdown ==
    /\ loop = "polling" /\ shut /\ AllAnswered
    /\ loop' = "ending"
    /\ UNCHANGED <<shut, coreVars, task, call, running, unevicted, throw, hooked>>

PollError ==
    /\ loop = "polling"
    /\ loop' = "failing"
    /\ UNCHANGED <<shut, coreVars, task, call, running, unevicted, throw, hooked>>

\* Mutant: the tasks are not waited for.
LoopEnds_early ==
    /\ loop \in {"ending", "failing"}
    /\ loop' = IF loop = "failing" \/ throw THEN "failed" ELSE "over"
    /\ UNCHANGED <<shut, coreVars, task, call, running, unevicted, throw, hooked>>

\* The finally clause waits for the tasks and shuts the executor down, which waits
\* for its threads.
LoopEnds ==
    /\ loop \in {"ending", "failing"}
    /\ \A t \in Tasks : task[t].pc \notin Busy
    /\ OwnExecutor => \A t \in Tasks : call[t].st = "none"
    /\ loop' = IF loop = "failing" \/ throw THEN "failed" ELSE "over"
    /\ UNCHANGED <<shut, coreVars, task, call, running, unevicted, throw, hooked>>

\* Worker.run initiates the shutdown and replaces a loop that has failed.
BeginShutdown ==
    /\ ~shut
    /\ shut' = TRUE
    /\ loop' = IF loop = "failed" THEN "draining" ELSE loop
    /\ UNCHANGED <<coreVars, task, call, running, unevicted, throw, hooked>>

\* drain_poll_queue answers every activation with a failure.
Drain(t, kind) ==
    /\ loop = "draining" /\ Offers(t, kind)
    /\ count' = [count EXCEPT ![t[1]] = @ + 1]
    /\ task' = [task EXCEPT ![t] = [kind |-> kind, out |-> "failed", pc |-> "drained"]]
    /\ view' = [view EXCEPT ![t[1]] = ViewAfter(kind, "failed")]
    /\ UNCHANGED <<loop, shut, call, running, unevicted, throw, hooked>>

\* Core refuses the drain's answer, which ends the drain with the error.
DrainRefused(t, kind) ==
    /\ CoreRefuses /\ loop = "draining" /\ Offers(t, kind)
    /\ count' = [count EXCEPT ![t[1]] = @ + 1]
    /\ task' = [task EXCEPT ![t] = [kind |-> kind, out |-> "failed", pc |-> "lost"]]
    /\ loop' = "failed"
    /\ UNCHANGED <<shut, view, call, running, unevicted, throw, hooked>>

\* The drain's poll raises; PollShutdownError ends it.
DrainRaises ==
    /\ loop = "draining"
    /\ \/ loop' = "failed"
       \/ shut /\ AllAnswered /\ loop' = "over"
    /\ UNCHANGED <<shut, coreVars, task, call, running, unevicted, throw, hooked>>

-----------------------------------------------------------------------------
TaskStep(t) ==
    \/ Decoded(t) \/ Timeout(t) \/ Encoded(t) \/ CompletionAccepted(t) \/ TaskEnds(t)

Next ==
    \/ \E t \in Tasks, kind \in Kinds : Poll(t, kind) \/ Drain(t, kind) \/ DrainRefused(t, kind)
    \/ \E t \in Tasks : TaskStep(t) \/ CompletionRefused(t) \/ CallStarts(t) \/ CallEnds(t)
    \/ PollShutdown \/ PollError \/ LoopEnds \/ BeginShutdown \/ DrainRaises

Spec == Init /\ [][Next]_vars

\* The event loop runs ready tasks, codecs end, core takes completions and ends
\* the polls when it is shut down, timers fire.  Threads owe nothing: workflow
\* code may never yield.  No poll has to fail.
FairSpec ==
    /\ Spec
    /\ \A t \in Tasks : WF_vars(TaskStep(t)) /\ WF_vars(CallStarts(t))
    /\ WF_vars(PollShutdown) /\ WF_vars(LoopEnds)
    /\ WF_vars(DrainRaises /\ loop' = "over")

-----------------------------------------------------------------------------
(* Properties. *)

\* Every variable keeps its type.
TypeOK ==
    /\ loop \in {"polling", "ending", "failing", "failed", "draining", "over"}
    /\ shut \in BOOLEAN /\ throw \in BOOLEAN /\ unevicted \in Nat /\ hooked \subseteq Tasks
    /\ count \in [Runs -> 0..MaxActivations]
    /\ view \in [Runs -> {"absent", "cached", "mustEvict"}]
    /\ task \in [Tasks -> [kind : Kinds, out : {"ok", "failed"},
                           pc : Busy \cup {"none", "done", "lost", "unevicted", "drained"}]]
    /\ call \in [Tasks -> [st : {"none", "queued", "running"}, inst : 0..MaxActivations]]
    /\ running \in [Runs -> 0..MaxActivations]

\* Between two activations of a run, core and the worker agree on whether the run
\* is cached, so that neither "Missing start workflow, workflow could have
\* unexpectedly been removed from cache" nor "Cache already exists for activation
\* with start job" ("this should never happen") comes up.
CacheAgrees ==
    \A r \in Runs : (\A k \in 1..count[r] : task[<<r, k>>].pc \in {"accepted", "done"}) =>
        /\ view[r] = "cached" => running[r] # 0
        /\ view[r] = "absent" => running[r] = 0

\* A thread that outlives its deadlock timeout never shares its workflow instance
\* with another activation of the run, other than the eviction.
InstanceExclusive ==
    \A t, u \in Tasks :
        /\ t # u /\ t[1] = u[1] /\ call[t].inst = call[u].inst
        /\ call[t].st = "running" /\ call[u].st = "running"
        => Evicts(t) \/ Evicts(u)

\* Deadlock detection answers every activation but an eviction, whatever workflow
\* code does with its thread.
ActivationsAnswered ==
    \A t \in Tasks : task[t].pc \in Busy /\ ~Evicts(t) ~> task[t].pc \in Answered

\* When threads come to an end and no eviction is left undone, a shutdown ends the
\* loop, or the drain in its place, as does one that the eviction hook initiated.
ShutdownEndsLoop ==
    (\A t \in Tasks : ([]<>(call[t].st # "running") /\ [](~At(t, "unevicted"))))
        => [](shut => <>(loop \in {"over", "failed"}))

\* The poll loop of the workflow worker as Worker.run sees it.
Contract == INSTANCE PollLoop WITH
    WaitsForTasks <- TRUE,
    loop <- CASE loop \in {"ending", "failing"} -> "polling" [] OTHER -> loop,
    held <- {t \in Tasks : task[t].pc \in (Busy \ {"accepted"}) \cup {"lost", "unevicted"}},
    answered <- {t \in Tasks : task[t].pc \in Answered},
    working <- {t \in Tasks : task[t].pc \in Busy},
    raised <- {}

\* The workflow worker takes, answers and drains tasks, fails and ends as PollLoop,
\* on which Worker.run builds, says.  The one step that is no step of PollLoop is
\* the exception of an eviction hook, which initiates the shutdown by itself;
\* Worker configures no such hook.
ImplementsPollLoop ==
    Contract!Init /\ [][Contract!Next \/ (~throw /\ throw')]_(Contract!vars)
=============================================================================
