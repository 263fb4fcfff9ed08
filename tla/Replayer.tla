------------------------------ MODULE Replayer ------------------------------
(***************************************************************************)
(* Replayer.workflow_replay_iterator of temporalio/worker/_replayer.py on   *)
(* top of the workflow worker: histories are pushed to core one at a time,  *)
(* and the eviction of a run, reported through the worker's eviction hook,  *)
(* ends its replay.  Run i is the run of the i-th history.                  *)
(***************************************************************************)
EXTENDS WorkflowWorker

VARIABLES
    iter,       \* where the iterator, or the end of the context manager, is
    pos,        \* the histories given to core; the last one is being replayed
    event,      \* last_replay_complete
    failure,    \* last_replay_failure
    reason,     \* run -> the reason in core's remove job, "no" before
    results     \* run -> the replay_failure yielded for it, "no" before

iterVars == <<iter, pos, event, failure, reason, results>>
rvars == <<vars, iterVars>>

\* RemoveFromCache.EvictionReason; "OTHER" stands for the values that are about
\* neither the history nor the answers of the worker (FATAL, CACHE_MISS...).
EvictionReasons == {"CACHE_FULL", "LANG_REQUESTED", "NONDETERMINISM", "LANG_FAIL", "OTHER"}
Failures == {"None", "NondeterminismError", "RuntimeError"}

RInit ==
    /\ Init
    /\ iter = "new" /\ pos = 0 /\ event = FALSE /\ failure = "unbound"
    /\ reason = [r \in Runs |-> "no"] /\ results = [r \in Runs |-> "no"]

-----------------------------------------------------------------------------
(* The worker and core. *)

\* Core starts the run of a pushed history, once, and evicts it: with LANG_FAIL
\* after a failed activation, else for any other reason.  The last activation
\* within the bound is left to the eviction.
ReplayPoll(t, kind) ==
    /\ Poll(t, kind)
    /\ kind = "start" => t[2] = 1 /\ t[1] <= pos
    /\ kind # "evict" => t[2] < MaxActivations
    /\ IF kind = "evict"
       THEN \E why \in EvictionReasons :
                /\ why = "LANG_FAIL" <=> view[t[1]] = "mustEvict"
                /\ reason' = [reason EXCEPT ![t[1]] = why]
       ELSE UNCHANGED reason
    /\ UNCHANGED <<iter, pos, event, failure, results>>

\* Mutants: a success assigns nothing; only changes of the history are failures;
\* only a failure sets the event.
OnEvictionHook_unbound(t) ==
    /\ failure' = CASE reason[t[1]] = "NONDETERMINISM" -> "NondeterminismError"
                    [] reason[t[1]] \in {"LANG_FAIL", "OTHER"} -> "RuntimeError"
                    [] OTHER -> failure
    /\ event' = TRUE
OnEvictionHook_changesOnly(t) ==
    /\ failure' = IF reason[t[1]] = "NONDETERMINISM" THEN "NondeterminismError" ELSE "None"
    /\ event' = TRUE
OnEvictionHook_quiet(t) ==
    /\ failure' = CASE reason[t[1]] = "NONDETERMINISM" -> "NondeterminismError"
                    [] reason[t[1]] \in {"LANG_FAIL", "OTHER"} -> "RuntimeError"
                    [] OTHER -> "None"
    /\ event' = (event \/ failure' # "None")

\* on_eviction_hook: a reason is nondeterminism, a failure, or the regular end.
OnEvictionHook(t) ==
    /\ failure' = CASE reason[t[1]] = "NONDETERMINISM" -> "NondeterminismError"
                    [] reason[t[1]] \notin {"NONDETERMINISM", "CACHE_FULL", "LANG_REQUESTED"} ->
                           "RuntimeError"
                    [] OTHER -> "None"
    /\ event' = TRUE

\* The end of an activation's task, with the hook, which never raises.
ReplayTaskEnds(t) ==
    /\ TaskEnds(t) /\ ~throw'
    /\ IF Evicts(t) THEN OnEvictionHook(t) ELSE UNCHANGED <<event, failure>>
    /\ UNCHANGED <<iter, pos, reason, results>>

ReplayTaskStep(t) ==
    /\ Decoded(t) \/ Timeout(t) \/ Encoded(t) \/ CompletionAccepted(t) \/ CallStarts(t)
    /\ UNCHANGED iterVars

ReplayLoopStep ==
    /\ PollShutdown \/ LoopEnds
    /\ UNCHANGED iterVars

-----------------------------------------------------------------------------
(* The iterator. *)

WorkerDone == loop \in {"over", "failed"}

\* The worker is created; if that raises, the finally clause trips over pusher.
Create ==
    /\ iter = "new"
    /\ iter' \in {"idle", "raised"}
    /\ UNCHANGED <<vars, pos, event, failure, reason, results>>

\* Mutant: the event of the last history is not cleared.
Push_stale ==
    /\ iter = "idle" /\ pos + 1 \in Runs
    /\ pos' = pos + 1 /\ iter' = "pushing"
    /\ UNCHANGED <<vars, event, failure, reason, results>>

\* The next history: the event is cleared and push_history awaited, during which
\* core may already replay the history.
Push ==
    /\ iter = "idle" /\ pos + 1 \in Runs
    /\ pos' = pos + 1 /\ event' = FALSE /\ iter' = "pushing"
    /\ UNCHANGED <<vars, failure, reason, results>>

\* push_history returns, and the iterator waits for the event or the worker.
Pushed ==
    /\ iter = "pushing"
    /\ iter' = "waiting"
    /\ UNCHANGED <<vars, pos, event, failure, reason, results>>

\* push_history raises, without the history having reached core; the iterator is
\* over, and with it the body of the context manager.
PushFails ==
    /\ iter = "pushing" /\ count[pos] = 0
    /\ pos' = pos - 1 /\ iter' = "closing"
    /\ UNCHANGED <<vars, event, failure, reason, results>>

\* The wait for the event or the worker is over: the worker's end is raised, and
\* without it the result yielded.
Woken ==
    /\ iter = "waiting" /\ (event \/ WorkerDone)
    /\ IF loop = "failed" \/ ~event
       THEN iter' = "closing" /\ UNCHANGED results
       ELSE iter' = "idle" /\ results' = [results EXCEPT ![pos] = failure]
    /\ UNCHANGED <<vars, pos, event, failure, reason>>

\* The user leaves the context manager, after the last history or before.
Leave ==
    /\ iter = "idle"
    /\ iter' = "closing"
    /\ UNCHANGED <<vars, pos, event, failure, reason, results>>

\* The finally clause closes the pusher, upon which core shuts down, and waits for
\* the worker.
Close ==
    /\ iter = "closing"
    /\ shut' = TRUE /\ iter' = "closed"
    /\ UNCHANGED <<loop, coreVars, task, call, running, unevicted, throw, hooked,
                   pos, event, failure, reason, results>>

Finalize ==
    /\ iter = "closed" /\ WorkerDone
    /\ iter' = "over"
    /\ UNCHANGED <<vars, pos, event, failure, reason, results>>

\* What the iterator does by itself; the next history and the end are the user's.
IterStep == Create \/ Pushed \/ Woken \/ Close \/ Finalize

RNext ==
    \/ \E t \in Tasks, kind \in Kinds : ReplayPoll(t, kind)
    \/ \E t \in Tasks : ReplayTaskEnds(t) \/ ReplayTaskStep(t)
    \/ \E t \in Tasks : CallEnds(t) /\ UNCHANGED iterVars
    \/ PollError /\ UNCHANGED iterVars
    \/ ReplayLoopStep \/ IterStep \/ Push \/ PushFails \/ Leave

RSpec == RInit /\ [][RNext]_rvars

\* Core replays what it is given and evicts it, tasks and timers run; workflow
\* code may never yield.
RFairSpec ==
    /\ RSpec
    /\ WF_rvars(IterStep) /\ WF_rvars(ReplayLoopStep)
    /\ \A t \in Tasks : /\ WF_rvars(ReplayTaskEnds(t)) /\ WF_rvars(ReplayTaskStep(t))
                        /\ WF_rvars(\E kind \in Kinds : ReplayPoll(t, kind))

-----------------------------------------------------------------------------
(* Properties. *)

\* The state of the iterator keeps its type; last_replay_failure, declared without
\* a value, is assigned whenever a result is made of it.
RTypeOK ==
    /\ iter \in {"new", "idle", "pushing", "waiting", "closing", "closed", "over", "raised"}
    /\ pos \in Runs \cup {0} /\ event \in BOOLEAN
    /\ failure \in Failures \cup {"unbound"}
    /\ reason \in [Runs -> EvictionReasons \cup {"no"}]
    /\ results \in [Runs -> Failures \cup {"no"}]

\* The result yielded for a history is about that history: its replay_failure is
\* the one that on_eviction_hook makes of the reason core evicted this history's run
\* for, never what an earlier history, or no eviction at all, left behind.
ResultsBelong ==
    \A r \in Runs : results[r] # "no" =>
        /\ reason[r] # "no"
        /\ results[r] = "None" <=> reason[r] \in {"CACHE_FULL", "LANG_REQUESTED"}
        /\ results[r] = "NondeterminismError" <=> reason[r] = "NONDETERMINISM"

\* A history is yielded without a replay_failure only if every activation of its
\* run was answered, and none with a failure: whatever failed on the way (decoding,
\* the instance, the workflow, the deadlock timeout, encoding) survives the
\* eviction that follows and the hook's reading of its reason.
FailuresReported ==
    \A t \in Tasks : results[t[1]] = "None" /\ task[t].kind # "none" =>
        task[t].pc \in Answered /\ task[t].out = "ok"

\* The wait for a replay "should never take more than a few seconds due to deadlock
\* detector": while the worker polls, it ends.
ReplayEnds == [](loop # "failing") => (iter = "waiting" ~> iter # "waiting")

\* It does when no eviction fails, and so does the context manager.
ReplayEndsUnlessUnevicted ==
    [](unevicted = 0) /\ []<>(\A t \in Tasks : call[t].st # "running")
        => /\ iter = "waiting" ~> iter # "waiting"
           /\ iter = "closing" ~> iter = "over"
=============================================================================
