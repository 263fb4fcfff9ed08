--------------------------- MODULE ActivityWorker ---------------------------
(***************************************************************************)
(* The activity worker of temporalio/worker/_activity.py: its poll loop    *)
(* (run), the drain that replaces a failed poll loop, the life of one      *)
(* activity task (_run_activity) from the poll to the completion, its      *)
(* cancellation, its heartbeats, and the wait for the last completions.    *)
(*                                                                         *)
(* Everything here runs on one asyncio event loop, so an action is what a  *)
(* task does between two suspension points.  A task's pc names the await   *)
(* it is suspended in.                                                     *)
(***************************************************************************)
EXTENDS Naturals, Sequences

CONSTANTS
    Tokens,         \* task tokens core may deliver
    AsyncCodec,     \* TRUE: the data converter has a codec that suspends
    ThreadExecutor, \* TRUE: activity_executor is a ThreadPoolExecutor
    QueueSize,      \* size of pending_heartbeats, 1000 in the code
    Heartbeaters,   \* bound: the activities that heartbeat
    MaxHeartbeats,  \* bound: heartbeats one activity makes
    MaxCancels      \* bound: cancel tasks core delivers in all

ASSUME FlagAssumption == AsyncCodec \in BOOLEAN /\ ThreadExecutor \in BOOLEAN
ASSUME BoundAssumption ==
    QueueSize \in Nat \ {0} /\ MaxHeartbeats \in Nat /\ MaxCancels \in Nat

VARIABLES
    poll,       \* where run(), or drain_poll_queue() in its place, is
    wait,       \* where wait_all_completed() is
    shut,       \* TRUE once Worker.run has initiated and notified the shutdown
    shutEvent,  \* thread event of _worker_shutdown_event
    seenSync,   \* _seen_sync_activity
    failQueue,  \* TRUE: _fail_worker_exception_queue holds an exception
    act,        \* token -> _RunningActivity and the state of its task
    running,    \* keys of _running_activities
    hb,         \* token -> heartbeat queue and heartbeat tasks
    cancels,    \* cancel tasks delivered so far
    asked,      \* history: tokens _cancel was called for while they were running
    untold,     \* history: tokens whose cancel task the drain answered
    sent,       \* core: token -> results of the completions it accepted
    recorded    \* core: token -> heartbeats it accepted, in order

life == <<act, running>>
core == <<sent, recorded>>
pollVars == <<poll, wait, shut, shutEvent, seenSync, cancels, asked, untold>>
vars == <<pollVars, failQueue, life, hb, core>>

Events == {"absent", "clear", "set"}
Results == {"empty", "completed", "failed", "cancelled", "async"}
Exceptions == {"Error", "Cancelled", "CompleteAsync", "BrokenExecutor"}
PollStates == {"polling", "raised", "draining", "returned"}
WaitStates == {"no", "waiting", "cancelling", "finished", "raised", "cancelled"}
BrokenStates == {"no", "thrown", "put"}
PCs == {"none", "decode", "exec", "encode", "encodeFailure", "awaitHb",
        "completing", "flushing", "ended", "escaped", "drained", "lost"}

Activity == [pc : PCs, sync : BOOLEAN, event : Events, done : BOOLEAN,
             byRequest : BOOLEAN, hbError : BOOLEAN, cancelPending : BOOLEAN,
             ran : BOOLEAN, broken : BrokenStates, result : Results]
HbTask == [st : {"new", "encoding", "finished"}, val : Nat]
Heartbeats == [made : Nat, pending : Seq(Nat), tasks : Seq(HbTask)]

NoActivity == [pc |-> "none", sync |-> FALSE, event |-> "absent", done |-> FALSE,
               byRequest |-> FALSE, hbError |-> FALSE, cancelPending |-> FALSE,
               ran |-> FALSE, broken |-> "no", result |-> "empty"]
\* The pcs of a task that has started and not ended.
AtWork == {"decode", "exec", "encode", "encodeFailure", "awaitHb", "completing", "flushing"}
NoHeartbeats == [made |-> 0, pending |-> <<>>, tasks |-> <<>>]

Init ==
    /\ poll = "polling" /\ wait = "no" /\ shut = FALSE /\ shutEvent = "absent" /\ seenSync = FALSE
    /\ failQueue = FALSE
    /\ act = [t \in Tokens |-> NoActivity]
    /\ running = {}
    /\ hb = [t \in Tokens |-> NoHeartbeats]
    /\ cancels = 0 /\ asked = {} /\ untold = {}
    /\ sent = [t \in Tokens |-> <<>>]
    /\ recorded = [t \in Tokens |-> <<>>]

-----------------------------------------------------------------------------
(* Pieces of _run_activity. *)

\* Mutant: a finished heartbeat task is still awaited.
HbBusy_forever(t) == hb[t].tasks # <<>>

\* The last heartbeat task exists and has not finished.
HbBusy(t) ==
    LET tasks == hb[t].tasks IN tasks # <<>> /\ tasks[Len(tasks)].st # "finished"

\* Mutants: done is never set; the heartbeat task is not awaited.
Finish_notDone(t, a, r) ==
    [a EXCEPT !.result = r, !.pc = IF HbBusy(t) THEN "awaitHb" ELSE "completing"]
Finish_noAwait(t, a, r) ==
    [a EXCEPT !.result = r, !.done = TRUE, !.pc = "completing"]

\* "Do final completion": the activity is done, the last heartbeat is awaited.
Finish(t, a, r) ==
    [a EXCEPT !.result = r, !.done = TRUE, !.ran = FALSE,
              !.pc = IF HbBusy(t) THEN "awaitHb" ELSE "completing"]

\* Mutants: every CancelledError is a cancellation; an unknown exception is
\* passed on as the result.
Classify_anyCancel(a, exc) ==
    CASE exc = "CompleteAsync" -> "async"
      [] exc = "Cancelled" /\ ~a.hbError -> "cancelled"
      [] OTHER -> "failed"
Classify_raw(a, exc) == IF exc = "CompleteAsync" THEN "async" ELSE exc

\* Which completion the except clause builds for an exception.
Classify(a, exc) ==
    CASE exc = "CompleteAsync" -> "async"
      [] exc = "Cancelled" /\ a.hbError -> "failed"
      [] exc = "Cancelled" /\ ~a.hbError /\ a.byRequest -> "cancelled"
      [] OTHER -> "failed"

\* What becomes of a BrokenExecutor on its way to the worker.
Broken(a, to) == [a EXCEPT !.broken = IF @ = "thrown" THEN to ELSE @]

\* Mutant: a broken executor is not reported to the worker.
FailureEncoded_neverPut(t, a) ==
    {Finish(t, a, a.result), Finish(t, Broken(a, "no"), "failed")}

\* The await of encode_failure works, and then a broken executor is put into the
\* worker's queue, or raises, which ends in a plain failed result.
FailureEncoded(t, a) ==
    {Finish(t, Broken(a, "put"), a.result), Finish(t, Broken(a, "no"), "failed")}

\* The except clause up to its await: the possible states of the activity
\* when its task is next suspended.
Catch(t, a, exc) ==
    LET b == [a EXCEPT !.result = Classify(a, exc), !.cancelPending = FALSE,
                       !.broken = IF exc = "BrokenExecutor" THEN "thrown" ELSE "no"]
    IN  IF exc = "CompleteAsync" THEN {Finish(t, b, "async")}
        ELSE IF AsyncCodec THEN {[b EXCEPT !.pc = "encodeFailure"]}
        ELSE FailureEncoded(t, b)

\* The step of an activity's task ends in one of the states in S.
Becomes(t, S) ==
    \E a \in S : /\ act' = [act EXCEPT ![t] = a]
                 /\ failQueue' = (failQueue \/ a.broken = "put")

\* Decoding the arguments, and encoding the result, work or raise.
Decoded(t, a) == {[a EXCEPT !.pc = "exec", !.ran = TRUE]} \cup Catch(t, a, "Error")
ResultEncoded(t, a) == {Finish(t, a, "completed")} \cup Catch(t, a, "Error")

\* The first steps for a registered activity, up to the first suspension.
Prepared(t, sync) ==
    LET a == [NoActivity EXCEPT !.sync = sync, !.event = "clear"]
    IN  IF AsyncCodec THEN {[a EXCEPT !.pc = "decode"]} ELSE Decoded(t, a)

-----------------------------------------------------------------------------
(* The poll loop, its drain, and the shutdown of Worker.run as it reaches    *)
(* this worker.                                                              *)

\* A start task for an activity that is not registered on this worker.
PollStartUnknown(t) ==
    /\ poll = "polling" /\ act[t].pc = "none"
    /\ running' = running \cup {t}
    /\ Becomes(t, Catch(t, NoActivity, "Error"))
    /\ UNCHANGED <<pollVars, hb, core>>

\* A start task for a registered one: the worker's shutdown event is created
\* lazily, and replaced by the first sync activity of a process executor.
PollStart(t, sync) ==
    /\ poll = "polling" /\ act[t].pc = "none"
    /\ running' = running \cup {t}
    /\ Becomes(t, Prepared(t, sync))
    /\ seenSync' = (seenSync \/ sync)
    /\ shutEvent' = IF shutEvent = "absent" \/ (sync /\ ~ThreadExecutor /\ ~seenSync)
                    THEN "clear" ELSE shutEvent
    /\ UNCHANGED <<poll, wait, shut, cancels, asked, untold, hb, core>>

\* Mutant: a done activity is cancelled too.
Cancelled_evenDone(a, request) ==
    [a EXCEPT !.byRequest = request, !.hbError = ~request,
              !.event = IF @ = "absent" THEN @ ELSE "set",
              !.cancelPending = @ \/ ~a.sync]

\* _RunningActivity.cancel: the reason overwrites the earlier one, and the task
\* of an async activity that is not done is cancelled.
Cancelled(a, request) ==
    [a EXCEPT !.byRequest = request, !.hbError = ~request,
              !.event = IF @ = "absent" THEN @ ELSE "set",
              !.cancelPending = @ \/ (~a.done /\ ~a.sync /\ a.pc # "escaped")]

\* A cancel task: _cancel warns when the token is not running.
PollCancel(t) ==
    /\ poll = "polling" /\ act[t].pc \notin {"none", "drained"}
    /\ cancels < MaxCancels
    /\ cancels' = cancels + 1
    /\ IF t \in running
       THEN act' = [act EXCEPT ![t] = Cancelled(@, TRUE)] /\ asked' = asked \cup {t}
       ELSE UNCHANGED <<act, asked>>
    /\ UNCHANGED <<poll, wait, shut, shutEvent, seenSync, untold, failQueue, running, hb, core>>

\* Core ends the polls of a shut down worker once every task it handed out
\* has been completed.
AllAnswered == \A t \in Tokens : act[t].pc = "none" \/ sent[t] # <<>>

PollShutdown ==
    /\ poll \in {"polling", "draining"} /\ shut /\ AllAnswered
    /\ poll' = "returned"
    /\ UNCHANGED <<wait, shut, shutEvent, seenSync, cancels, asked, untold, failQueue,
                   life, hb, core>>

\* The poll itself raises.
PollError ==
    /\ poll = "polling"
    /\ poll' = "raised"
    /\ UNCHANGED <<wait, shut, shutEvent, seenSync, cancels, asked, untold, failQueue,
                   life, hb, core>>

\* The poll loop or the drain raises, maybe with a task in its hands.
Drops ==
    \/ UNCHANGED act
    \/ \E t \in Tokens : act[t].pc = "none" /\ act' = [act EXCEPT ![t].pc = "lost"]

\* exception_task is done.  A poll that finished in the same turn of the loop is
\* dropped with the task it brought.
RaiseFromQueue ==
    /\ poll = "polling" /\ failQueue
    /\ poll' = "raised"
    /\ Drops
    /\ UNCHANGED <<wait, shut, shutEvent, seenSync, cancels, asked, untold, failQueue,
                   running, hb, core>>

\* Mutant: a drained task is not answered.
DrainStart_silent(t) ==
    /\ poll = "draining" /\ act[t].pc = "none"
    /\ act' = [act EXCEPT ![t].pc = "drained"]
    /\ UNCHANGED <<pollVars, failQueue, running, hb, core>>

\* drain_poll_queue answers start and cancel tasks alike.
DrainStart(t) ==
    /\ poll = "draining" /\ act[t].pc = "none"
    /\ act' = [act EXCEPT ![t].pc = "drained"]
    /\ sent' = [sent EXCEPT ![t] = Append(@, "failed")]
    /\ UNCHANGED <<pollVars, failQueue, running, hb, recorded>>

DrainCancel(t) ==
    /\ poll = "draining" /\ act[t].pc \notin {"none", "drained"}
    /\ cancels < MaxCancels
    /\ cancels' = cancels + 1
    /\ untold' = untold \cup {t}
    /\ sent' = [sent EXCEPT ![t] = Append(@, "failed")]
    /\ UNCHANGED <<poll, wait, shut, shutEvent, seenSync, asked, failQueue, life, hb, recorded>>

\* The drain's poll raises, or its completion, with the task it was for.
DrainError ==
    /\ poll = "draining"
    /\ poll' = "raised"
    /\ Drops
    /\ UNCHANGED <<wait, shut, shutEvent, seenSync, cancels, asked, untold, failQueue,
                   running, hb, core>>

\* Worker.run from initiate_shutdown to notify_shutdown, without a suspension:
\* a poll loop that has failed by then is replaced by the drain.
BeginShutdown ==
    /\ ~shut
    /\ shut' = TRUE
    /\ poll' = IF poll = "raised" THEN "draining" ELSE poll
    /\ shutEvent' = IF shutEvent = "absent" THEN "absent" ELSE "set"
    /\ UNCHANGED <<wait, seenSync, cancels, asked, untold, failQueue, life, hb, core>>

\* wait_all_completed, called when the poll loop or its drain is over; the
\* gather raises as soon as one of the tasks has.
WaitAllCompleted ==
    /\ shut /\ poll \in {"returned", "raised"} /\ wait = "no"
    /\ wait' = "waiting"
    /\ UNCHANGED <<poll, shut, shutEvent, seenSync, cancels, asked, untold, failQueue,
                   life, hb, core>>

\* run() is cancelled while it waits: the gather cancels each of the tasks, the
\* sync activities' and the done ones' too.
WaitAllCancelled ==
    /\ wait \in {"waiting", "cancelling"} /\ running # {}
    /\ wait' = "cancelling"
    /\ act' = [t \in Tokens |-> IF t \in running /\ act[t].pc \in AtWork
                               THEN [act[t] EXCEPT !.cancelPending = TRUE] ELSE act[t]]
    /\ UNCHANGED <<poll, shut, shutEvent, seenSync, cancels, asked, untold, failQueue,
                   running, hb, core>>

\* It raises CancelledError, not what the tasks did, once it has been cancelled.
WaitAllReturns ==
    /\ \/ /\ \A t \in running : act[t].pc = "ended"
          /\ \/ wait = "waiting" /\ wait' = "finished"
             \/ wait = "cancelling" /\ wait' = "cancelled"
       \/ /\ \E t \in running : act[t].pc = "escaped"
          /\ \/ wait = "waiting" /\ wait' = "raised"
             \/ wait = "cancelling" /\ wait' = "cancelled"
    /\ UNCHANGED <<poll, shut, shutEvent, seenSync, cancels, asked, untold, failQueue,
                   life, hb, core>>

-----------------------------------------------------------------------------
(* The activity's task, resumed from each of its suspension points.          *)

\* A pending cancel raises CancelledError in the await, which the codec behind it
\* lets through or swallows.
Raised(t, S) == IF act[t].cancelPending THEN S ELSE {}
Uncancelled(t) == [act[t] EXCEPT !.cancelPending = FALSE]

\* From the await of decode.  CancelledError is not an Exception, so it passes the
\* "Failed decoding" handlers.
DecodeResumes(t) ==
    /\ act[t].pc = "decode"
    /\ Becomes(t, Decoded(t, Uncancelled(t)) \cup Raised(t, Catch(t, act[t], "Cancelled")))
    /\ UNCHANGED <<pollVars, running, hb, core>>

\* The activity function returns.  It may have swallowed a CancelledError.
ExecReturns(t) ==
    /\ act[t].pc = "exec"
    /\ Becomes(t, IF AsyncCodec THEN {[Uncancelled(t) EXCEPT !.pc = "encode"]}
                  ELSE ResultEncoded(t, Uncancelled(t)))
    /\ UNCHANGED <<pollVars, running, hb, core>>

\* The activity function, or the executor it was given to, raises.
ExecRaises(t, exc) ==
    /\ act[t].pc = "exec"
    /\ Becomes(t, Catch(t, act[t], exc))
    /\ UNCHANGED <<pollVars, running, hb, core>>

\* The activity function catches the CancelledError and goes on.
ExecSwallows(t) ==
    /\ act[t].pc = "exec" /\ act[t].cancelPending
    /\ act' = [act EXCEPT ![t].cancelPending = FALSE]
    /\ UNCHANGED <<pollVars, failQueue, running, hb, core>>

\* From the await of encode(result).
EncodeResumes(t) ==
    /\ act[t].pc = "encode"
    /\ Becomes(t, ResultEncoded(t, Uncancelled(t))
                      \cup Raised(t, Catch(t, act[t], "Cancelled")))
    /\ UNCHANGED <<pollVars, running, hb, core>>

\* From the await of encode_failure: a CancelledError is not caught by the
\* "except Exception" around it and ends the task.
EncodeFailureResumes(t) ==
    /\ act[t].pc = "encodeFailure"
    /\ Becomes(t, FailureEncoded(t, Uncancelled(t))
                      \cup Raised(t, {[Broken(Uncancelled(t), "no") EXCEPT !.pc = "escaped"]}))
    /\ UNCHANGED <<pollVars, running, hb, core>>

\* The bare except around the await of the last heartbeat catches everything.
HeartbeatAwaited(t) ==
    /\ act[t].pc = "awaitHb" /\ ~HbBusy(t)
    /\ act' = [act EXCEPT ![t].pc = "completing", ![t].cancelPending = FALSE]
    /\ UNCHANGED <<pollVars, failQueue, running, hb, core>>

\* A cancel of the task goes on to the heartbeat task that it awaits, which ends
\* with nothing recorded, and with the queue as it is if it had not started.
HeartbeatCancelled(t) ==
    /\ act[t].pc = "awaitHb" /\ act[t].cancelPending /\ HbBusy(t)
    /\ hb' = [hb EXCEPT ![t].tasks[Len(hb[t].tasks)].st = "finished"]
    /\ UNCHANGED <<pollVars, failQueue, life, core>>

\* Mutant: an accepted completion is sent again.
CompletionAccepted_resends(t) ==
    /\ act[t].pc = "completing"
    /\ sent' = [sent EXCEPT ![t] = Append(@, act[t].result)]
    /\ UNCHANGED <<pollVars, failQueue, life, hb, recorded>>

\* complete_activity_task: core accepts the completion, then the task resumes
\* and forgets the activity; or core refuses it and the entry stays; or, either
\* way, a CancelledError passes the "except Exception" and ends the task.
CompletionAccepted(t) ==
    /\ act[t].pc = "completing"
    /\ act' = [act EXCEPT ![t].pc = "flushing"]
    /\ sent' = [sent EXCEPT ![t] = Append(@, act[t].result)]
    /\ UNCHANGED <<pollVars, failQueue, running, hb, recorded>>

CompletionReturns(t) ==
    /\ act[t].pc = "flushing" /\ ~act[t].cancelPending
    /\ act' = [act EXCEPT ![t].pc = "ended"]
    /\ running' = running \ {t}
    /\ UNCHANGED <<pollVars, failQueue, hb, core>>

CompletionRefused(t) ==
    /\ act[t].pc = "completing" /\ ~act[t].cancelPending
    /\ act' = [act EXCEPT ![t].pc = "ended"]
    /\ UNCHANGED <<pollVars, failQueue, running, hb, core>>

CompletionCancelled(t) ==
    /\ act[t].pc \in {"completing", "flushing"} /\ act[t].cancelPending
    /\ act' = [act EXCEPT ![t].pc = "escaped", ![t].cancelPending = FALSE]
    /\ UNCHANGED <<pollVars, failQueue, running, hb, core>>

-----------------------------------------------------------------------------
(* Heartbeats: activity.heartbeat() queues the details and starts a task that *)
(* drains the queue.                                                          *)

\* _heartbeat, by the function or by what it left running on the event loop or in
\* another thread.  A full queue raises into the caller instead.
Heartbeat(t) ==
    /\ act[t].pc \in {"exec", "encode", "encodeFailure"} /\ act[t].ran /\ t \in running /\ ~act[t].done
    /\ t \in Heartbeaters /\ hb[t].made < MaxHeartbeats
    /\ Len(hb[t].pending) < QueueSize
    /\ hb' = [hb EXCEPT ![t] =
                [made |-> @.made + 1, pending |-> Append(@.pending, @.made + 1),
                 tasks |-> Append(@.tasks, [st |-> "new", val |-> 0])]]
    /\ UNCHANGED <<pollVars, failQueue, life, core>>

\* New tasks take their first step in the order they were created.
IsNextNew(t, i) ==
    /\ hb[t].tasks[i].st = "new"
    /\ \A j \in 1..(i - 1) : hb[t].tasks[j].st # "new"

\* The heartbeat val of task i reaches core, or its encoding or recording raises,
\* which cancels the activity unless it is done.
Record(t, val) ==
    \/ /\ recorded' = [recorded EXCEPT ![t] = Append(@, val)]
       /\ UNCHANGED act
    \/ /\ act' = IF act[t].done THEN act
                 ELSE [act EXCEPT ![t] = Cancelled(@, FALSE)]
       /\ UNCHANGED recorded

\* Mutant: one entry is taken from the end of the queue.
HeartbeatStarts_fromEnd(t, i) ==
    /\ IsNextNew(t, i) /\ hb[t].pending # <<>>
    /\ LET pending == hb[t].pending
           val == pending[Len(pending)]
       IN  /\ hb' = [hb EXCEPT ![t].pending = SubSeq(@, 1, Len(@) - 1),
                               ![t].tasks[i] = [st |-> "finished", val |-> val]]
           /\ Record(t, val)
    /\ UNCHANGED <<pollVars, failQueue, running, sent>>

\* First step of _heartbeat_async: only the last of the queued details is used.
HeartbeatStarts(t, i) ==
    /\ IsNextNew(t, i)
    /\ ~(act[t].pc = "awaitHb" /\ act[t].cancelPending /\ i = Len(hb[t].tasks))
    /\ LET pending == hb[t].pending
           val == IF pending = <<>> THEN 0 ELSE pending[Len(pending)]
           Task(st) == [hb EXCEPT ![t].pending = <<>>,
                                  ![t].tasks[i] = [st |-> st, val |-> val]]
       IN  IF val = 0
           THEN hb' = Task("finished") /\ UNCHANGED <<act, recorded>>
           ELSE IF AsyncCodec
           THEN hb' = Task("encoding") /\ UNCHANGED <<act, recorded>>
           ELSE hb' = Task("finished") /\ Record(t, val)
    /\ UNCHANGED <<pollVars, failQueue, running, sent>>

\* It resumes from the await of encode.
HeartbeatResumes(t, i) ==
    /\ hb[t].tasks[i].st = "encoding"
    /\ hb' = [hb EXCEPT ![t].tasks[i].st = "finished"]
    /\ Record(t, hb[t].tasks[i].val)
    /\ UNCHANGED <<pollVars, failQueue, running, sent>>

-----------------------------------------------------------------------------
PollStep ==
    \/ \E t \in Tokens : \/ PollStartUnknown(t) \/ PollCancel(t)
                         \/ \E sync \in BOOLEAN : PollStart(t, sync)
                         \/ DrainStart(t) \/ DrainCancel(t)
    \/ PollShutdown \/ PollError \/ RaiseFromQueue \/ DrainError
    \/ BeginShutdown \/ WaitAllCompleted \/ WaitAllCancelled \/ WaitAllReturns

\* What the worker itself does for an activity that is out of user code.
TaskStep(t) ==
    \/ DecodeResumes(t) \/ EncodeResumes(t) \/ EncodeFailureResumes(t)
    \/ HeartbeatAwaited(t) \/ HeartbeatCancelled(t)
    \/ CompletionAccepted(t) \/ CompletionReturns(t)
    \/ CompletionRefused(t) \/ CompletionCancelled(t)

UserStep(t) ==
    \/ ExecReturns(t) \/ ExecSwallows(t) \/ Heartbeat(t)
    \/ \E exc \in Exceptions : ExecRaises(t, exc)

HeartbeatStep(t) ==
    \E i \in DOMAIN hb[t].tasks : HeartbeatStarts(t, i) \/ HeartbeatResumes(t, i)

Next ==
    \/ PollStep
    \/ \E t \in Tokens : TaskStep(t) \/ UserStep(t) \/ HeartbeatStep(t)

Spec == Init /\ [][Next]_vars

\* The event loop runs every ready task, core answers every call, and Worker.run
\* shuts the worker down when its poll loop has failed.  User code owes nothing.
Fairness ==
    /\ \A t \in Tokens : WF_vars(TaskStep(t)) /\ WF_vars(HeartbeatStep(t))
    /\ WF_vars(PollShutdown) /\ WF_vars(RaiseFromQueue)
    /\ WF_vars(poll = "raised" /\ BeginShutdown)
    /\ WF_vars(WaitAllCompleted) /\ WF_vars(WaitAllReturns)

FairSpec == Spec /\ Fairness

-----------------------------------------------------------------------------
(* Properties. *)

\* Every variable keeps its type.
TypeOK ==
    /\ poll \in PollStates /\ wait \in WaitStates /\ shut \in BOOLEAN /\ shutEvent \in Events
    /\ seenSync \in BOOLEAN /\ failQueue \in BOOLEAN
    /\ act \in [Tokens -> Activity]
    /\ running \subseteq Tokens
    /\ hb \in [Tokens -> Heartbeats]
    /\ cancels \in Nat /\ asked \subseteq Tokens /\ untold \subseteq Tokens
    /\ sent \in [Tokens -> Seq(Results)]
    /\ recorded \in [Tokens -> Seq(Nat)]

\* Core gets at most one completion for a task, whatever the interleaving of the
\* poll loop, the activity, its cancellation and the drain; the exception is a
\* task whose cancel the drain answered as if it were a start.
ReportedOnce == \A t \in Tokens : Len(sent[t]) <= 1 \/ t \in untold

\* _run_activity never ends without having gone through "Do final completion":
\* the task of an activity that is over has marked it done.
EndsDone == \A t \in Tokens : act[t].pc \in {"ended", "escaped"} => act[t].done

\* An activity is reported cancelled only if core asked for it while it ran; a
\* CancelledError of the user's own, or of a failed heartbeat, is a failure.
CancelledMeansAsked ==
    \A t \in Tokens : act[t].result = "cancelled" => t \in asked

\* Where run() has been cancelled in wait_all_completed.
Interrupted == wait \in {"cancelling", "cancelled"}

\* The awaits of the final completion have no handler for a CancelledError.  None of
\* core's cancel tasks, and no failed heartbeat, raises one there, however late it
\* comes: the task of a done activity is cancelled, or ended by an exception, only
\* after run() was cancelled in wait_all_completed, whose gather takes every task
\* along (_RunningActivity.cancel, _run_activity).
DoneUncancellable ==
    \A t \in Tokens :
        act[t].done /\ (act[t].cancelPending \/ act[t].pc = "escaped") => Interrupted

\* When the completion is handed to core no heartbeat of the activity is left,
\* queued or half way: "We mark the activity as done and let the currently
\* running heartbeat task finish".  Only the last heartbeat task is awaited, so
\* this is so when no codec suspends an earlier one, and when no cancel of run()
\* goes through the await to the heartbeat.
HeartbeatsFlushed ==
    ~AsyncCodec /\ ~Interrupted => \A t \in Tokens : act[t].pc \in {"completing", "flushing", "ended"} =>
        /\ hb[t].pending = <<>>
        /\ \A i \in DOMAIN hb[t].tasks : hb[t].tasks[i].st = "finished"

\* Core never sees an older heartbeat after a newer one, unless a codec lets the
\* tasks of _heartbeat_async overtake each other.
HeartbeatsInOrder ==
    ~AsyncCodec => \A t \in Tokens : \A i, j \in DOMAIN recorded[t] :
        i < j => recorded[t][i] < recorded[t][j]

\* An activity whose function is over gets to the end of its task: no await of
\* the completion waits for something that does not come.
ActivityEnds ==
    \A t \in Tokens :
        act[t].pc \in {"encode", "encodeFailure", "awaitHb", "completing", "flushing"}
            ~> act[t].pc \in {"ended", "escaped"}

\* A BrokenExecutor that an activity throws ends the poll loop, and with it the
\* worker, unless encode_failure raises or is cancelled, which keeps the exception
\* out of the worker's queue; once it is there nothing saves the worker.
BrokenExecutorStopsPolling ==
    \A t \in Tokens :
        /\ act[t].broken = "thrown" ~> act[t].broken = "no" \/ poll # "polling"
        /\ act[t].broken = "put" ~> poll # "polling"

\* Hypotheses on the outside: activity functions return, core refuses no
\* completion.
UserAndCoreCooperate ==
    /\ \A t \in Tokens : []<>(act[t].pc # "exec")
    /\ [](\A t \in Tokens : ~(act[t].pc = "ended" /\ sent[t] = <<>>))

\* If moreover no polled task was dropped and no activity task ended without a
\* completion, a shutdown comes to its end.
ShutdownCompletes ==
    UserAndCoreCooperate /\ [](\A t \in Tokens : act[t].pc \notin {"lost", "escaped"})
        => (shut ~> wait \in {"finished", "raised", "cancelled"})

\* The worker's poll loop as Worker.run sees it.
Contract == INSTANCE PollLoop WITH
    Tasks <- Tokens,
    WaitsForTasks <- FALSE,
    loop <- CASE poll = "raised" -> "failed" [] poll = "returned" -> "over" [] OTHER -> poll,
    held <- {t \in Tokens : act[t].pc # "none" /\ sent[t] = <<>>},
    answered <- {t \in Tokens : sent[t] # <<>>},
    working <- {t \in Tokens : act[t].pc \in AtWork},
    raised <- {t \in Tokens : act[t].pc = "escaped"}

\* The activity worker takes, answers and drains tasks, fails and ends as PollLoop,
\* on which Worker.run builds, says: in particular core's poll ends only when each
\* task has an answer, and only a working task or the drain gives one.
ImplementsPollLoop == Contract!Spec
=============================================================================
