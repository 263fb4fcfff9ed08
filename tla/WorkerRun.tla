------------------------------ MODULE WorkerRun ------------------------------
(***************************************************************************)
(* Worker.run, Worker.shutdown and the async context manager of            *)
(* temporalio/worker/_worker.py, composed with the poll loops of the two   *)
(* workers (PollLoop).  One call of run is made, by a task of the user or   *)
(* by __aenter__; shutdown() is called any number of times, from any task,  *)
(* before, during and after it.                                             *)
(*                                                                         *)
(* An action is what a task does between two awaits; pc names the await     *)
(* run is suspended in.                                                     *)
(***************************************************************************)
EXTENDS Naturals

CONSTANTS
    ActivityTasks, WorkflowTasks,   \* tasks core may hand out to each worker
    Callers,        \* tasks that call shutdown()
    HasActivities, HasWorkflows,    \* which of the two workers exist
    HasHandler,     \* TRUE: on_fatal_error is configured
    MaxCancels      \* bound: times the user cancels the task that calls run()
                    \* or that is inside the async with

ASSUME FlagAssumption ==
    /\ HasActivities \in BOOLEAN /\ HasWorkflows \in BOOLEAN
    /\ HasActivities \/ HasWorkflows
    /\ HasHandler \in BOOLEAN /\ MaxCancels \in Nat

VARIABLES
    pc,         \* the await of run(), or how it ended
    exception,  \* run()'s exception variable, or what it raised
    asked,      \* _shutdown_event
    complete,   \* _shutdown_complete_event
    cancels,    \* cancels issued so far
    caller,     \* state of each caller of shutdown()
    ctx,        \* the async with statement (Context)
    coreShut,   \* core's shutdown was initiated
    finalized,  \* finalize_shutdown was reached
    failed,     \* history: whether a loop failed before or after coreShut
    aLoop, aHeld, aAnswered, aWorking, aRaised,      \* the activity worker
    wLoop, wHeld, wAnswered, wWorking, wRaised       \* the workflow worker

aTasks == <<aHeld, aAnswered, aWorking, aRaised>>
wTasks == <<wHeld, wAnswered, wWorking, wRaised>>
aVars == <<aLoop, aTasks>>
wVars == <<wLoop, wTasks>>
runVars == <<pc, exception, cancels, finalized>>
outside == <<asked, complete, caller, ctx>>
vars == <<runVars, outside, coreShut, failed, aVars, wVars>>

Act == INSTANCE PollLoop WITH Tasks <- ActivityTasks, WaitsForTasks <- FALSE,
                              loop <- aLoop, shut <- coreShut,
                              held <- aHeld, answered <- aAnswered,
                              working <- aWorking, raised <- aRaised
Wf == INSTANCE PollLoop WITH Tasks <- WorkflowTasks, WaitsForTasks <- TRUE,
                             loop <- wLoop, shut <- coreShut,
                             held <- wHeld, answered <- wAnswered,
                             working <- wWorking, raised <- wRaised

Exceptions == {"none", "invalid", "fatal", "cancelled", "error"}
PCs == {"new", "validating", "waiting", "handler", "stopping", "flushing", "unwinding",
        "finalizing", "returned", "raised"}

\* The async with statement: what its body ended with (exc), whether a cancel of its
\* task is on its way, _async_context_run_exception (error), what became of the
\* CancelledError that announced it (heard, a history) and what leaves the statement.
Context == [st : {"outside", "body", "exiting", "left"}, exc : Exceptions,
            cancel : BOOLEAN, error : Exceptions,
            heard : {"no", "through", "swallowed"}, outcome : Exceptions]
NoContext == [st |-> "outside", exc |-> "none", cancel |-> FALSE, error |-> "none",
              heard |-> "no", outcome |-> "none"]

Init ==
    /\ pc = "new" /\ exception = "none" /\ asked = FALSE /\ complete = FALSE
    /\ cancels = 0 /\ caller = [c \in Callers |-> "idle"] /\ ctx = NoContext
    /\ coreShut = FALSE /\ finalized = FALSE /\ failed = {}
    /\ aLoop = "idle" /\ aHeld = {} /\ aAnswered = {} /\ aWorking = {} /\ aRaised = {}
    /\ wLoop = "idle" /\ wHeld = {} /\ wAnswered = {} /\ wWorking = {} /\ wRaised = {}

-----------------------------------------------------------------------------
(* The end of run().  The wrapper of __aenter__ remembers what run raised and *)
(* cancels the task inside the async with.                                    *)

\* Mutant: the inner task is not cancelled.
Ends_noCancel(exc) ==
    /\ pc' = IF exc = "none" THEN "returned" ELSE "raised"
    /\ exception' = exc
    /\ ctx' = IF exc # "none" /\ ctx.st \in {"body", "exiting"}
              THEN [ctx EXCEPT !.error = exc] ELSE ctx

\* run() returns or raises exc.
Ends(exc) ==
    /\ pc' = IF exc = "none" THEN "returned" ELSE "raised"
    /\ exception' = exc
    /\ ctx' = IF exc # "none" /\ ctx.st \in {"body", "exiting"}
              THEN [ctx EXCEPT !.cancel = TRUE, !.error = exc] ELSE ctx

\* Mutant: the loops start in a state of their own.
Validated_running ==
    /\ pc = "validating"
    /\ pc' = "waiting" /\ aLoop' = "running" /\ wLoop' = "running"
    /\ UNCHANGED <<exception, cancels, finalized, outside, coreShut, failed,
                   aTasks, wTasks>>

\* run() is called and awaits the validation, which works, fails or is cancelled.
CallRun ==
    /\ pc = "new"
    /\ pc' = "validating"
    /\ UNCHANGED <<exception, cancels, finalized, outside, coreShut, failed, aVars, wVars>>

Validated ==
    /\ pc = "validating"
    /\ pc' = "waiting"
    /\ IF HasActivities THEN aLoop' = "polling" ELSE UNCHANGED aLoop
    /\ IF HasWorkflows THEN wLoop' = "polling" ELSE UNCHANGED wLoop
    /\ UNCHANGED <<exception, cancels, finalized, outside, coreShut, failed,
                   aTasks, wTasks>>

ValidationFails ==
    /\ pc = "validating"
    /\ Ends("invalid")
    /\ UNCHANGED <<cancels, finalized, asked, complete, caller, coreShut, failed,
                   aVars, wVars>>

\* Mutant: the exception is forgotten.
BeginShutdown_loses(exc) ==
    /\ pc' = "stopping" /\ exception' = "none" /\ coreShut' = TRUE
    /\ aLoop' = (IF aLoop = "failed" THEN "draining" ELSE aLoop)
    /\ wLoop' = (IF wLoop = "failed" THEN "draining" ELSE wLoop)
    /\ UNCHANGED <<finalized, outside, failed, aTasks,
                   wTasks>>

\* From the end of the try block to the wait for the poll loops: core's
\* shutdown is initiated and a loop that has failed is replaced by its drain.
BeginShutdown(exc) ==
    /\ pc' = "stopping" /\ exception' = exc /\ coreShut' = TRUE
    /\ aLoop' = (IF aLoop = "failed" THEN "draining" ELSE aLoop)
    /\ wLoop' = (IF wLoop = "failed" THEN "draining" ELSE wLoop)
    /\ UNCHANGED <<finalized, outside, failed, aTasks,
                   wTasks>>

\* The shielded wait is over: shutdown was asked for or a loop has failed.  The
\* exception is the one of a failed loop, whatever woke the wait.
Woken ==
    /\ pc = "waiting" /\ (asked \/ aLoop = "failed" \/ wLoop = "failed")
    /\ LET exc == IF aLoop = "failed" \/ wLoop = "failed" THEN "fatal" ELSE "none"
       IN  IF exc = "fatal" /\ HasHandler
           THEN /\ pc' = "handler" /\ exception' = exc
                /\ UNCHANGED <<finalized, outside, coreShut, failed, aVars, wVars>>
           ELSE BeginShutdown(exc)
    /\ UNCHANGED cancels

\* on_fatal_error returns or raises, which is ignored.
HandlerReturns ==
    /\ pc = "handler"
    /\ BeginShutdown(exception)
    /\ UNCHANGED cancels

\* Mutant: run goes on while the loops poll.
LoopsOver_early ==
    /\ pc = "stopping"
    /\ pc' = IF HasActivities THEN "flushing" ELSE "finalizing"
    /\ UNCHANGED <<exception, cancels, finalized, outside, coreShut, failed, aVars, wVars>>

\* Both poll loops, or the drains in their place, are over.
LoopsOver ==
    /\ pc = "stopping"
    /\ aLoop \in {"idle", "over", "failed"} /\ wLoop \in {"idle", "over", "failed"}
    /\ pc' = IF HasActivities THEN "flushing" ELSE "finalizing"
    /\ UNCHANGED <<exception, cancels, finalized, outside, coreShut, failed, aVars, wVars>>

\* Mutant: activities still at work are not waited for.
AllCompleted_early ==
    /\ pc = "flushing"
    /\ pc' = "finalizing"
    /\ UNCHANGED <<exception, cancels, finalized, outside, coreShut, failed, aVars, wVars>>

\* wait_all_completed: every activity's task has ended, or one of them raised.
AllCompleted ==
    /\ pc = "flushing" /\ aWorking = {} /\ aRaised = {}
    /\ pc' = "finalizing"
    /\ UNCHANGED <<exception, cancels, finalized, outside, coreShut, failed, aVars, wVars>>

AllCompletedRaises ==
    /\ pc = "flushing" /\ aRaised # {}
    /\ Ends("cancelled")
    /\ UNCHANGED <<cancels, finalized, asked, complete, caller, coreShut, failed,
                   aVars, wVars>>

\* The wait was cancelled: its gather has cancelled the activities' tasks and ends
\* when all of them have, or when one of them raises.
Unwound ==
    /\ pc = "unwinding" /\ (aWorking = {} \/ aRaised # {})
    /\ Ends("cancelled")
    /\ UNCHANGED <<cancels, finalized, asked, complete, caller, coreShut, failed,
                   aVars, wVars>>

\* finalize_shutdown works or not; the completion event is set and run ends.
Finalize ==
    /\ pc = "finalizing"
    /\ finalized' = TRUE /\ complete' = TRUE
    /\ Ends(exception)
    /\ UNCHANGED <<cancels, asked, caller, coreShut, failed, aVars, wVars>>

\* The user cancels the task that called run().  In the shielded wait this is a
\* shutdown; "except:" ignores it around on_fatal_error and finalize_shutdown;
\* wait_all_completed passes it on to the activities; in the other awaits it ends
\* run().
UserCancel ==
    /\ ctx.st = "outside" /\ cancels < MaxCancels
    /\ cancels' = cancels + 1
    /\ \/ /\ pc \in {"validating", "stopping"}
          /\ Ends("cancelled")
          /\ UNCHANGED <<finalized, asked, complete, caller, coreShut, failed, aVars, wVars>>
       \/ /\ pc \in {"flushing", "unwinding"}
          /\ pc' = "unwinding"
          /\ UNCHANGED <<exception, finalized, outside, coreShut, failed, aVars, wVars>>
       \/ pc = "waiting" /\ BeginShutdown("cancelled")
       \/ pc = "handler" /\ BeginShutdown(exception)
       \/ /\ pc = "finalizing"
          /\ finalized' = TRUE /\ complete' = TRUE
          /\ Ends(exception)
          /\ UNCHANGED <<asked, caller, coreShut, failed, aVars, wVars>>

-----------------------------------------------------------------------------
(* shutdown() and the async with statement. *)

\* Mutant: the shutdown event is not set.
CallShutdown_unheard(c) ==
    /\ caller[c] = "idle"
    /\ caller' = [caller EXCEPT ![c] = "waiting"]
    /\ UNCHANGED <<runVars, asked, complete, ctx, coreShut, failed, aVars, wVars>>

CallShutdown(c) ==
    /\ caller[c] = "idle"
    /\ asked' = TRUE
    /\ caller' = [caller EXCEPT ![c] = "waiting"]
    /\ UNCHANGED <<runVars, complete, ctx, coreShut, failed, aVars, wVars>>

ShutdownReturns(c) ==
    /\ caller[c] = "waiting" /\ complete
    /\ caller' = [caller EXCEPT ![c] = "returned"]
    /\ UNCHANGED <<runVars, asked, complete, ctx, coreShut, failed, aVars, wVars>>

Enter ==
    /\ pc = "new"
    /\ ctx' = [ctx EXCEPT !.st = "body"]
    /\ pc' = "validating"
    /\ UNCHANGED <<exception, cancels, finalized, asked, complete, caller, coreShut,
                   failed, aVars, wVars>>

\* The user cancels the task inside the async with; run() has a task of its own.
ContextCancel ==
    /\ ctx.st \in {"body", "exiting"} /\ cancels < MaxCancels
    /\ cancels' = cancels + 1
    /\ ctx' = [ctx EXCEPT !.cancel = TRUE]
    /\ UNCHANGED <<pc, exception, finalized, asked, complete, caller, coreShut, failed,
                   aVars, wVars>>

\* A cancel of the inner task is raised in the await the body is in.  With it the
\* body hears of the worker's error, if there is one.
Heard(how) == IF ctx.cancel /\ ctx.error # "none" THEN how ELSE ctx.heard

\* The body catches it and goes on.
BodySwallows ==
    /\ ctx.st = "body" /\ ctx.cancel
    /\ ctx' = [ctx EXCEPT !.cancel = FALSE, !.heard = Heard("swallowed")]
    /\ UNCHANGED <<runVars, asked, complete, caller, coreShut, failed, aVars, wVars>>

\* What __aexit__ raises after its await of shutdown().
Outcome(exc) == IF exc = "cancelled" /\ ctx.error # "none" THEN ctx.error ELSE exc

\* The body returns, or raises CancelledError or an exception of its own, and
\* __aexit__ calls shutdown(), which does not suspend when all is over.
BodyEnds(exc) ==
    /\ ctx.st = "body"
    /\ LET heard == Heard(IF exc = "cancelled" THEN "through" ELSE "swallowed")
           body == [ctx EXCEPT !.exc = exc, !.cancel = FALSE, !.heard = heard]
       IN  ctx' = IF complete THEN [body EXCEPT !.st = "left", !.outcome = Outcome(exc)]
                  ELSE [body EXCEPT !.st = "exiting"]
    /\ asked' = TRUE
    /\ UNCHANGED <<runVars, complete, caller, coreShut, failed, aVars, wVars>>

\* __aexit__ after its await of shutdown().
ExitReturns ==
    /\ ctx.st = "exiting" /\ ~ctx.cancel /\ complete
    /\ ctx' = [ctx EXCEPT !.st = "left", !.outcome = Outcome(ctx.exc)]
    /\ UNCHANGED <<runVars, asked, complete, caller, coreShut, failed, aVars, wVars>>

\* The cancel of the inner task reaches it in that await.
ExitCancelled ==
    /\ ctx.st = "exiting" /\ ctx.cancel
    /\ ctx' = [ctx EXCEPT !.st = "left", !.cancel = FALSE, !.outcome = "cancelled"]
    /\ UNCHANGED <<runVars, asked, complete, caller, coreShut, failed, aVars, wVars>>

-----------------------------------------------------------------------------
\* A step of one of the workers.
Failures == IF coreShut THEN {"after"} ELSE {"before"}

ActivityStep ==
    /\ Act!Step
    /\ failed' = failed \cup (IF aLoop' # aLoop /\ aLoop' = "failed" THEN Failures ELSE {})
    /\ UNCHANGED <<runVars, outside, wVars>>

WorkflowStep ==
    /\ Wf!Step
    /\ failed' = failed \cup (IF wLoop' # wLoop /\ wLoop' = "failed" THEN Failures ELSE {})
    /\ UNCHANGED <<runVars, outside, aVars>>

RunStep ==
    \/ Validated \/ ValidationFails \/ Woken \/ HandlerReturns \/ LoopsOver
    \/ AllCompleted \/ AllCompletedRaises \/ Unwound \/ Finalize

Next ==
    \/ CallRun \/ RunStep \/ UserCancel
    \/ \E c \in Callers : CallShutdown(c) \/ ShutdownReturns(c)
    \/ Enter \/ ContextCancel \/ BodySwallows \/ ExitReturns \/ ExitCancelled
    \/ \E exc \in {"none", "error", "cancelled"} : BodyEnds(exc)
    \/ ActivityStep \/ WorkflowStep

Spec == Init /\ [][Next]_vars

\* The event loop runs ready tasks; core ends the polls of a shut down worker
\* and accepts completions; activities end; the body of the async with ends.
Fairness ==
    /\ WF_vars(RunStep) /\ WF_vars(CallRun \/ Enter)
    /\ \A c \in Callers : WF_vars(ShutdownReturns(c))
    /\ WF_vars(\E exc \in {"none", "error", "cancelled"} : BodyEnds(exc))
    /\ WF_vars(ExitReturns) /\ WF_vars(ExitCancelled)
    /\ WF_vars(Act!Over /\ ActivityStep) /\ WF_vars(Wf!Over /\ WorkflowStep)
    /\ \A t \in ActivityTasks : /\ WF_vars(Act!Answer(t) /\ ActivityStep)
                                /\ WF_vars(t \notin aHeld /\ Act!Finish(t) /\ ActivityStep)
    /\ \A t \in WorkflowTasks : /\ WF_vars(Wf!Answer(t) /\ WorkflowStep)
                                /\ WF_vars(t \notin wHeld /\ Wf!Finish(t) /\ WorkflowStep)

FairSpec == Spec /\ Fairness

-----------------------------------------------------------------------------
(* Properties. *)

\* Every variable keeps its type.
TypeOK ==
    /\ pc \in PCs /\ exception \in Exceptions
    /\ asked \in BOOLEAN /\ complete \in BOOLEAN /\ coreShut \in BOOLEAN
    /\ finalized \in BOOLEAN /\ cancels \in Nat
    /\ caller \in [Callers -> {"idle", "waiting", "returned"}]
    /\ ctx \in Context
    /\ failed \subseteq {"before", "after"}
    /\ Act!TypeOK /\ Wf!TypeOK

Stopped(loop) == loop \in {"idle", "over", "failed"}

\* shutdown() "will not return until the worker has completed shutting down": no
\* poll loop or drain runs, no activity or activation is at work, and core's
\* worker has been finalized, whoever asked for the shutdown and whatever failed.
ShutdownMeansStopped ==
    \A c \in Callers : caller[c] = "returned" =>
        /\ finalized /\ Stopped(aLoop) /\ Stopped(wLoop)
        /\ aWorking = {} /\ wWorking = {}

\* Unless a loop fails during the shutdown itself, core has ended the polls of
\* both workers by the time the shutdown is complete and has an answer for every
\* task it handed out: a loop that failed before was replaced by its drain.
PollsEnded ==
    complete /\ "after" \notin failed =>
        /\ aLoop \in {"idle", "over"} /\ aHeld = {}
        /\ wLoop \in {"idle", "over"} /\ wHeld = {}

\* A loop that failed before the shutdown began makes run() raise, even when a
\* shutdown was asked for, or the user cancelled run(), at the same time.
EarlyFailureRaised == "before" \in failed => pc # "returned"

\* An error of run() comes out of the async with statement when its body lets the
\* CancelledError through that announced it, and a CancelledError in its place when
\* it came while __aexit__ waited for the shutdown, or when nothing but a cancel
\* ended that wait; it is lost only to a body that swallowed or wrapped it.
ErrorLeavesContext ==
    ctx.st = "left" /\ ctx.error # "none" /\ ctx.heard # "swallowed" =>
        ctx.outcome = IF ctx.heard = "through" /\ complete THEN ctx.error ELSE "cancelled"

\* No task of core is left without somebody working on it, and run() is not broken
\* off (a failed validation, a cancel of the shutdown, an activity task that raised).
Undisturbed ==
    /\ [](aHeld \subseteq aWorking /\ wHeld \subseteq wWorking)
    /\ [](pc = "raised" => complete)

\* Then every call of shutdown() returns, be it made before run(), while it runs,
\* after a fatal error, or after the shutdown has completed.
ShutdownCallsReturn ==
    Undisturbed => \A c \in Callers : caller[c] = "waiting" ~> caller[c] = "returned"

\* __aexit__ comes to an end: "Same as shutdown() for use by async with", and "this
\* will raise the worker fatal error if one occurred".
ContextExits ==
    [](aHeld \subseteq aWorking /\ wHeld \subseteq wWorking) =>
        (ctx.st = "exiting" ~> ctx.st = "left")
=============================================================================
