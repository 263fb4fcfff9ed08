------------------------------ MODULE PollLoop ------------------------------
(***************************************************************************)
(* What Worker.run relies on from each of its two workers, _ActivityWorker  *)
(* and _WorkflowWorker: a poll loop that takes tasks from core and answers  *)
(* them, that may fail, that is then replaced by a drain answering tasks    *)
(* with a failure, and that ends when core, being shut down, has an answer  *)
(* for every task it handed out.                                            *)
(***************************************************************************)
CONSTANTS
    Tasks,          \* the tasks core may hand out
    WaitsForTasks   \* TRUE: the loop ends only when its asyncio tasks have

VARIABLES
    loop,       \* where the poll loop, or the drain in its place, is
    shut,       \* TRUE once core's shutdown was initiated
    held,       \* tasks core handed out and has no answer for
    answered,   \* tasks core has an answer for
    working,    \* tasks an asyncio task of the worker is busy with
    raised      \* tasks whose asyncio task ended with an exception

vars == <<loop, shut, held, answered, working, raised>>

Loops == {"idle", "polling", "failed", "draining", "over"}

TypeOK ==
    /\ loop \in Loops /\ shut \in BOOLEAN
    /\ held \subseteq Tasks /\ answered \subseteq Tasks
    /\ working \subseteq Tasks /\ raised \subseteq Tasks

Init ==
    /\ loop \in {"idle", "polling"} /\ shut = FALSE
    /\ held = {} /\ answered = {} /\ working = {} /\ raised = {}

Fresh(t) == t \notin held \cup answered

\* Worker.run creates the task of the poll loop.
Start ==
    /\ loop = "idle"
    /\ loop' = "polling"
    /\ UNCHANGED <<shut, held, answered, working, raised>>

\* The loop polls a task and starts on it.
Take(t) ==
    /\ loop = "polling" /\ Fresh(t)
    /\ held' = held \cup {t} /\ working' = working \cup {t}
    /\ UNCHANGED <<loop, shut, answered, raised>>

\* Core accepts a completion for a task.
Answer(t) ==
    /\ t \in held /\ (t \in working \/ loop = "draining")
    /\ held' = held \ {t} /\ answered' = answered \cup {t}
    /\ UNCHANGED <<loop, shut, working, raised>>

\* The worker is done with a task, answered or not.
Finish(t) ==
    /\ t \in working
    /\ working' = working \ {t}
    /\ raised' \in {raised, raised \cup {t}}
    /\ UNCHANGED <<loop, shut, held, answered>>

\* The loop, or the drain, raises, possibly with a polled task in its hands.
Fail ==
    /\ loop \in {"polling", "draining"} /\ (WaitsForTasks => working = {})
    /\ loop' = "failed"
    /\ \/ UNCHANGED held
       \/ \E t \in Tasks : Fresh(t) /\ held' = held \cup {t}
    /\ UNCHANGED <<shut, answered, working, raised>>

\* The drain answers a task it polls.
Drain(t) ==
    /\ loop = "draining" /\ Fresh(t)
    /\ answered' = answered \cup {t}
    /\ UNCHANGED <<loop, shut, held, working, raised>>

\* The poll raises PollShutdownError.
Over ==
    /\ loop \in {"polling", "draining"} /\ shut /\ held = {}
    /\ WaitsForTasks => working = {}
    /\ loop' = "over"
    /\ UNCHANGED <<shut, held, answered, working, raised>>

\* Worker.run initiates the shutdown and replaces a loop that has failed.
Shutdown ==
    /\ ~shut
    /\ shut' = TRUE
    /\ loop' = IF loop = "failed" THEN "draining" ELSE loop
    /\ UNCHANGED <<held, answered, working, raised>>

Step ==
    \/ \E t \in Tasks : Take(t) \/ Answer(t) \/ Finish(t) \/ Drain(t)
    \/ Fail \/ Over

Next == Start \/ Step \/ Shutdown

Spec == Init /\ [][Next]_vars
=============================================================================
