-------------------------- MODULE SharedHeartbeats --------------------------
(***************************************************************************)
(* Heartbeats of activities that run in other processes:                   *)
(* _MultiprocessingSharedStateManager and its sender in                    *)
(* temporalio/worker/_activity.py, as _ActivityInboundImpl.execute_activity *)
(* uses them.  Event loops register and unregister activities, processes    *)
(* put heartbeats on one queue, and _heartbeat_processor, submitted to the   *)
(* queue_poller_executor, takes them from it.                                *)
(***************************************************************************)
EXTENDS Naturals, Sequences, SequencesExt

CONSTANTS
    Activities,
    Pollers,        \* threads of queue_poller_executor, one by default
    QueueSize,      \* size of the heartbeat queue, 1000 in the code
    MaxHeartbeats   \* bound: heartbeats of one activity

ASSUME SizeAssumption == QueueSize \in Nat \ {0} /\ MaxHeartbeats \in Nat

VARIABLES
    st,         \* activity -> where execute_activity is
    hbs,        \* keys of _heartbeats
    comps,      \* keys of _heartbeat_completions
    queue,      \* the heartbeat queue
    submitted,  \* runs of _heartbeat_processor waiting for a thread
    poller,     \* thread -> where its _heartbeat_processor is
    made,       \* activity -> heartbeats put on the queue
    passed,     \* activity -> heartbeats given to their function
    overlap,    \* history: two event loops have registered at the same time
    raised      \* history: passing a heartbeat on has raised

history == <<overlap, raised>>
vars == <<st, hbs, comps, queue, submitted, poller, made, passed, history>>

NoItem == [act |-> "none", complete |-> FALSE]
Idle == [pc |-> "idle", item |-> NoItem]

Init ==
    /\ st = [a \in Activities |-> "new"]
    /\ hbs = {} /\ comps = {} /\ queue = <<>> /\ submitted = 0
    /\ poller = [p \in Pollers |-> Idle]
    /\ made = [a \in Activities |-> 0] /\ passed = [a \in Activities |-> 0]
    /\ overlap = FALSE /\ raised = FALSE

At(p, pc) == poller[p].pc = pc
To(p, pc) == poller' = [poller EXCEPT ![p].pc = pc]

-----------------------------------------------------------------------------
(* The event loops and the other processes. *)

\* register_heartbeater stores the function, then looks at the number of
\* functions; the processor, or another worker's event loop, can get in between.
Register(a) ==
    /\ st[a] = "new"
    /\ st' = [st EXCEPT ![a] = "registering"]
    /\ hbs' = hbs \cup {a}
    /\ overlap' = (overlap \/ \E b \in Activities : st[b] = "registering")
    /\ UNCHANGED <<comps, queue, submitted, poller, made, passed, raised>>

\* Mutant: a processor is only started for the very first activity.
StartProcessor_once(a) ==
    /\ st[a] = "registering"
    /\ st' = [st EXCEPT ![a] = "running"]
    /\ submitted' = IF hbs = {a} /\ \A b \in Activities \ {a} : st[b] = "new"
                    THEN submitted + 1 ELSE submitted
    /\ UNCHANGED <<hbs, comps, queue, poller, made, passed, history>>

StartProcessor(a) ==
    /\ st[a] = "registering"
    /\ st' = [st EXCEPT ![a] = "running"]
    /\ submitted' = IF hbs = {a} THEN submitted + 1 ELSE submitted
    /\ UNCHANGED <<hbs, comps, queue, poller, made, passed, history>>

\* send_heartbeat, in the other process.
SendHeartbeat(a) ==
    /\ st[a] = "running" /\ made[a] < MaxHeartbeats /\ Len(queue) < QueueSize
    /\ made' = [made EXCEPT ![a] = @ + 1]
    /\ queue' = Append(queue, [act |-> a, complete |-> FALSE])
    /\ UNCHANGED <<st, hbs, comps, submitted, poller, passed, history>>

\* Mutant: the size of the queue is not respected.
Unregister_unbounded(a) ==
    /\ st[a] = "running"
    /\ st' = [st EXCEPT ![a] = "unregistering"]
    /\ comps' = comps \cup {a}
    /\ queue' = Append(queue, [act |-> a, complete |-> TRUE])
    /\ UNCHANGED <<hbs, submitted, poller, made, passed, history>>

\* Mutant: the completion does not go through the queue.
Unregister_atOnce(a) ==
    /\ st[a] = "running"
    /\ st' = [st EXCEPT ![a] = "flushed"]
    /\ hbs' = hbs \ {a}
    /\ UNCHANGED <<comps, queue, submitted, poller, made, passed, history>>

\* unregister_heartbeater: the completion goes on the queue, and the event loop is
\* left until it comes out.
Unregister(a) ==
    /\ st[a] = "running" /\ Len(queue) < QueueSize
    /\ st' = [st EXCEPT ![a] = "unregistering"]
    /\ comps' = comps \cup {a}
    /\ queue' = Append(queue, [act |-> a, complete |-> TRUE])
    /\ UNCHANGED <<hbs, submitted, poller, made, passed, history>>

\* The put finds no room for five seconds: it blocks the event loop, which a
\* processor may be waiting for, and other processes compete for what gets free.
UnregisterFull(a) ==
    /\ st[a] = "running" /\ Len(queue) = QueueSize
    /\ st' = [st EXCEPT ![a] = "failed"]
    /\ UNCHANGED <<hbs, comps, queue, submitted, poller, made, passed, history>>

Unregistered(a) ==
    /\ st[a] = "flushed"
    /\ st' = [st EXCEPT ![a] = "finished"]
    /\ comps' = comps \ {a}
    /\ UNCHANGED <<hbs, queue, submitted, poller, made, passed, history>>

-----------------------------------------------------------------------------
(* _heartbeat_processor. *)

\* The executor gives a submitted run to a free thread.
Begin(p) ==
    /\ At(p, "idle") /\ submitted > 0
    /\ submitted' = submitted - 1
    /\ To(p, "check")
    /\ UNCHANGED <<st, hbs, comps, queue, made, passed, history>>

\* The condition of the while loop.
Check(p) ==
    /\ At(p, "check")
    /\ To(p, IF hbs = {} THEN "idle" ELSE "get")
    /\ UNCHANGED <<st, hbs, comps, queue, submitted, made, passed, history>>

\* An item is taken, or there is none for half a second.
Get(p) ==
    /\ At(p, "get")
    /\ IF queue = <<>>
       THEN To(p, "check") /\ UNCHANGED queue
       ELSE /\ poller' = [poller EXCEPT ![p] = [pc |-> "handle", item |-> Head(queue)]]
            /\ queue' = Tail(queue)
    /\ UNCHANGED <<st, hbs, comps, submitted, made, passed, history>>

\* Mutant: the heartbeat function is not removed.
HandleCompletion_keeps(p) ==
    LET a == poller[p].item.act IN
    /\ At(p, "handle") /\ poller[p].item.complete
    /\ st' = IF a \in comps THEN [st EXCEPT ![a] = "flushed"] ELSE st
    /\ poller' = [poller EXCEPT ![p] = [Idle EXCEPT !.pc = "check"]]
    /\ UNCHANGED <<hbs, comps, queue, submitted, made, passed, history>>

\* A completion: the function is removed and the waiting event loop told.
HandleCompletion(p) ==
    LET a == poller[p].item.act IN
    /\ At(p, "handle") /\ poller[p].item.complete
    /\ hbs' = hbs \ {a}
    /\ st' = IF a \in comps THEN [st EXCEPT ![a] = "flushed"] ELSE st
    /\ poller' = [poller EXCEPT ![p] = [Idle EXCEPT !.pc = "check"]]
    /\ UNCHANGED <<comps, queue, submitted, made, passed, history>>

\* A heartbeat: its function is called on the event loop.  If it raises, or is not
\* done in time, the processor returns.
HandleHeartbeat(p) ==
    LET a == poller[p].item.act IN
    /\ At(p, "handle") /\ ~poller[p].item.complete
    /\ passed' = IF a \in hbs THEN [passed EXCEPT ![a] = @ + 1] ELSE passed
    /\ \/ /\ poller' = [poller EXCEPT ![p] = [Idle EXCEPT !.pc = "check"]]
          /\ UNCHANGED raised
       \/ /\ a \in hbs
          /\ poller' = [poller EXCEPT ![p] = Idle]
          /\ raised' = TRUE
    /\ UNCHANGED <<st, hbs, comps, queue, submitted, made, overlap>>

ProcessorStep(p) ==
    Begin(p) \/ Check(p) \/ Get(p) \/ HandleCompletion(p) \/ HandleHeartbeat(p)

LoopStep(a) == StartProcessor(a) \/ Unregistered(a)

Next ==
    \/ \E a \in Activities : Register(a) \/ LoopStep(a) \/ SendHeartbeat(a) \/ Unregister(a)
                            \/ UnregisterFull(a)
    \/ \E p \in Pollers : ProcessorStep(p)

Spec == Init /\ [][Next]_vars

\* The executor's threads and the event loops run; activities owe nothing.
FairSpec ==
    /\ Spec
    /\ \A p \in Pollers : WF_vars(ProcessorStep(p))
    /\ \A a \in Activities : WF_vars(LoopStep(a))

-----------------------------------------------------------------------------
(* Properties. *)

\* Every variable keeps its type.
TypeOK ==
    /\ st \in [Activities -> {"new", "registering", "running", "unregistering",
                              "flushed", "finished", "failed"}]
    /\ hbs \subseteq Activities /\ comps \subseteq Activities
    /\ queue \in Seq([act : Activities, complete : BOOLEAN]) /\ Len(queue) <= QueueSize
    /\ submitted \in Nat
    /\ \A p \in Pollers : poller[p].pc \in {"idle", "check", "get", "handle"}
    /\ made \in [Activities -> Nat] /\ passed \in [Activities -> Nat]
    /\ overlap \in BOOLEAN /\ raised \in BOOLEAN

\* unregister_heartbeater "should also flush any pending heartbeats": when it
\* returns, every heartbeat of the activity has been given to its function.
Flushed == \A a \in Activities : st[a] \in {"flushed", "finished"} => passed[a] = made[a]

\* An activity that has been unregistered leaves nothing behind: no function, no
\* completion, nothing on the queue that would reach the processor later.
NothingLeft ==
    \A a \in Activities : st[a] = "finished" =>
        a \notin hbs \cup comps /\ \A i \in DOMAIN queue : queue[i].act # a

\* While an activity is registered the processor runs or is going to: the one that
\* finds nothing registered stops, and the next to register starts another.  This
\* is so unless a processor has returned with an exception, or two event loops have
\* registered at the same time, each finding the other's function.
ProcessorPresent ==
    ~overlap /\ ~raised /\ (\E a \in hbs : st[a] # "registering") =>
        submitted > 0 \/ \E p \in Pollers : ~At(p, "idle")

\* Then unregister_heartbeater comes to its end, and with it the activity.
UnregisterEnds ==
    [](~overlap /\ ~raised) =>
        \A a \in Activities : st[a] = "unregistering" ~> st[a] = "finished"

\* "This timeout then is the max amount of time before this processor can stop
\* when there are no more activity heartbeats registered": when every activity has
\* been unregistered, no thread is kept busy.  (One that found the queue full stays
\* registered for ever.)
ProcessorStops ==
    <>[](\A a \in Activities : st[a] \in {"new", "finished"})
        => <>[](\A p \in Pollers : At(p, "idle"))
=============================================================================
