---------------------------- MODULE ThreadCancel ----------------------------
(***************************************************************************)
(* Cancellation of synchronous activities on a ThreadPoolExecutor:         *)
(* _ThreadExceptionRaiser and _execute_sync_activity of                    *)
(* temporalio/worker/_activity.py.  The event loop cancels; the activity    *)
(* runs in a thread of the pool, enters and leaves shields, and ends; the   *)
(* event loop learns of the end later.                                      *)
(*                                                                         *)
(* An exception set for a thread (Runtime._raise_in_thread) strikes when    *)
(* that thread next runs Python code.  A thread that waits for the raiser's *)
(* lock is struck at any point of the locked section, which cuts it short.  *)
(***************************************************************************)
EXTENDS Naturals

CONSTANTS
    Activities,     \* activities given to the pool
    Threads,        \* threads of the pool
    MaxShield,      \* bound: depth of nested shields
    MaxCancels      \* bound: cancels per activity

ASSUME BoundAssumption == MaxShield \in Nat /\ MaxCancels \in Nat

VARIABLES
    act,        \* activity -> where it is, its thread, and its raiser
    exc,        \* thread -> activity whose raiser set an exception, or Nobody
    dead,       \* threads the pool has lost
    struck,     \* history: [by, on, shielded] for the exceptions that struck
    thrown      \* history: activity -> exceptions its raiser has set

vars == <<act, exc, dead, struck, thrown>>

Nobody == "nobody"
Sts == {"queued", "starting", "user", "entering", "leaving", "over"}

\* idSet, pending and depth are the raiser's fields; block counts the shields
\* the code is really in.
Activity == [st : Sts, thread : Threads \cup {Nobody}, idSet : BOOLEAN,
             pending : BOOLEAN, depth : Nat, block : Nat, done : BOOLEAN, cancels : Nat]

New == [st |-> "queued", thread |-> Nobody, idSet |-> FALSE, pending |-> FALSE,
        depth |-> 0, block |-> 0, done |-> FALSE, cancels |-> 0]

Init ==
    /\ act = [a \in Activities |-> New]
    /\ exc = [t \in Threads |-> Nobody]
    /\ dead = {} /\ struck = {}
    /\ thrown = [a \in Activities |-> 0]

On(t) == {a \in Activities : act[a].thread = t /\ act[a].st # "over"}
Ready(a, st) == act[a].st = st /\ exc[act[a].thread] = Nobody

-----------------------------------------------------------------------------
\* Mutants: the shield is ignored; the pending exception is kept.
RaiseIfPending_unshielded(a, r) ==
    IF r.idSet /\ r.pending
    THEN /\ act' = [act EXCEPT ![a] = [r EXCEPT !.pending = FALSE]]
         /\ exc' = [exc EXCEPT ![r.thread] = a]
         /\ thrown' = [thrown EXCEPT ![a] = @ + 1]
    ELSE act' = [act EXCEPT ![a] = r] /\ UNCHANGED <<exc, thrown>>

\* _raise_in_thread_if_pending_unlocked, in the state r of a.
RaiseIfPending(a, r) ==
    IF r.idSet /\ r.depth = 0 /\ r.pending
    THEN /\ act' = [act EXCEPT ![a] = [r EXCEPT !.pending = FALSE]]
         /\ exc' = [exc EXCEPT ![r.thread] = a]
         /\ thrown' = [thrown EXCEPT ![a] = @ + 1]
    ELSE act' = [act EXCEPT ![a] = r] /\ UNCHANGED <<exc, thrown>>

\* The event loop: _RunningActivity.cancel of an activity that is not done.
Cancel(a) ==
    /\ ~act[a].done /\ act[a].cancels < MaxCancels
    /\ RaiseIfPending(a, [act[a] EXCEPT !.pending = TRUE, !.cancels = @ + 1])
    /\ UNCHANGED <<dead, struck>>

\* It learns that the function is over.
LoopResumes(a) ==
    /\ act[a].st = "over" /\ ~act[a].done
    /\ act' = [act EXCEPT ![a].done = TRUE]
    /\ UNCHANGED <<exc, dead, struck, thrown>>

-----------------------------------------------------------------------------
(* The thread. *)

\* The pool gives a queued activity to an idle thread.
Pick(t, a) ==
    /\ t \notin dead /\ On(t) = {} /\ exc[t] = Nobody /\ act[a].st = "queued"
    /\ act' = [act EXCEPT ![a].st = "starting", ![a].thread = t]
    /\ UNCHANGED <<exc, dead, struck, thrown>>

\* _execute_sync_activity: set_thread_id, then the function.
SetThreadId(a) ==
    /\ Ready(a, "starting")
    /\ act' = [act EXCEPT ![a].st = "user", ![a].idSet = TRUE]
    /\ UNCHANGED <<exc, dead, struck, thrown>>

\* shielded(): up to the lock, and its locked section.  An exception set while
\* the thread waited strikes before or after the depth is counted up, and outside
\* the try.
Enter(a) ==
    /\ Ready(a, "user") /\ act[a].block < MaxShield
    /\ act' = [act EXCEPT ![a].st = "entering"]
    /\ UNCHANGED <<exc, dead, struck, thrown>>

EnterLocked(a) ==
    LET t == act[a].thread IN
    /\ act[a].st = "entering"
    /\ IF exc[t] = Nobody
       THEN act' = [act EXCEPT ![a].st = "user", ![a].depth = @ + 1, ![a].block = @ + 1]
       ELSE \E n \in {0, 1} : act' = [act EXCEPT ![a].st = "user", ![a].depth = @ + n]
    /\ UNCHANGED <<exc, dead, struck, thrown>>

\* Its finally clause, which an exception of another activity's raiser cuts short.
Leave(a) ==
    /\ Ready(a, "user") /\ act[a].block > 0
    /\ act' = [act EXCEPT ![a].st = "leaving"]
    /\ UNCHANGED <<exc, dead, struck, thrown>>

\* Mutant: the depth is counted down twice.
LeaveLocked_twice(a) ==
    /\ act[a].st = "leaving"
    /\ RaiseIfPending(a, [act[a] EXCEPT !.st = "user", !.depth = @ - 2, !.block = @ - 1])
    /\ UNCHANGED <<dead, struck>>

LeaveLocked(a) ==
    LET out == [act[a] EXCEPT !.st = "user", !.block = @ - 1] IN
    /\ act[a].st = "leaving"
    /\ \/ RaiseIfPending(a, [out EXCEPT !.depth = @ - 1])
       \/ /\ exc[act[a].thread] # Nobody
          /\ \E n \in {0, 1} : act' = [act EXCEPT ![a] = [out EXCEPT !.depth = @ - n]]
          /\ UNCHANGED <<exc, thrown>>
    /\ UNCHANGED <<dead, struck>>

\* The function ends, out of every shield.
Return(a) ==
    /\ Ready(a, "user") /\ act[a].block = 0
    /\ act' = [act EXCEPT ![a].st = "over"]
    /\ UNCHANGED <<exc, dead, struck, thrown>>

\* The exception strikes the activity the thread runs.  It ends the function, or the
\* function catches it; from inside a shield it gets out through the finally clause
\* (Leave).
Strike(t, a) ==
    /\ exc[t] # Nobody /\ a \in On(t) /\ act[a].st \in {"starting", "user"}
    /\ exc' = [exc EXCEPT ![t] = Nobody]
    /\ struck' = struck \cup {[by |-> exc[t], on |-> a, shielded |-> act[a].block > 0]}
    /\ \/ act[a].block = 0 /\ act' = [act EXCEPT ![a].st = "over"]
       \/ act[a].st = "user" /\ UNCHANGED act
    /\ UNCHANGED <<dead, thrown>>

\* It strikes the pool's own code, in front of the next work item or on the way to
\* it: the thread ends.
StrikePool(t) ==
    /\ exc[t] # Nobody /\ On(t) = {}
    /\ exc' = [exc EXCEPT ![t] = Nobody]
    /\ dead' = dead \cup {t}
    /\ UNCHANGED <<act, struck, thrown>>

Next ==
    \/ \E a \in Activities :
         \/ Cancel(a) \/ LoopResumes(a) \/ SetThreadId(a)
         \/ Enter(a) \/ EnterLocked(a) \/ Leave(a) \/ LeaveLocked(a) \/ Return(a)
         \/ \E t \in Threads : Pick(t, a) \/ Strike(t, a)
    \/ \E t \in Threads : StrikePool(t)

Spec == Init /\ [][Next]_vars

-----------------------------------------------------------------------------
(* Properties. *)

\* Every variable keeps its type.
TypeOK ==
    /\ act \in [Activities -> Activity]
    /\ exc \in [Threads -> Activities \cup {Nobody}]
    /\ dead \subseteq Threads
    /\ struck \subseteq [by : Activities, on : Activities, shielded : BOOLEAN]
    /\ thrown \in [Activities -> Nat]

\* No cancellation strikes an activity inside one of its own shields when it was
\* thrown by its own raiser.
ShieldHolds == \A s \in struck : s.by = s.on => ~s.shielded


\* "cancellation of a synchronous multithreaded activity is done via a
\* CancelledError thrown into the activity thread": an activity that runs outside
\* every shield has no cancellation waiting for it.
NoStrandedCancel ==
    \A a \in Activities : act[a].st = "user" /\ act[a].depth = 0 => ~act[a].pending
=============================================================================
