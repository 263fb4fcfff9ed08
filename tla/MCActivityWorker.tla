-------------------------- MODULE MCActivityWorker --------------------------
(* Instances of ActivityWorker for model checking. *)
EXTENDS ActivityWorker

\* Bound: an activity heartbeats a second time only while it is the only one.
\* Heartbeat queues and tasks belong to one activity, so what two heartbeats do to
\* each other does not depend on other activities.
SecondHeartbeatAlone ==
    \A t \in Tokens : hb[t].made > 1 => \A u \in Tokens \ {t} : act[u].pc = "none"
=============================================================================
