------------------------ MODULE ActivityWorkerProofs ------------------------
(***************************************************************************)
(* Invariants of the activity worker, proved for every set of tokens, every *)
(* queue size and with or without a suspending codec.                      *)
(***************************************************************************)
EXTENDS ActivityWorker, SequenceTheorems, TLAPS

\* What one activity's record, its completions and the history of its cancels
\* say together.
ActivityInv(t) ==
    LET a == act[t] IN
    /\ a.pc = "none" => a = NoActivity /\ hb[t].tasks = <<>>
    /\ a.pc \in {"awaitHb", "completing", "flushing", "ended"} => a.done
    /\ a.done => a.pc \in {"awaitHb", "completing", "flushing", "ended", "escaped"}
    /\ a.done /\ (a.cancelPending \/ a.pc = "escaped") => wait \in {"cancelling", "cancelled"}
    /\ a.byRequest => t \in asked
    /\ a.result = "cancelled" => t \in asked
    /\ Len(sent[t]) <= 1 \/ t \in untold
    /\ a.pc \notin {"flushing", "ended", "escaped", "drained"} =>
         sent[t] = <<>> \/ t \in untold

IInv == TypeOK /\ \A t \in Tokens : ActivityInv(t)

-----------------------------------------------------------------------------
(* The states an activity's task can end a step in.                          *)

\* Finish ends in a well-typed record of a done activity.
LEMMA FinishType ==
    ASSUME NEW t \in Tokens, NEW a \in Activity, NEW r \in Results
    PROVE  /\ Finish(t, a, r) \in Activity
           /\ Finish(t, a, r).done
           /\ Finish(t, a, r).pc \in {"awaitHb", "completing"}
           /\ Finish(t, a, r).result = r
           /\ Finish(t, a, r).cancelPending = a.cancelPending
           /\ Finish(t, a, r).byRequest = a.byRequest
  BY DEF Finish, Activity, PCs

\* Every exception is classified as a result, and as "cancelled" only when the
\* cancel was requested.
LEMMA ClassifyType ==
    ASSUME NEW a \in Activity, NEW exc \in Exceptions
    PROVE  /\ Classify(a, exc) \in Results
           /\ Classify(a, exc) = "cancelled" => a.byRequest
  BY DEF Classify, Results, Exceptions, Activity

\* A step of the task is sound when it ends in a state of this kind.
Good(t, a, b) ==
    /\ b \in Activity
    /\ b.byRequest = a.byRequest
    /\ b.pc \in {"decode", "exec", "encode", "encodeFailure", "escaped",
                 "awaitHb", "completing"}
    /\ b.done <=> b.pc \in {"awaitHb", "completing"}
    /\ b.done => ~b.cancelPending
    /\ b.result = "cancelled" => a.byRequest \/ a.result = "cancelled"

\* What becomes of a broken executor leaves the rest of the record alone.
LEMMA BrokenType ==
    ASSUME NEW a \in Activity, NEW to \in BrokenStates
    PROVE  /\ Broken(a, to) \in Activity
           /\ Broken(a, to).pc = a.pc
           /\ Broken(a, to).done = a.done
           /\ Broken(a, to).cancelPending = a.cancelPending
           /\ Broken(a, to).byRequest = a.byRequest
           /\ Broken(a, to).result = a.result
  BY DEF Broken, Activity

\* Whether encode_failure works or raises, the activity is done with a result.
LEMMA FailureEncodedGood ==
    ASSUME NEW t \in Tokens, NEW a \in Activity, ~a.cancelPending,
           NEW b \in FailureEncoded(t, a)
    PROVE  Good(t, a, b)
  <1>1. a.result \in Results /\ "failed" \in Results /\ {"put", "no"} \subseteq BrokenStates
    BY DEF Activity, Results, BrokenStates
  <1>2. PICK to \in {"put", "no"}, r \in {a.result, "failed"} : b = Finish(t, Broken(a, to), r)
    BY DEF FailureEncoded
  <1>3. r \in Results /\ to \in BrokenStates
    BY <1>1, <1>2
  <1> HIDE DEF Broken
  <1> QED BY <1>2, <1>3, BrokenType, FinishType DEF Good

\* The except clause of _run_activity ends its step soundly.
LEMMA CatchGood ==
    ASSUME NEW t \in Tokens, NEW a \in Activity, ~a.done, NEW exc \in Exceptions,
           NEW b \in Catch(t, a, exc)
    PROVE  Good(t, a, b)
  <1> DEFINE c == [a EXCEPT !.result = Classify(a, exc), !.cancelPending = FALSE,
                            !.broken = IF exc = "BrokenExecutor" THEN "thrown" ELSE "no"]
  <1>1. Classify(a, exc) \in Results /\ (Classify(a, exc) = "cancelled" => a.byRequest)
    BY ClassifyType
  <1>2. /\ c \in Activity /\ ~c.cancelPending /\ ~c.done
        /\ c.byRequest = a.byRequest
        /\ c.result = "cancelled" => a.byRequest
    BY <1>1 DEF Activity, BrokenStates
  <1>3. CASE exc = "CompleteAsync"
    <2>1. b = Finish(t, c, "async")
      BY <1>3 DEF Catch
    <2>2. "async" \in Results
      BY DEF Results
    <2> HIDE DEF c
    <2> QED BY <1>2, <2>1, <2>2, FinishType DEF Good
  <1>4. CASE exc # "CompleteAsync" /\ AsyncCodec
    <2>1. b = [c EXCEPT !.pc = "encodeFailure"]
      BY <1>4 DEF Catch
    <2> HIDE DEF c
    <2> QED BY <1>2, <2>1 DEF Good, Activity, PCs
  <1>5. CASE exc # "CompleteAsync" /\ ~AsyncCodec
    <2>1. b \in FailureEncoded(t, c)
      BY <1>5 DEF Catch
    <2> HIDE DEF c
    <2>2. Good(t, c, b)
      BY <1>2, <2>1, FailureEncodedGood
    <2> QED BY <1>2, <2>2 DEF Good
  <1> QED BY <1>3, <1>4, <1>5

\* The lemmas below restate what the suspension points do, for Becomes.
LEMMA DecodedGood ==
    ASSUME NEW t \in Tokens, NEW a \in Activity, ~a.done, NEW b \in Decoded(t, a)
    PROVE  Good(t, a, b)
  <1>1. CASE b = [a EXCEPT !.pc = "exec", !.ran = TRUE]
    BY <1>1 DEF Good, Activity, PCs
  <1>2. CASE b \in Catch(t, a, "Error")
    BY <1>2, CatchGood DEF Exceptions
  <1> QED BY <1>1, <1>2 DEF Decoded

\* Encoding the result leads to its completion or to the except clause.
LEMMA ResultEncodedGood ==
    ASSUME NEW t \in Tokens, NEW a \in Activity, ~a.done, ~a.cancelPending,
           NEW b \in ResultEncoded(t, a)
    PROVE  Good(t, a, b)
  <1>1. CASE b = Finish(t, a, "completed")
    BY <1>1, FinishType DEF Good, Results
  <1>2. CASE b \in Catch(t, a, "Error")
    BY <1>2, CatchGood DEF Exceptions
  <1> QED BY <1>1, <1>2 DEF ResultEncoded

\* The first step of a registered activity.
LEMMA PreparedGood ==
    ASSUME NEW t \in Tokens, NEW sync \in BOOLEAN, NEW b \in Prepared(t, sync)
    PROVE  Good(t, NoActivity, b)
  <1> DEFINE a == [NoActivity EXCEPT !.sync = sync, !.event = "clear"]
  <1>1. /\ a \in Activity /\ ~a.done /\ ~a.cancelPending
        /\ a.byRequest = NoActivity.byRequest
        /\ a.result = NoActivity.result
    BY DEF NoActivity, Activity, PCs, Results, Events, BrokenStates
  <1>2. CASE AsyncCodec
    <2>1. b = [a EXCEPT !.pc = "decode"]
      BY <1>2 DEF Prepared
    <2> HIDE DEF a
    <2> QED BY <1>1, <2>1 DEF Good, Activity, PCs
  <1>3. CASE ~AsyncCodec
    <2>1. b \in Decoded(t, a)
      BY <1>3 DEF Prepared
    <2> HIDE DEF a
    <2>2. Good(t, a, b)
      BY <1>1, <2>1, DecodedGood
    <2> QED BY <1>1, <2>2 DEF Good
  <1> QED BY <1>2, <1>3

-----------------------------------------------------------------------------
(* A step of one activity's task, and a cancellation, preserve the invariant. *)

\* What an action that moves only the task of t must show.
LEMMA TaskStepInv ==
    ASSUME IInv, NEW t \in Tokens, NEW S, Becomes(t, S),
           \A b \in S : Good(t, act[t], b),
           act[t].pc \notin {"flushing", "ended", "escaped", "drained"},
           running' \subseteq Tokens,
           asked' = asked, untold' = untold, sent' = sent,
           recorded' = recorded, hb' = hb, cancels' = cancels,
           poll' \in PollStates, wait' = wait, shut' \in BOOLEAN, shutEvent' \in Events,
           seenSync' \in BOOLEAN
    PROVE  IInv'
  <1>1. PICK b \in S : /\ act' = [act EXCEPT ![t] = b]
                       /\ failQueue' = (failQueue \/ b.broken = "put")
    BY DEF Becomes
  <1>2. Good(t, act[t], b)
    BY <1>1
  <1>3. TypeOK /\ act \in [Tokens -> Activity] /\ failQueue \in BOOLEAN
    BY DEF IInv, TypeOK
  <1>4. act' \in [Tokens -> Activity] /\ failQueue' \in BOOLEAN
    BY <1>1, <1>2, <1>3 DEF Good
  <1>5. TypeOK'
    BY <1>3, <1>4 DEF TypeOK
  <1>6. ASSUME NEW u \in Tokens PROVE ActivityInv(u)'
    <2>1. ActivityInv(u) /\ ActivityInv(t)
      BY DEF IInv
    <2>2. CASE u # t
      BY <1>1, <1>3, <2>1, <2>2 DEF ActivityInv
    <2>3. CASE u = t
      <3>1. act'[t] = b
        BY <1>1, <1>3
      <3> QED BY <1>2, <2>1, <2>3, <3>1 DEF ActivityInv, Good
    <2> QED BY <2>2, <2>3
  <1> QED BY <1>5, <1>6 DEF IInv

\* What _RunningActivity.cancel does to the record of an activity.
LEMMA CancelledType ==
    ASSUME NEW a \in Activity, NEW request \in BOOLEAN
    PROVE  /\ Cancelled(a, request) \in Activity
           /\ Cancelled(a, request).pc = a.pc
           /\ Cancelled(a, request).done = a.done
           /\ Cancelled(a, request).result = a.result
           /\ Cancelled(a, request).byRequest = request
           /\ a.done => Cancelled(a, request).cancelPending = a.cancelPending
  <1>1. (IF a.event = "absent" THEN a.event ELSE "set") \in Events
    BY DEF Activity, Events
  <1>2. Cancelled(a, request) \in Activity
    BY <1>1 DEF Cancelled, Activity
  <1> QED BY <1>2 DEF Cancelled, Activity

\* What a cancellation of t must show, with whatever it does to the heartbeats.
LEMMA CancelInv ==
    ASSUME IInv, NEW t \in Tokens, NEW request \in BOOLEAN,
           act[t].pc # "none",
           act' = [act EXCEPT ![t] = Cancelled(@, request)],
           asked \subseteq asked', asked' \subseteq Tokens,
           request => t \in asked',
           untold' = untold, sent' = sent, running' = running, wait' = wait,
           \A u \in Tokens \ {t} : hb'[u] = hb[u]
    PROVE  /\ act' \in [Tokens -> Activity]
           /\ \A u \in Tokens : ActivityInv(u)'
  <1>1. act \in [Tokens -> Activity]
    BY DEF IInv, TypeOK
  <1>2. /\ Cancelled(act[t], request) \in Activity
        /\ Cancelled(act[t], request).pc = act[t].pc
        /\ Cancelled(act[t], request).done = act[t].done
        /\ Cancelled(act[t], request).result = act[t].result
        /\ Cancelled(act[t], request).byRequest = request
        /\ act[t].done => Cancelled(act[t], request).cancelPending = act[t].cancelPending
    BY <1>1, CancelledType
  <1>3. ASSUME NEW u \in Tokens PROVE ActivityInv(u)'
    <2>1. ActivityInv(u)
      BY DEF IInv
    <2>2. CASE u # t
      BY <1>1, <2>1, <2>2 DEF ActivityInv
    <2>3. CASE u = t
      <3>1. act'[t] = Cancelled(act[t], request)
        BY <1>1
      <3> HIDE DEF Cancelled
      <3> QED BY <1>2, <2>1, <2>3, <3>1 DEF ActivityInv
    <2> QED BY <2>2, <2>3
  <1> QED BY <1>1, <1>2, <1>3

\* The heartbeat's step: core takes it or the activity is cancelled.
LEMMA RecordInv ==
    ASSUME IInv, NEW t \in Tokens, NEW val \in Nat, Record(t, val), act[t].pc # "none",
           asked' = asked, untold' = untold, sent' = sent, running' = running, wait' = wait,
           \A u \in Tokens \ {t} : hb'[u] = hb[u]
    PROVE  /\ act' \in [Tokens -> Activity]
           /\ recorded' \in [Tokens -> Seq(Nat)]
           /\ \A u \in Tokens : ActivityInv(u)'
  <1>1. /\ act \in [Tokens -> Activity] /\ recorded \in [Tokens -> Seq(Nat)]
        /\ asked \subseteq Tokens
    BY DEF IInv, TypeOK
  <1>2. CASE /\ recorded' = [recorded EXCEPT ![t] = Append(@, val)]
             /\ UNCHANGED act
    <2>1. Append(recorded[t], val) \in Seq(Nat)
      BY <1>1, AppendProperties
    <2>2. recorded' \in [Tokens -> Seq(Nat)]
      BY <1>1, <1>2, <2>1
    <2> QED BY <1>1, <1>2, <2>2 DEF IInv, ActivityInv
  <1>3. CASE act' = act /\ UNCHANGED recorded
    BY <1>1, <1>3 DEF IInv, ActivityInv
  <1>4. CASE act' = [act EXCEPT ![t] = Cancelled(@, FALSE)] /\ UNCHANGED recorded
    <2>1. /\ act' \in [Tokens -> Activity]
          /\ \A u \in Tokens : ActivityInv(u)'
      BY <1>1, <1>4, CancelInv
    <2> QED BY <1>1, <1>4, <2>1
  <1> QED BY <1>2, <1>3, <1>4 DEF Record

\* Moving a task's program counter keeps its record well typed.
LEMMA PcType ==
  ASSUME NEW a \in Activity, NEW p \in PCs
  PROVE  [a EXCEPT !.pc = p] \in Activity
BY DEF Activity

\* The initial state.
LEMMA InitInv == Init => IInv
  <1> SUFFICES ASSUME Init PROVE IInv
    OBVIOUS
  <1>1. NoActivity \in Activity
    BY DEF NoActivity, Activity, PCs, Events, Results, BrokenStates
  <1>2. NoHeartbeats \in Heartbeats
    BY DEF NoHeartbeats, Heartbeats
  <1>3. TypeOK
    <2>1. act \in [Tokens -> Activity] /\ hb \in [Tokens -> Heartbeats]
      BY <1>1, <1>2 DEF Init
    <2>2. sent \in [Tokens -> Seq(Results)] /\ recorded \in [Tokens -> Seq(Nat)]
      BY DEF Init
    <2> QED BY <2>1, <2>2 DEF Init, TypeOK, PollStates, WaitStates, Events
  <1>4. \A t \in Tokens : ActivityInv(t)
    <2> TAKE t \in Tokens
    <2>1. act[t] = NoActivity /\ hb[t] = NoHeartbeats /\ sent[t] = <<>>
      BY DEF Init
    <2>2. /\ NoActivity.pc = "none" /\ NoActivity.result # "cancelled"
          /\ ~NoActivity.done /\ ~NoActivity.byRequest /\ ~NoActivity.cancelPending
      BY DEF NoActivity
    <2>3. hb[t].tasks = <<>>
      BY <2>1 DEF NoHeartbeats
    <2>4. Len(sent[t]) <= 1
      BY <2>1
    <2> QED BY <2>1, <2>2, <2>3, <2>4 DEF ActivityInv
  <1> QED BY <1>3, <1>4 DEF IInv

\* The steps of the poll loop, the drain and the shutdown.
LEMMA PollStepInv == IInv /\ PollStep => IInv'
  <1> SUFFICES ASSUME IInv, PollStep PROVE IInv'
    OBVIOUS
  <1>0. TypeOK /\ act \in [Tokens -> Activity] /\ sent \in [Tokens -> Seq(Results)]
    BY DEF IInv, TypeOK
  <1>a. \A t \in Tokens : ActivityInv(t)
    BY DEF IInv
  <1>1. ASSUME NEW t \in Tokens, PollStartUnknown(t) PROVE IInv'
    <2>1. act[t] = NoActivity
      BY <1>1, <1>a DEF PollStartUnknown, ActivityInv
    <2>2. \A b \in Catch(t, NoActivity, "Error") : Good(t, act[t], b)
      BY <1>0, <2>1, CatchGood DEF Exceptions, NoActivity
    <2>3. running' \subseteq Tokens
      BY <1>0, <1>1 DEF PollStartUnknown, TypeOK
    <2>4. act[t].pc = "none"
      BY <1>1 DEF PollStartUnknown
    <2> QED
      BY <1>0, <1>1, <2>2, <2>3, <2>4, TaskStepInv
      DEF PollStartUnknown, pollVars, core, TypeOK
  <1>2. ASSUME NEW t \in Tokens, NEW sync \in BOOLEAN, PollStart(t, sync) PROVE IInv'
    <2>1. act[t] = NoActivity
      BY <1>2, <1>a DEF PollStart, ActivityInv
    <2>2. \A b \in Prepared(t, sync) : Good(t, act[t], b)
      BY <2>1, PreparedGood
    <2>3. /\ running' \subseteq Tokens /\ seenSync' \in BOOLEAN
          /\ shutEvent' \in Events
      BY <1>0, <1>2 DEF PollStart, TypeOK, Events
    <2>4. act[t].pc = "none"
      BY <1>2 DEF PollStart
    <2> QED
      BY <1>0, <1>2, <2>2, <2>3, <2>4, TaskStepInv DEF PollStart, core, TypeOK
  <1>3. ASSUME NEW t \in Tokens, PollCancel(t) PROVE IInv'
    <2>1. act[t].pc # "none" /\ cancels' \in Nat
      BY <1>0, <1>3 DEF PollCancel, TypeOK
    <2>2. CASE t \in running
      <3>1. /\ act' = [act EXCEPT ![t] = Cancelled(@, TRUE)]
            /\ asked' = asked \cup {t}
        BY <1>3, <2>2 DEF PollCancel
      <3>2. /\ asked \subseteq asked' /\ asked' \subseteq Tokens /\ t \in asked'
            /\ untold' = untold /\ sent' = sent /\ running' = running /\ hb' = hb
            /\ wait' = wait
        BY <1>0, <1>3, <3>1 DEF PollCancel, TypeOK, core
      <3>3. /\ act' \in [Tokens -> Activity]
            /\ \A u \in Tokens : ActivityInv(u)'
        BY <2>1, <3>1, <3>2, CancelInv
      <3> QED BY <1>0, <1>3, <2>1, <3>2, <3>3 DEF IInv, TypeOK, PollCancel, core
    <2>3. CASE t \notin running
      BY <1>0, <1>a, <1>3, <2>1, <2>3 DEF IInv, TypeOK, ActivityInv, PollCancel, core
    <2> QED BY <2>2, <2>3
  <1>4. ASSUME NEW t \in Tokens, DrainStart(t) PROVE IInv'
    <2>1. act[t] = NoActivity /\ act[t].pc = "none"
      BY <1>4, <1>a DEF DrainStart, ActivityInv
    <2>2. Append(sent[t], "failed") \in Seq(Results)
      BY <1>0, AppendProperties DEF Results
    <2>6. "drained" \in PCs /\ act[t] \in Activity
      BY <1>0 DEF PCs
    <2>7. [act[t] EXCEPT !.pc = "drained"] \in Activity
      BY <2>6, PcType
    <2>3. /\ act' \in [Tokens -> Activity] /\ sent' \in [Tokens -> Seq(Results)]
      BY <1>0, <1>4, <2>2, <2>7 DEF DrainStart
    <2>4. TypeOK'
      BY <1>0, <1>4, <2>3 DEF TypeOK, DrainStart, pollVars
    <2>5. ASSUME NEW u \in Tokens PROVE ActivityInv(u)'
      <3>1. ActivityInv(u)
        BY <1>a
      <3>2. CASE u # t
        BY <1>0, <1>4, <3>1, <3>2 DEF ActivityInv, DrainStart, pollVars
      <3>3. CASE u = t
        <4>1. /\ act'[t] = [NoActivity EXCEPT !.pc = "drained"]
              /\ sent'[t] = Append(sent[t], "failed")
              /\ asked' = asked /\ untold' = untold /\ wait' = wait
          BY <1>0, <1>4, <2>1 DEF DrainStart, pollVars
        <4>2. (sent[t] = <<>> \/ t \in untold)
          BY <2>1, <3>1, <3>3 DEF ActivityInv
        <4>3. sent[t] = <<>> => Len(sent'[t]) <= 1
          BY <4>1
        <4> QED BY <3>3, <4>1, <4>2, <4>3 DEF ActivityInv, NoActivity
      <3> QED BY <3>2, <3>3
    <2> QED BY <2>4, <2>5 DEF IInv
  <1>5. ASSUME NEW t \in Tokens, DrainCancel(t) PROVE IInv'
    <2>1. Append(sent[t], "failed") \in Seq(Results)
      BY <1>0, AppendProperties DEF Results
    <2>2. TypeOK'
      BY <1>0, <1>5, <2>1 DEF TypeOK, DrainCancel, life
    <2>3. ASSUME NEW u \in Tokens PROVE ActivityInv(u)'
      <3>1. ActivityInv(u)
        BY <1>a
      <3>2. /\ act' = act /\ asked' = asked /\ untold' = untold \cup {t} /\ hb' = hb
            /\ u # t => sent'[u] = sent[u]
            /\ wait' = wait
        BY <1>0, <1>5 DEF DrainCancel, life
      <3> QED BY <3>1, <3>2 DEF ActivityInv
    <2> QED BY <2>2, <2>3 DEF IInv
  <1>6. CASE PollShutdown \/ PollError \/ BeginShutdown \/ WaitAllCompleted \/ WaitAllReturns
    <2>1. UNCHANGED <<seenSync, cancels, asked, untold, failQueue, life, hb, core>>
      BY <1>6 DEF PollShutdown, PollError, BeginShutdown, WaitAllCompleted, WaitAllReturns
    <2>2. /\ poll' \in PollStates /\ wait' \in WaitStates
          /\ shut' \in BOOLEAN /\ shutEvent' \in Events
      BY <1>0, <1>6 DEF TypeOK, PollStates, WaitStates, Events, PollShutdown, PollError,
                        BeginShutdown, WaitAllCompleted, WaitAllReturns
    <2>3. wait \in {"cancelling", "cancelled"} => wait' \in {"cancelling", "cancelled"}
      BY <1>6 DEF PollShutdown, PollError, BeginShutdown, WaitAllCompleted, WaitAllReturns
    <2>4. TypeOK'
      BY <1>0, <2>1, <2>2 DEF TypeOK, life, core
    <2>5. ASSUME NEW u \in Tokens PROVE ActivityInv(u)'
      BY <1>a, <2>1, <2>3 DEF ActivityInv, life, core
    <2> QED BY <2>4, <2>5 DEF IInv
  <1>8. CASE WaitAllCancelled
    <2> DEFINE Pending(a) == [a EXCEPT !.cancelPending = TRUE]
    <2>1. \A a \in Activity : /\ Pending(a) \in Activity /\ Pending(a).pc = a.pc
                             /\ Pending(a).done = a.done
                             /\ Pending(a).byRequest = a.byRequest
                             /\ Pending(a).result = a.result
      BY DEF Activity
    <2>2. /\ act' = [u \in Tokens |-> IF u \in running /\ act[u].pc \in AtWork
                                     THEN Pending(act[u]) ELSE act[u]]
          /\ wait' = "cancelling"
          /\ UNCHANGED <<poll, shut, shutEvent, seenSync, cancels, asked, untold,
                         failQueue, running, hb, sent, recorded>>
      BY <1>8 DEF WaitAllCancelled, core
    <2> HIDE DEF Pending
    <2>3. act' \in [Tokens -> Activity]
      BY <1>0, <2>1, <2>2
    <2>4. TypeOK'
      BY <1>0, <2>2, <2>3 DEF TypeOK, WaitStates
    <2>5. ASSUME NEW u \in Tokens PROVE ActivityInv(u)'
      <3>1. ActivityInv(u) /\ act[u] \in Activity
        BY <1>0, <1>a
      <3>2. CASE act'[u] = act[u]
        BY <2>2, <3>1, <3>2 DEF ActivityInv
      <3>3. CASE act'[u] = Pending(act[u]) /\ act[u].pc # "none"
        BY <2>1, <2>2, <3>1, <3>3 DEF ActivityInv
      <3> QED BY <2>2, <3>2, <3>3 DEF AtWork
    <2> QED BY <2>4, <2>5 DEF IInv
  <1>7. CASE RaiseFromQueue \/ DrainError
    <2>1. CASE UNCHANGED act
      BY <1>0, <1>a, <1>7, <2>1
      DEF IInv, TypeOK, ActivityInv, RaiseFromQueue, DrainError, PollStates, core
    <2>2. ASSUME NEW t \in Tokens, act[t].pc = "none",
                 act' = [act EXCEPT ![t].pc = "lost"]
          PROVE  IInv'
      <3>1. act[t] = NoActivity
        BY <1>a, <2>2 DEF ActivityInv
      <3>5. "lost" \in PCs /\ act[t] \in Activity
        BY <1>0 DEF PCs
      <3>6. [act[t] EXCEPT !.pc = "lost"] \in Activity
        BY <3>5, PcType
      <3>2. act' \in [Tokens -> Activity]
        BY <1>0, <2>2, <3>6
      <3>3. TypeOK'
        BY <1>0, <1>7, <3>2 DEF TypeOK, RaiseFromQueue, DrainError, PollStates, core
      <3>4. ASSUME NEW u \in Tokens PROVE ActivityInv(u)'
        <4>1. /\ ActivityInv(u) /\ asked' = asked /\ untold' = untold /\ sent' = sent
              /\ hb' = hb /\ wait' = wait
          BY <1>a, <1>7 DEF RaiseFromQueue, DrainError, core
        <4>2. CASE u # t
          BY <1>0, <2>2, <4>1, <4>2 DEF ActivityInv
        <4>3. CASE u = t
          <5>1. act'[t] = [NoActivity EXCEPT !.pc = "lost"]
            BY <1>0, <2>2, <3>1
          <5> QED BY <2>2, <4>1, <4>3, <5>1 DEF ActivityInv, NoActivity
        <4> QED BY <4>2, <4>3
      <3> QED BY <3>3, <3>4 DEF IInv
    <2> QED BY <1>7, <2>1, <2>2 DEF RaiseFromQueue, DrainError, Drops
  <1> QED BY <1>1, <1>2, <1>3, <1>4, <1>5, <1>6, <1>7, <1>8 DEF PollStep

\* A CancelledError that the codec swallows changes nothing but the pending cancel.
LEMMA UncancelledType ==
    ASSUME NEW t \in Tokens, act[t] \in Activity
    PROVE  /\ Uncancelled(t) \in Activity
           /\ ~Uncancelled(t).cancelPending
           /\ Uncancelled(t).pc = act[t].pc
           /\ Uncancelled(t).done = act[t].done
           /\ Uncancelled(t).byRequest = act[t].byRequest
           /\ Uncancelled(t).result = act[t].result
  BY DEF Uncancelled, Activity

\* A heartbeat task that ends leaves the others alone.
LEMMA TaskFinishes ==
    ASSUME hb \in [Tokens -> Heartbeats], NEW t \in Tokens, NEW i \in DOMAIN hb[t].tasks
    PROVE  /\ [hb EXCEPT ![t].tasks[i].st = "finished"] \in [Tokens -> Heartbeats]
           /\ \A u \in Tokens \ {t} : [hb EXCEPT ![t].tasks[i].st = "finished"][u] = hb[u]
  <1> DEFINE tasks == hb[t].tasks
             h == [tasks[i] EXCEPT !.st = "finished"]
  <1>1. tasks \in Seq(HbTask) /\ hb[t] \in Heartbeats
    BY DEF Heartbeats
  <1>2. i \in 1..Len(tasks) /\ tasks[i] \in HbTask
    <2> HIDE DEF tasks
    <2>1. i \in DOMAIN tasks
      BY DEF tasks
    <2> QED BY <1>1, <2>1
  <1>3. h \in HbTask
    BY <1>2 DEF HbTask
  <1> HIDE DEF h
  <1>4. [tasks EXCEPT ![i] = h] \in Seq(HbTask)
    BY <1>1, <1>2, <1>3, ExceptSeq
  <1>5. [hb[t] EXCEPT !.tasks = [tasks EXCEPT ![i] = h]] \in Heartbeats
    BY <1>1, <1>4 DEF Heartbeats
  <1>6. [hb EXCEPT ![t].tasks[i] = h] \in [Tokens -> Heartbeats]
    BY <1>5
  <1> QED BY <1>6 DEF h

\* The steps of the final completion after the await of encode_failure, but for
\* what a cancel does to the heartbeat task it reaches.
Ending(t) ==
    \/ HeartbeatAwaited(t) \/ CompletionAccepted(t) \/ CompletionReturns(t)
    \/ CompletionRefused(t) \/ CompletionCancelled(t)

\* The steps the worker takes for an activity outside user code.
LEMMA WorkerStepInv == ASSUME IInv, NEW t \in Tokens, TaskStep(t) PROVE IInv'
  <1>0. /\ TypeOK /\ act \in [Tokens -> Activity] /\ sent \in [Tokens -> Seq(Results)]
        /\ act[t] \in Activity /\ act[t].result \in Results
    BY DEF IInv, TypeOK, Activity
  <1>a. ActivityInv(t)
    BY DEF IInv
  <1>b. ASSUME NEW b, Good(t, Uncancelled(t), b) PROVE Good(t, act[t], b)
    BY <1>0, <1>b, UncancelledType DEF Good
  <1>1. CASE DecodeResumes(t)
    <2> DEFINE S == Decoded(t, Uncancelled(t)) \cup Raised(t, Catch(t, act[t], "Cancelled"))
    <2>0. ~act[t].done
      BY <1>1, <1>a DEF DecodeResumes, ActivityInv
    <2>1. \A b \in Decoded(t, Uncancelled(t)) : Good(t, act[t], b)
      BY <1>0, <1>b, <2>0, UncancelledType, DecodedGood
    <2>2. \A b \in Catch(t, act[t], "Cancelled") : Good(t, act[t], b)
      BY <1>0, <2>0, CatchGood DEF Exceptions
    <2>3. Becomes(t, S) /\ \A b \in S : Good(t, act[t], b)
      BY <1>1, <2>1, <2>2 DEF DecodeResumes, Raised
    <2> HIDE DEF S
    <2> QED BY <1>0, <1>1, <2>3, TaskStepInv DEF DecodeResumes, pollVars, core, TypeOK
  <1>2. CASE EncodeResumes(t)
    <2> DEFINE S == ResultEncoded(t, Uncancelled(t))
                        \cup Raised(t, Catch(t, act[t], "Cancelled"))
    <2>0. ~act[t].done
      BY <1>2, <1>a DEF EncodeResumes, ActivityInv
    <2>1. \A b \in ResultEncoded(t, Uncancelled(t)) : Good(t, act[t], b)
      BY <1>0, <1>b, <2>0, UncancelledType, ResultEncodedGood
    <2>2. \A b \in Catch(t, act[t], "Cancelled") : Good(t, act[t], b)
      BY <1>0, <2>0, CatchGood DEF Exceptions
    <2>3. Becomes(t, S) /\ \A b \in S : Good(t, act[t], b)
      BY <1>2, <2>1, <2>2 DEF EncodeResumes, Raised
    <2> HIDE DEF S
    <2> QED BY <1>0, <1>2, <2>3, TaskStepInv DEF EncodeResumes, pollVars, core, TypeOK
  <1>3. CASE EncodeFailureResumes(t)
    <2> DEFINE e == [Broken(Uncancelled(t), "no") EXCEPT !.pc = "escaped"]
               S == FailureEncoded(t, Uncancelled(t)) \cup Raised(t, {e})
    <2>0. ~act[t].done
      BY <1>3, <1>a DEF EncodeFailureResumes, ActivityInv
    <2>1. Good(t, act[t], e)
      <3> DEFINE c == Broken(Uncancelled(t), "no")
      <3>1. /\ c \in Activity /\ ~c.cancelPending /\ ~c.done
            /\ c.byRequest = act[t].byRequest /\ c.result = act[t].result
        BY <1>0, <2>0, UncancelledType, BrokenType DEF BrokenStates
      <3> HIDE DEF c
      <3>2. Good(t, act[t], [c EXCEPT !.pc = "escaped"])
        BY <3>1 DEF Good, Activity, PCs
      <3> QED BY <3>2 DEF c
    <2>2. \A b \in FailureEncoded(t, Uncancelled(t)) : Good(t, act[t], b)
      BY <1>0, <1>b, UncancelledType, FailureEncodedGood
    <2> HIDE DEF e
    <2>3. Becomes(t, S) /\ \A b \in S : Good(t, act[t], b)
      BY <1>3, <2>1, <2>2 DEF EncodeFailureResumes, Raised, e
    <2> HIDE DEF S
    <2> QED BY <1>0, <1>3, <2>3, TaskStepInv
            DEF EncodeFailureResumes, pollVars, core, TypeOK
  <1>4. CASE Ending(t)
    <2>1. PICK b \in Activity :
             /\ act' = [act EXCEPT ![t] = b]
             /\ b.done = act[t].done /\ b.byRequest = act[t].byRequest
             /\ b.result = act[t].result
             /\ b.cancelPending => act[t].cancelPending
             /\ b.pc \in {"completing", "flushing", "ended", "escaped"}
             /\ b.pc = "completing" => act[t].pc = "awaitHb"
             /\ b.pc = "escaped" => act[t].cancelPending
             /\ b.pc = "flushing" <=> CompletionAccepted(t)
      <3>1. CASE CompletionAccepted(t) \/ CompletionReturns(t) \/ CompletionRefused(t)
        <4>1. PICK p \in {"flushing", "ended"} :
                 /\ act' = [act EXCEPT ![t].pc = p]
                 /\ p = "flushing" <=> CompletionAccepted(t)
          BY <1>0, <3>1 DEF CompletionAccepted, CompletionReturns, CompletionRefused, Activity
        <4> DEFINE b == [act[t] EXCEPT !.pc = p]
        <4>2. /\ b \in Activity /\ b.pc = p /\ b.done = act[t].done
              /\ b.byRequest = act[t].byRequest /\ b.result = act[t].result
              /\ b.cancelPending = act[t].cancelPending
          BY <1>0, <4>1 DEF Activity, PCs
        <4>3. act' = [act EXCEPT ![t] = b]
          BY <4>1
        <4> HIDE DEF b
        <4> QED BY <4>1, <4>2, <4>3
      <3>2. CASE HeartbeatAwaited(t) \/ CompletionCancelled(t)
        <4>1. PICK p \in {"completing", "escaped"} :
                 /\ act' = [act EXCEPT ![t].pc = p, ![t].cancelPending = FALSE]
                 /\ p = "completing" => act[t].pc = "awaitHb"
                 /\ p = "escaped" => act[t].cancelPending
          BY <3>2 DEF HeartbeatAwaited, CompletionCancelled
        <4> DEFINE b == [act[t] EXCEPT !.pc = p, !.cancelPending = FALSE]
        <4>2. /\ b \in Activity /\ b.pc = p /\ b.done = act[t].done
              /\ b.byRequest = act[t].byRequest /\ b.result = act[t].result
              /\ ~b.cancelPending
          BY <1>0, <4>1 DEF Activity, PCs
        <4>3. act' = [act EXCEPT ![t] = b]
          BY <1>0, <4>1
        <4>4. ~CompletionAccepted(t)
          <5>1. act'[t].pc = p
            BY <1>0, <4>2, <4>3
          <5>2. CompletionAccepted(t) => act'[t].pc = "flushing"
            BY <1>0 DEF CompletionAccepted, Activity
          <5> QED BY <4>1, <5>1, <5>2
        <4> HIDE DEF b
        <4> QED BY <4>1, <4>2, <4>3, <4>4
      <3> QED BY <1>4, <3>1, <3>2 DEF Ending
    <2>2. act' \in [Tokens -> Activity] /\ act'[t] = b
      BY <1>0, <2>1
    <2>3. Append(sent[t], act[t].result) \in Seq(Results)
      BY <1>0, AppendProperties
    <2>4. /\ sent' \in [Tokens -> Seq(Results)] /\ running' \subseteq Tokens
          /\ UNCHANGED <<pollVars, failQueue, hb, recorded>>
          /\ \A u \in Tokens : u # t => sent'[u] = sent[u]
          /\ ~CompletionAccepted(t) => sent' = sent
      BY <1>0, <1>4, <2>3 DEF TypeOK, life, core, Ending, HeartbeatAwaited, CompletionRefused,
                              CompletionReturns, CompletionAccepted, CompletionCancelled
    <2>5. TypeOK'
      BY <1>0, <2>2, <2>4 DEF TypeOK, pollVars
    <2>6. asked' = asked /\ untold' = untold /\ wait' = wait
      BY <2>4 DEF pollVars
    <2>7. act[t].done /\ act[t].pc \in {"awaitHb", "completing", "flushing"}
      BY <1>4, <1>a DEF ActivityInv, Ending, HeartbeatAwaited, CompletionRefused,
                        CompletionReturns, CompletionAccepted, CompletionCancelled
    <2>8. ASSUME NEW u \in Tokens PROVE ActivityInv(u)'
      <3>1. ActivityInv(u)
        BY DEF IInv
      <3>2. CASE u # t
        <4>1. act'[u] = act[u] /\ sent'[u] = sent[u] /\ hb' = hb
          BY <1>0, <2>1, <2>4, <3>2
        <4> QED BY <2>6, <3>1, <4>1 DEF ActivityInv
      <3>3. CASE u = t
        <4>1. CASE CompletionAccepted(t)
          <5>1. sent[t] = <<>> \/ t \in untold
            BY <1>a, <4>1 DEF ActivityInv, CompletionAccepted
          <5>2. sent'[t] = Append(sent[t], act[t].result)
            BY <1>0, <4>1 DEF CompletionAccepted
          <5>3. Len(sent'[t]) <= 1 \/ t \in untold
            BY <1>0, <5>1, <5>2
          <5> QED BY <1>a, <2>1, <2>2, <2>6, <2>7, <3>3, <4>1, <5>3 DEF ActivityInv
        <4>2. CASE ~CompletionAccepted(t)
          BY <1>a, <2>1, <2>2, <2>4, <2>6, <2>7, <3>3, <4>2 DEF ActivityInv
        <4> QED BY <4>1, <4>2
      <3> QED BY <3>2, <3>3
    <2> QED BY <2>5, <2>8 DEF IInv
  <1>5. CASE HeartbeatCancelled(t)
    <2>1. hb[t].tasks \in Seq(HbTask) /\ hb[t].tasks # <<>>
      BY <1>5 DEF HeartbeatCancelled, HbBusy, IInv, TypeOK, Heartbeats
    <2>2. Len(hb[t].tasks) \in DOMAIN hb[t].tasks
      BY <2>1, EmptySeq, LenProperties
    <2>3. hb' \in [Tokens -> Heartbeats] /\ \A u \in Tokens \ {t} : hb'[u] = hb[u]
      <3> DEFINE i == Len(hb[t].tasks)
      <3>1. i \in DOMAIN hb[t].tasks /\ hb' = [hb EXCEPT ![t].tasks[i].st = "finished"]
        BY <1>5, <2>2 DEF HeartbeatCancelled
      <3> HIDE DEF i
      <3>2. hb \in [Tokens -> Heartbeats]
        BY <1>0 DEF TypeOK
      <3> QED BY <3>1, <3>2, TaskFinishes
    <2>4. act[t].pc # "none" /\ UNCHANGED <<pollVars, failQueue, life, core>>
      BY <1>5 DEF HeartbeatCancelled
    <2>5. TypeOK'
      BY <1>0, <2>3, <2>4 DEF TypeOK, pollVars, life, core
    <2>6. ASSUME NEW u \in Tokens PROVE ActivityInv(u)'
      <3>1. ActivityInv(u)
        BY DEF IInv
      <3> QED BY <2>3, <2>4, <3>1 DEF ActivityInv, pollVars, life, core
    <2> QED BY <2>5, <2>6 DEF IInv
  <1> QED BY <1>1, <1>2, <1>3, <1>4, <1>5 DEF TaskStep, Ending

\* The steps of the activity function.
LEMMA UserStepInv == ASSUME IInv, NEW t \in Tokens, UserStep(t) PROVE IInv'
  <1>0. /\ TypeOK /\ act \in [Tokens -> Activity] /\ act[t] \in Activity
        /\ hb \in [Tokens -> Heartbeats] /\ hb[t] \in Heartbeats
    BY DEF IInv, TypeOK
  <1>a. ActivityInv(t)
    BY DEF IInv
  <1>1. CASE ExecReturns(t)
    <2> DEFINE e == [Uncancelled(t) EXCEPT !.pc = "encode"]
               S == IF AsyncCodec THEN {e} ELSE ResultEncoded(t, Uncancelled(t))
    <2>0. ~act[t].done
      BY <1>1, <1>a DEF ExecReturns, ActivityInv
    <2>1. Good(t, act[t], e)
      BY <1>0, <2>0, UncancelledType DEF Good, Activity, PCs
    <2>2. Becomes(t, S)
      BY <1>1 DEF ExecReturns
    <2> HIDE DEF e
    <2>3. ASSUME NEW b \in ResultEncoded(t, Uncancelled(t)) PROVE Good(t, act[t], b)
      <3>1. Good(t, Uncancelled(t), b)
        BY <1>0, <2>0, UncancelledType, ResultEncodedGood
      <3> QED BY <1>0, <3>1, UncancelledType DEF Good
    <2>4. \A b \in S : Good(t, act[t], b)
      BY <2>1, <2>3, FlagAssumption
    <2> HIDE DEF S
    <2> QED BY <1>0, <1>1, <2>2, <2>4, TaskStepInv DEF ExecReturns, pollVars, core, TypeOK
  <1>2. ASSUME NEW exc \in Exceptions, ExecRaises(t, exc) PROVE IInv'
    <2>1. \A b \in Catch(t, act[t], exc) : Good(t, act[t], b)
      BY <1>0, <1>2, <1>a, CatchGood DEF ExecRaises, ActivityInv
    <2> QED BY <1>0, <1>2, <2>1, TaskStepInv DEF ExecRaises, pollVars, core, TypeOK
  <1>3. CASE ExecSwallows(t)
    <2> DEFINE a == [act[t] EXCEPT !.cancelPending = FALSE]
    <2>1. /\ a \in Activity /\ ~a.cancelPending /\ a.pc = act[t].pc
          /\ a.done = act[t].done /\ a.byRequest = act[t].byRequest
          /\ a.result = act[t].result
      BY <1>0 DEF Activity
    <2>2. act' = [act EXCEPT ![t] = a] /\ act[t].pc = "exec"
      BY <1>3 DEF ExecSwallows
    <2> HIDE DEF a
    <2>3. act' \in [Tokens -> Activity] /\ act'[t] = a
      BY <1>0, <2>1, <2>2
    <2>4. TypeOK'
      BY <1>0, <1>3, <2>3 DEF TypeOK, ExecSwallows, pollVars, core
    <2>5. ASSUME NEW u \in Tokens PROVE ActivityInv(u)'
      <3>1. /\ ActivityInv(u) /\ asked' = asked /\ untold' = untold /\ sent' = sent
            /\ hb' = hb /\ wait' = wait
        BY <1>3 DEF IInv, ExecSwallows, pollVars, core
      <3>2. CASE u # t
        BY <1>0, <2>2, <3>1, <3>2 DEF ActivityInv
      <3>3. CASE u = t
        BY <2>1, <2>2, <2>3, <3>1, <3>3 DEF ActivityInv
      <3> QED BY <3>2, <3>3
    <2> QED BY <2>4, <2>5 DEF IInv
  <1>4. CASE Heartbeat(t)
    <2>1. /\ hb[t].made + 1 \in Nat
          /\ Append(hb[t].pending, hb[t].made + 1) \in Seq(Nat)
          /\ Append(hb[t].tasks, [st |-> "new", val |-> 0]) \in Seq(HbTask)
      BY <1>0, AppendProperties DEF Heartbeats, HbTask
    <2>2. hb' \in [Tokens -> Heartbeats]
      BY <1>0, <1>4, <2>1 DEF Heartbeat, Heartbeats
    <2>3. UNCHANGED <<pollVars, failQueue, life, core>>
      BY <1>4 DEF Heartbeat
    <2>4. TypeOK'
      BY <1>0, <2>2, <2>3 DEF TypeOK, pollVars, life, core
    <2>5. ASSUME NEW u \in Tokens PROVE ActivityInv(u)'
      <3>1. /\ ActivityInv(u) /\ asked' = asked /\ untold' = untold /\ sent' = sent
            /\ act' = act /\ wait' = wait
        BY <2>3 DEF IInv, pollVars, life, core
      <3>2. act[u].pc = "none" => hb'[u] = hb[u]
        BY <1>0, <1>4 DEF Heartbeat
      <3> QED BY <3>1, <3>2 DEF ActivityInv
    <2> QED BY <2>4, <2>5 DEF IInv
  <1> QED BY <1>1, <1>2, <1>3, <1>4 DEF UserStep

\* The steps of a heartbeat's task.
LEMMA HeartbeatStepInv == ASSUME IInv, NEW t \in Tokens, HeartbeatStep(t) PROVE IInv'
  <1>0. /\ TypeOK /\ hb \in [Tokens -> Heartbeats] /\ hb[t] \in Heartbeats
        /\ act \in [Tokens -> Activity]
    BY DEF IInv, TypeOK
  <1>1. PICK i \in DOMAIN hb[t].tasks : HeartbeatStarts(t, i) \/ HeartbeatResumes(t, i)
    BY DEF HeartbeatStep
  <1>2. hb[t].tasks \in Seq(HbTask) /\ hb[t].pending \in Seq(Nat)
    BY <1>0 DEF Heartbeats
  <1>3. act[t].pc # "none"
    <2>1. hb[t].tasks # <<>>
      BY <1>1, <1>2
    <2> QED BY <2>1 DEF IInv, ActivityInv
  <1>4. /\ i \in 1..Len(hb[t].tasks) /\ hb[t].tasks[i] \in HbTask
        /\ hb[t].tasks[i].val \in Nat
    <2> DEFINE tasks == hb[t].tasks
    <2>1. tasks \in Seq(HbTask) /\ i \in DOMAIN tasks
      BY <1>1, <1>2
    <2> HIDE DEF tasks
    <2>2. i \in 1..Len(tasks) /\ tasks[i] \in HbTask
      BY <2>1
    <2>3. tasks[i].val \in Nat
      BY <2>2 DEF HbTask
    <2> QED BY <2>2, <2>3 DEF tasks
  <1>5. \A h \in HbTask : [hb[t].tasks EXCEPT ![i] = h] \in Seq(HbTask)
    BY <1>2, <1>4, ExceptSeq
  <1>6. UNCHANGED <<pollVars, failQueue, running, sent>>
    BY <1>1 DEF HeartbeatStarts, HeartbeatResumes
  <1> DEFINE val == IF hb[t].pending = <<>> THEN 0 ELSE hb[t].pending[Len(hb[t].pending)]
  <1>7. val \in Nat
    BY <1>2
  <1>12. \A u \in Tokens \ {t} : hb'[u] = hb[u]
    BY <1>0, <1>1 DEF HeartbeatStarts, HeartbeatResumes
  <1>8. \/ act' = act /\ recorded' = recorded
        \/ \E v \in Nat : Record(t, v)
    BY <1>1, <1>4, <1>7 DEF HeartbeatStarts, HeartbeatResumes
  <1>9. hb' \in [Tokens -> Heartbeats]
    <2>1. CASE HeartbeatStarts(t, i)
      <3>1. PICK st \in {"finished", "encoding"} :
              hb' = [hb EXCEPT ![t].pending = <<>>, ![t].tasks[i] = [st |-> st, val |-> val]]
        BY <2>1 DEF HeartbeatStarts
      <3>2. [st |-> st, val |-> val] \in HbTask
        BY <1>7 DEF HbTask
      <3> HIDE DEF val
      <3>3. [hb[t].tasks EXCEPT ![i] = [st |-> st, val |-> val]] \in Seq(HbTask)
        BY <1>5, <3>2
      <3> DEFINE h == [st |-> st, val |-> val]
      <3>6. [hb[t].tasks EXCEPT ![i] = h] \in Seq(HbTask) /\ <<>> \in Seq(Nat)
        BY <3>3
      <3> HIDE DEF h
      <3>7. [hb[t] EXCEPT !.pending = <<>>, !.tasks[i] = h] \in Heartbeats
        BY <1>0, <3>6 DEF Heartbeats
      <3>4. [hb[t] EXCEPT !.pending = <<>>, !.tasks[i] = [st |-> st, val |-> val]]
              \in Heartbeats
        BY <3>7 DEF h
      <3>5. hb'[t] = [hb[t] EXCEPT !.pending = <<>>, !.tasks[i] = [st |-> st, val |-> val]]
        BY <1>0, <3>1
      <3> QED BY <1>0, <3>1, <3>4, <3>5
    <2>2. CASE HeartbeatResumes(t, i)
      BY <1>0, <1>1, <2>2, TaskFinishes DEF HeartbeatResumes
    <2> QED BY <1>1, <2>1, <2>2
  <1>10. asked' = asked /\ untold' = untold /\ wait' = wait
    BY <1>6 DEF pollVars
  <1>11. /\ act' \in [Tokens -> Activity] /\ recorded' \in [Tokens -> Seq(Nat)]
         /\ \A u \in Tokens : ActivityInv(u)'
    <2>1. CASE act' = act /\ recorded' = recorded
      BY <1>0, <1>3, <1>6, <1>10, <1>12, <2>1 DEF IInv, TypeOK, ActivityInv
    <2>2. ASSUME NEW v \in Nat, Record(t, v)
          PROVE  /\ act' \in [Tokens -> Activity] /\ recorded' \in [Tokens -> Seq(Nat)]
                 /\ \A u \in Tokens : ActivityInv(u)'
      BY <1>3, <1>6, <1>10, <1>12, <2>2, RecordInv
    <2> QED BY <1>8, <2>1, <2>2
  <1> QED BY <1>0, <1>6, <1>9, <1>11 DEF IInv, TypeOK, pollVars

\* Every step of the activity worker preserves the inductive invariant.
LEMMA NextInv == IInv /\ [Next]_vars => IInv'
  <1> SUFFICES ASSUME IInv, [Next]_vars PROVE IInv'
    OBVIOUS
  <1>1. CASE PollStep
    BY <1>1, PollStepInv
  <1>2. ASSUME NEW t \in Tokens, TaskStep(t) PROVE IInv'
    BY <1>2, WorkerStepInv
  <1>3. ASSUME NEW t \in Tokens, UserStep(t) PROVE IInv'
    BY <1>3, UserStepInv
  <1>4. ASSUME NEW t \in Tokens, HeartbeatStep(t) PROVE IInv'
    BY <1>4, HeartbeatStepInv
  <1>5. CASE UNCHANGED vars
    <2>1. UNCHANGED <<poll, wait, shut, shutEvent, seenSync, cancels, asked, untold,
                      failQueue, act, running, hb, sent, recorded>>
      BY <1>5 DEF vars, pollVars, life, core
    <2> QED BY <2>1 DEF IInv, TypeOK, ActivityInv
  <1> QED BY <1>1, <1>2, <1>3, <1>4, <1>5 DEF Next

\* The inductive invariant holds in every state of the activity worker.
THEOREM Invariance == Spec => []IInv
  <1>1. Init => IInv
    BY InitInv
  <1>2. IInv /\ [Next]_vars => IInv'
    BY NextInv
  <1> QED BY <1>1, <1>2, PTL DEF Spec

\* Every variable of the activity worker keeps its type, for every number of
\* activities, queue size and codec.
THEOREM TypeCorrect == Spec => []TypeOK
  <1>1. IInv => TypeOK
    BY DEF IInv
  <1> QED BY <1>1, Invariance, PTL

\* complete_activity_task is accepted at most once for a task, by _run_activity
\* or by the drain but not by both; only a drained cancel task is outside.
THEOREM AtMostOneCompletion == Spec => []ReportedOnce
  <1>1. IInv => ReportedOnce
    BY DEF IInv, ActivityInv, ReportedOnce
  <1> QED BY <1>1, Invariance, PTL

\* _run_activity builds a cancelled completion only after _cancel was called for
\* the task: a CancelledError of any other origin is reported as a failure.
THEOREM NoSpuriousCancel == Spec => []CancelledMeansAsked
  <1>1. IInv => CancelledMeansAsked
    BY DEF IInv, ActivityInv, CancelledMeansAsked
  <1> QED BY <1>1, Invariance, PTL

\* Between "done = True" and the end of _run_activity no cancel task and no failed
\* heartbeat cancels the task: the awaits of the final completion are interrupted
\* only by the gather of a wait_all_completed that is itself cancelled.
THEOREM CompletionUninterrupted == Spec => []DoneUncancellable
  <1>1. IInv => DoneUncancellable
    BY DEF IInv, ActivityInv, DoneUncancellable, Interrupted
  <1> QED BY <1>1, Invariance, PTL
=============================================================================
