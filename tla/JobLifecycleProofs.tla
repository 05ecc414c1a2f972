------------------------- MODULE JobLifecycleProofs -------------------------
(***************************************************************************)
(* The job runtime implements the state machine of JobLifecycle: a session *)
(* of a worker, a scheduler or a cancel request holds one intent between   *)
(* assert_transition and its commit, and every other change of a status is *)
(* one statement.                                                          *)
(***************************************************************************)
EXTENDS JobQueueProofs

\* A session that is not between its check and its write has no intent.
LEMMA NoIntent ==
    /\ \A w \in Workers : pc[w] # "settle" => \A i \in Intents : i[1] # <<"worker", w>>
    /\ \A s \in Schedulers : supPc[s] # "settle" => \A i \in Intents : i[1] # <<"scheduler", s>>
    /\ \A j \in Jobs : j \notin cancelling => \A i \in Intents : i[1] # <<"cancel", j>>
BY DEF Intents, WorkerIntents, SchedulerIntents, CancelIntents

\* A worker checks a transition.
LEMMA WorkerChecks ==
    ASSUME NEW w \in Workers, pc[w] # "settle", pc'[w] = "settle",
           \A v \in Workers \ {w} : UNCHANGED <<pc[v], job[v], to[v]>>
    PROVE  WorkerIntents' = WorkerIntents \cup {<<<<"worker", w>>, job'[w], to'[w]>>}
BY DEF WorkerIntents

\* A worker writes its transition, or loses it.
LEMMA WorkerEnds ==
    ASSUME NEW w \in Workers, pc[w] = "settle", pc'[w] # "settle",
           \A v \in Workers \ {w} : UNCHANGED <<pc[v], job[v], to[v]>>
    PROVE  /\ <<<<"worker", w>>, job[w], to[w]>> \in WorkerIntents
           /\ WorkerIntents' = WorkerIntents \ {<<<<"worker", w>>, job[w], to[w]>>}
BY DEF WorkerIntents

\* A worker does neither.
LEMMA WorkerKeeps ==
    ASSUME NEW w \in Workers, pc[w] # "settle", pc'[w] # "settle",
           \A v \in Workers \ {w} : UNCHANGED <<pc[v], job[v], to[v]>>
    PROVE  WorkerIntents' = WorkerIntents
BY DEF WorkerIntents

\* A scheduler checks a transition.
LEMMA SchedulerChecks ==
    ASSUME NEW s \in Schedulers, supPc[s] # "settle", supPc'[s] = "settle",
           \A r \in Schedulers \ {s} : UNCHANGED <<supPc[r], supJob[r], supTo[r]>>
    PROVE  SchedulerIntents' = SchedulerIntents \cup {<<<<"scheduler", s>>, supJob'[s], supTo'[s]>>}
BY DEF SchedulerIntents

\* A scheduler writes its transition, or loses it.
LEMMA SchedulerEnds ==
    ASSUME NEW s \in Schedulers, supPc[s] = "settle", supPc'[s] # "settle",
           \A r \in Schedulers \ {s} : UNCHANGED <<supPc[r], supJob[r], supTo[r]>>
    PROVE  /\ <<<<"scheduler", s>>, supJob[s], supTo[s]>> \in SchedulerIntents
           /\ SchedulerIntents' = SchedulerIntents \ {<<<<"scheduler", s>>, supJob[s], supTo[s]>>}
BY DEF SchedulerIntents

\* A scheduler does neither.
LEMMA SchedulerKeeps ==
    ASSUME NEW s \in Schedulers, supPc[s] # "settle", supPc'[s] # "settle",
           \A r \in Schedulers \ {s} : UNCHANGED <<supPc[r], supJob[r], supTo[r]>>
    PROVE  SchedulerIntents' = SchedulerIntents
BY DEF SchedulerIntents

\* The intents of workers, schedulers and cancel requests are different intents.
LEMMA IntentsApart ==
    /\ WorkerIntents \cap SchedulerIntents = {}
    /\ WorkerIntents \cap CancelIntents = {}
    /\ SchedulerIntents \cap CancelIntents = {}
BY DEF WorkerIntents, SchedulerIntents, CancelIntents

-----------------------------------------------------------------------------
(* Every step is a step of the state machine, or none *)

\* enqueue, replay, claim, promotion and purge: one statement, no intent.
LEMMA StatementMoves ==
    ASSUME TypeOK,
           \/ \E j \in Jobs : Enqueue(j) \/ Replay(j)
           \/ Purge
           \/ \E w \in Workers : ClaimUpdate(w)
           \/ \E s \in Schedulers : Promote(s)
    PROVE  Lifecycle!Move
<1> USE DEF table, workers, sup, TypeOK, TableTypeOK, Lifecycle!TableTransitions,
            Lifecycle!ALLOWED_TRANSITIONS, Lifecycle!TERMINAL_STATES, Lifecycle!Deferred
<1>1. status' \in [Jobs -> Lifecycle!Statuses]
  BY NextTypeOK DEF Next, Operator, Worker, Scheduler
<1>2. \A k \in Jobs : status'[k] # status[k]
        => <<status[k], status'[k]>> \in Lifecycle!TableTransitions \ Lifecycle!Deferred
  <2> SUFFICES ASSUME NEW k \in Jobs, status'[k] # status[k]
               PROVE  \/ <<status[k], status'[k]>> \in
                            {<<"none", "queued">>, <<"queued", "running">>, <<"retry_wait", "queued">>}
                      \/ status[k] \in Lifecycle!TERMINAL_STATES /\ status'[k] = "purged"
    OBVIOUS
  <2>1. ASSUME NEW j \in Jobs, Enqueue(j) \/ Replay(j)
        PROVE  status[k] = "none" /\ status'[k] = "queued"
    BY <2>1 DEF Enqueue, Replay, Insert
  <2>2. ASSUME Purge PROVE status[k] \in Lifecycle!TERMINAL_STATES /\ status'[k] = "purged"
    BY <2>2 DEF Purge
  <2>3. ASSUME NEW w \in Workers, ClaimUpdate(w)
        PROVE  status[k] = "queued" /\ status'[k] = "running"
    BY <2>3 DEF ClaimUpdate
  <2>4. ASSUME NEW s \in Schedulers, Promote(s)
        PROVE  status[k] = "retry_wait" /\ status'[k] = "queued"
    BY <2>4 DEF Promote
  <2> QED
    BY <2>1, <2>2, <2>3, <2>4
<1>3. UNCHANGED Intents
  <2>1. ASSUME NEW w \in Workers, ClaimUpdate(w) PROVE UNCHANGED Intents
    <3>1. /\ pc[w] # "settle" /\ pc'[w] # "settle"
          /\ \A v \in Workers \ {w} : UNCHANGED <<pc[v], job[v], to[v]>>
      BY <2>1 DEF ClaimUpdate, Release, WorkerTypeOK
    <3>2. UNCHANGED <<supPc, supJob, supTo, cancelling>>
      BY <2>1 DEF ClaimUpdate
    <3> QED
      BY <3>1, <3>2, WorkerKeeps DEF Intents, SchedulerIntents, CancelIntents
  <2>2. ASSUME NEW s \in Schedulers, Promote(s) PROVE UNCHANGED Intents
    <3>1. /\ supPc[s] # "settle" /\ supPc'[s] # "settle"
          /\ \A r \in Schedulers \ {s} : UNCHANGED <<supPc[r], supJob[r], supTo[r]>>
      BY <2>2 DEF Promote, SchedulerTypeOK
    <3>2. UNCHANGED <<pc, job, to, cancelling>>
      BY <2>2 DEF Promote
    <3> QED
      BY <3>1, <3>2, SchedulerKeeps DEF Intents, WorkerIntents, CancelIntents
  <2>3. ASSUME (\E j \in Jobs : Enqueue(j) \/ Replay(j)) \/ Purge PROVE UNCHANGED Intents
    BY <2>3 DEF Enqueue, Replay, Insert, Purge, Intents, WorkerIntents, SchedulerIntents,
       CancelIntents
  <2> QED
    BY <2>1, <2>2, <2>3
<1> QED
  BY <1>1, <1>2, <1>3 DEF Lifecycle!Move

\* The two halves of cancel, and a lost cancel request.
LEMMA CancelSteps ==
    ASSUME TypeOK, NEW j \in Jobs, CancelRead(j) \/ CancelCommit(j) \/ CancelCrash(j)
    PROVE  Lifecycle!Next
<1> USE DEF table, workers, sup, TypeOK, TableTypeOK
<1> DEFINE i == <<<<"cancel", j>>, j, "cancelled">>
<1>0. UNCHANGED <<WorkerIntents, SchedulerIntents>>
  BY DEF CancelRead, CancelCommit, CancelCrash, WorkerIntents, SchedulerIntents
<1>1. CASE CancelRead(j)
  <2>1. <<status[j], "cancelled">> \in Lifecycle!Deferred
    BY <1>1 DEF CancelRead, AssertTransition, Lifecycle!ALLOWED_TRANSITIONS, Lifecycle!Deferred
  <2>2. CancelIntents' = CancelIntents \cup {i}
    BY <1>1 DEF CancelRead, CancelIntents
  <2>3. Lifecycle!Check(<<"cancel", j>>, j, "cancelled")
    BY <1>0, <1>1, <2>1, <2>2, NoIntent DEF CancelRead, Lifecycle!Check, Intents
  <2>4. <<"cancel", j>> \in Sessions /\ "cancelled" \in Lifecycle!Statuses
    BY DEF Sessions, Lifecycle!Statuses, Lifecycle!TERMINAL_STATES
  <2> QED
    BY <2>3, <2>4 DEF Lifecycle!Next
<1>2. CASE CancelCommit(j) \/ CancelCrash(j)
  <2>1. i \in CancelIntents /\ CancelIntents' = CancelIntents \ {i}
    BY <1>2 DEF CancelCommit, CancelCrash, CancelIntents
  <2>2. i \in Intents /\ Intents' = Intents \ {i}
    BY <1>0, <2>1, IntentsApart DEF Intents
  <2>3. i[2] = j /\ i[3] = "cancelled"
    OBVIOUS
  <2> HIDE DEF i
  <2>4. Lifecycle!Write(i) \/ Lifecycle!Drop(i)
    BY <1>2, <2>2, <2>3
       DEF CancelCommit, CancelCrash, Present, Lifecycle!Write, Lifecycle!Drop
  <2> QED
    BY <2>2, <2>4 DEF Lifecycle!Next
<1> QED
  BY <1>1, <1>2

\* What complete and fail do to the status.
LEMMA SettledStatus ==
    ASSUME TypeOK, NEW j \in Jobs, NEW target, NEW delay, WriteSettled(j, target, delay)
    PROVE  status' = IF status[j] \in {"none", "purged"}
                     THEN status ELSE [status EXCEPT ![j] = target]
BY DEF WriteSettled, Present, table

\* The two halves of complete and fail in a worker, and a lost worker.
LEMMA WorkerSteps ==
    ASSUME TypeOK, NEW w \in Workers, Worker(w) \/ WorkerCrash(w)
    PROVE  Lifecycle!Next \/ UNCHANGED Lifecycle!vars
<1> USE DEF table, workers, sup, TypeOK, TableTypeOK
<1>0. CASE ClaimUpdate(w)
  BY <1>0, StatementMoves DEF Lifecycle!Next
<1>1. CASE ClaimSelect(w) \/ RenewLease(w)
  <2>1. /\ pc[w] # "settle" /\ pc'[w] # "settle"
        /\ \A v \in Workers \ {w} : UNCHANGED <<pc[v], job[v], to[v]>>
        /\ UNCHANGED <<status, supPc, supJob, supTo, cancelling>>
    BY <1>1 DEF ClaimSelect, RenewLease, WorkerTypeOK
  <2> QED
    BY <2>1, WorkerKeeps DEF Intents, SchedulerIntents, CancelIntents, Lifecycle!vars
<1>2. ASSUME NEW target \in Settled, Settle(w, target)
      PROVE  Lifecycle!Next \/ UNCHANGED Lifecycle!vars
  <2>1. CASE AssertTransition(status[job[w]], target)
    <3>1. /\ pc[w] # "settle" /\ pc'[w] = "settle" /\ job'[w] = job[w] /\ to'[w] = target
          /\ \A v \in Workers \ {w} : UNCHANGED <<pc[v], job[v], to[v]>>
          /\ UNCHANGED <<status, supPc, supJob, supTo, cancelling>>
          /\ job[w] \in Jobs
      BY <1>2, <2>1 DEF Settle, WorkerTypeOK
    <3>2. <<status[job[w]], target>> \in Lifecycle!Deferred
      BY <2>1 DEF AssertTransition, Settled, Lifecycle!ALLOWED_TRANSITIONS, Lifecycle!Deferred
    <3>3. Intents' = Intents \cup {<<<<"worker", w>>, job[w], target>>}
      BY <3>1, WorkerChecks DEF Intents, SchedulerIntents, CancelIntents
    <3>4. Lifecycle!Check(<<"worker", w>>, job[w], target)
      BY <3>1, <3>2, <3>3, NoIntent DEF Lifecycle!Check
    <3>5. <<"worker", w>> \in Sessions /\ target \in Lifecycle!Statuses
      BY DEF Sessions, Settled, Lifecycle!Statuses, Lifecycle!TERMINAL_STATES
    <3> QED
      BY <3>1, <3>4, <3>5 DEF Lifecycle!Next
  <2>2. CASE ~AssertTransition(status[job[w]], target)
    <3>1. /\ pc[w] # "settle" /\ pc'[w] # "settle"
          /\ \A v \in Workers \ {w} : UNCHANGED <<pc[v], job[v], to[v]>>
          /\ UNCHANGED <<status, supPc, supJob, supTo, cancelling>>
      BY <1>2, <2>2 DEF Settle, Release, WorkerTypeOK
    <3> QED
      BY <3>1, WorkerKeeps DEF Intents, SchedulerIntents, CancelIntents, Lifecycle!vars
  <2> QED
    BY <2>1, <2>2
<1>3. CASE Complete(w) \/ Fail(w) \/ FailNoHandler(w)
  <2>1. /\ FailTarget(attempt[job[w]], FALSE) \in Settled
        /\ FailTarget(attempt[job[w]], TRUE) \in Settled
        /\ "succeeded" \in Settled
    BY DEF FailTarget, Settled
  <2> QED
    BY <1>2, <1>3, <2>1 DEF Complete, Fail, FailNoHandler
<1>4. CASE SettleCommit(w) \/ (WorkerCrash(w) /\ pc[w] = "settle")
  <2> DEFINE i == <<<<"worker", w>>, job[w], to[w]>>
  <2>1. /\ pc[w] = "settle" /\ pc'[w] # "settle"
        /\ \A v \in Workers \ {w} : UNCHANGED <<pc[v], job[v], to[v]>>
        /\ UNCHANGED <<supPc, supJob, supTo, cancelling>>
        /\ job[w] \in Jobs
    BY <1>4 DEF SettleCommit, WorkerCrash, Release, WorkerTypeOK
  <2>2. i \in Intents /\ Intents' = Intents \ {i}
    BY <2>1, WorkerEnds, IntentsApart DEF Intents, SchedulerIntents, CancelIntents
  <2>3. i[2] = job[w] /\ i[3] = to[w]
    OBVIOUS
  <2> HIDE DEF i
  <2>4. Lifecycle!Write(i) \/ Lifecycle!Drop(i)
    <3>1. CASE SettleCommit(w)
      BY <2>1, <2>2, <2>3, <3>1, SettledStatus DEF SettleCommit, Lifecycle!Write
    <3>2. CASE WorkerCrash(w)
      BY <2>2, <3>2 DEF WorkerCrash, Lifecycle!Drop
    <3> QED
      BY <1>4, <3>1, <3>2
  <2> QED
    BY <2>2, <2>4 DEF Lifecycle!Next
<1>5. CASE WorkerCrash(w) /\ pc[w] # "settle"
  <2>1. /\ pc'[w] # "settle"
        /\ \A v \in Workers \ {w} : UNCHANGED <<pc[v], job[v], to[v]>>
        /\ UNCHANGED <<status, supPc, supJob, supTo, cancelling>>
    BY <1>5 DEF WorkerCrash, Release, WorkerTypeOK
  <2> QED
    BY <1>5, <2>1, WorkerKeeps DEF Intents, SchedulerIntents, CancelIntents, Lifecycle!vars
<1> QED
  BY <1>0, <1>1, <1>3, <1>4, <1>5 DEF Worker

\* The two halves of fail in the recovery loop, and a lost scheduler.
LEMMA SchedulerSteps ==
    ASSUME TypeOK, NEW s \in Schedulers, Scheduler(s) \/ SchedulerCrash(s)
    PROVE  Lifecycle!Next \/ UNCHANGED Lifecycle!vars
<1> USE DEF table, workers, sup, TypeOK, TableTypeOK
<1>0. CASE Promote(s)
  BY <1>0, StatementMoves DEF Lifecycle!Next
<1>1. ASSUME supPc[s] # "settle", EndTick(s), UNCHANGED <<table, workers, cancelling>>
      PROVE  UNCHANGED Lifecycle!vars
  <2>1. /\ supPc'[s] # "settle"
        /\ \A r \in Schedulers \ {s} : UNCHANGED <<supPc[r], supJob[r], supTo[r]>>
    BY <1>1 DEF EndTick, SchedulerTypeOK
  <2> QED
    BY <1>1, <2>1, SchedulerKeeps DEF Intents, WorkerIntents, CancelIntents, Lifecycle!vars
<1>2. ASSUME NEW j \in Jobs, NEW rest, supPc[s] # "settle", Recover(s, j, rest),
             UNCHANGED <<table, workers, cancelling>>
      PROVE  Lifecycle!Next \/ UNCHANGED Lifecycle!vars
  <2> DEFINE target == FailTarget(attempt[j], FALSE)
  <2>1. CASE AssertTransition(status[j], target)
    <3>1. /\ supPc'[s] = "settle" /\ supJob'[s] = j /\ supTo'[s] = target
          /\ \A r \in Schedulers \ {s} : UNCHANGED <<supPc[r], supJob[r], supTo[r]>>
      BY <1>2, <2>1 DEF Recover, SchedulerTypeOK
    <3>2. <<status[j], target>> \in Lifecycle!Deferred /\ target \in Lifecycle!Statuses
      BY <2>1 DEF AssertTransition, FailTarget, Lifecycle!ALLOWED_TRANSITIONS,
         Lifecycle!Deferred, Lifecycle!Statuses, Lifecycle!TERMINAL_STATES
    <3> HIDE DEF target
    <3>3. Intents' = Intents \cup {<<<<"scheduler", s>>, j, target>>}
      BY <1>2, <3>1, SchedulerChecks DEF Intents, WorkerIntents, CancelIntents
    <3>4. Lifecycle!Check(<<"scheduler", s>>, j, target)
      BY <1>2, <3>2, <3>3, NoIntent DEF Lifecycle!Check
    <3>5. <<"scheduler", s>> \in Sessions
      BY DEF Sessions
    <3> QED
      BY <3>2, <3>4, <3>5 DEF Lifecycle!Next
  <2>2. CASE ~AssertTransition(status[j], target)
    BY <1>1, <1>2, <2>2 DEF Recover
  <2> QED
    BY <2>1, <2>2
<1>3. CASE SupScan(s) \/ SupNext(s)
  BY <1>1, <1>2, <1>3 DEF SupScan, SupNext, SchedulerTypeOK
<1>4. CASE SupCommit(s) \/ (SchedulerCrash(s) /\ supPc[s] = "settle")
  <2> DEFINE i == <<<<"scheduler", s>>, supJob[s], supTo[s]>>
  <2>1. /\ supPc[s] = "settle" /\ supPc'[s] # "settle"
        /\ \A r \in Schedulers \ {s} : UNCHANGED <<supPc[r], supJob[r], supTo[r]>>
        /\ UNCHANGED <<pc, job, to, cancelling>>
        /\ supJob[s] \in Jobs
    BY <1>4 DEF SupCommit, SchedulerCrash, EndTick, SchedulerTypeOK
  <2>2. i \in Intents /\ Intents' = Intents \ {i}
    BY <2>1, SchedulerEnds, IntentsApart DEF Intents, WorkerIntents, CancelIntents
  <2>3. i[2] = supJob[s] /\ i[3] = supTo[s]
    OBVIOUS
  <2> HIDE DEF i
  <2>4. Lifecycle!Write(i) \/ Lifecycle!Drop(i)
    <3>1. CASE SupCommit(s)
      BY <2>1, <2>2, <2>3, <3>1, SettledStatus DEF SupCommit, Lifecycle!Write
    <3>2. CASE SchedulerCrash(s)
      BY <2>2, <3>2 DEF SchedulerCrash, Lifecycle!Drop
    <3> QED
      BY <1>4, <3>1, <3>2
  <2> QED
    BY <2>2, <2>4 DEF Lifecycle!Next
<1>5. CASE SchedulerCrash(s) /\ supPc[s] # "settle"
  BY <1>1, <1>5 DEF SchedulerCrash
<1> QED
  BY <1>0, <1>3, <1>4, <1>5 DEF Scheduler

\* The job runtime implements the state machine, with no assumption on how
\* sessions interleave: every change of a status was allowed when its session, or
\* its statement, looked at the row.
THEOREM ImplementsLifecycle == Spec => FollowsLifecycle
<1>1. Init => Lifecycle!Init
  BY DEF Init, Lifecycle!Init, Intents, WorkerIntents, SchedulerIntents, CancelIntents
<1>2. TypeOK /\ [Next]_vars => [Lifecycle!Next]_(Lifecycle!vars)
  <2> SUFFICES ASSUME TypeOK, [Next]_vars
               PROVE  Lifecycle!Next \/ UNCHANGED Lifecycle!vars
    OBVIOUS
  <2>1. CASE (\E j \in Jobs : Enqueue(j) \/ Replay(j)) \/ Purge
    BY <2>1, StatementMoves DEF Lifecycle!Next
  <2>2. CASE \E j \in Jobs : CancelRead(j) \/ CancelCommit(j) \/ CancelCrash(j)
    BY <2>2, CancelSteps
  <2>3. CASE \E w \in Workers : Worker(w) \/ WorkerCrash(w)
    BY <2>3, WorkerSteps
  <2>4. CASE \E s \in Schedulers : Scheduler(s) \/ SchedulerCrash(s)
    BY <2>4, SchedulerSteps
  <2>5. CASE Tick \/ UNCHANGED vars
    BY <2>5 DEF Tick, vars, table, workers, sup, Lifecycle!vars, Intents, WorkerIntents,
       SchedulerIntents, CancelIntents
  <2> QED
    BY <2>1, <2>2, <2>3, <2>4, <2>5 DEF Next, Operator, Crash
<1> QED
  BY InitTypeOK, NextTypeOK, <1>1, <1>2, PTL DEF Spec, FollowsLifecycle, Lifecycle!Spec

=============================================================================
