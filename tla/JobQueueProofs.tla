--------------------------- MODULE JobQueueProofs ---------------------------
(***************************************************************************)
(* Theorems about JobQueue for every set of jobs, workers and schedulers   *)
(* and every value of the other constants.                                 *)
(***************************************************************************)
EXTENDS JobQueue, FiniteSetTheorems, TLAPS

-----------------------------------------------------------------------------
(* Facts about the operators *)

\* _backoff returns a natural number: 2^n is the number of subsets of 1..n.
LEMMA BackoffType == ASSUME NEW a \in Nat PROVE Backoff(a) \in Nat
<1> DEFINE n == Higher(a - 1, 0)
<1>1. n \in Nat
  BY DEF Higher
<1>2. IsFiniteSet(1..n) /\ Cardinality(1..n) = n
  BY <1>1, FS_Interval, 1 \in Int, n \in Int
<1>3. IsFiniteSet(SUBSET (1..n)) /\ Cardinality(SUBSET (1..n)) = 2^n
  BY <1>2, FS_SUBSET
<1>4. 2^n \in Nat
  BY <1>3, FS_CardinalityType
<1>5. BackoffBase * 2^n \in Nat
  BY <1>4, ConstantsAssumption
<1> QED
  BY <1>5, ConstantsAssumption DEF Backoff, Lower

\* fail() writes retry_wait or failed.
LEMMA FailTargetType ==
    ASSUME NEW a \in Nat, NEW t \in BOOLEAN
    PROVE  FailTarget(a, t) \in Settled
BY DEF FailTarget, Settled

\* A timestamp that has passed stays passed.
LEMMA HigherType ==
    ASSUME NEW a \in Int, NEW b \in Int
    PROVE  Higher(a, b) \in Int /\ Higher(a, b) >= b /\ Higher(a, b) >= a
BY DEF Higher

-----------------------------------------------------------------------------
(* Type correctness *)

\* The empty table and the idle processes have their types.
LEMMA InitTypeOK == Init => TypeOK
BY ConstantsAssumption
   DEF Init, TypeOK, TableTypeOK, WorkerTypeOK, SchedulerTypeOK,
       Lifecycle!Statuses, Lifecycle!TERMINAL_STATES

\* A worker that ends its session is well typed.
LEMMA ReleaseType ==
    ASSUME WorkerTypeOK, NEW w \in Workers, Release(w)
    PROVE  WorkerTypeOK'
BY DEF WorkerTypeOK, Release

\* A scheduler that ends its tick is well typed.
LEMMA EndTickType ==
    ASSUME SchedulerTypeOK, NEW s \in Schedulers, EndTick(s)
    PROVE  SchedulerTypeOK'
BY DEF SchedulerTypeOK, EndTick

\* complete() and fail() write well-typed columns.
LEMMA WriteSettledType ==
    ASSUME TableTypeOK, NEW j \in Jobs, NEW target \in Settled, NEW d \in Nat,
           WriteSettled(j, target, d)
    PROVE  TableTypeOK'
BY DEF TableTypeOK, WriteSettled, table, Settled, Lifecycle!Statuses, Lifecycle!TERMINAL_STATES

\* A handler's end hands over a status and a timestamp.
LEMMA SettleType ==
    ASSUME TableTypeOK, WorkerTypeOK, NEW w \in Workers, NEW target \in Settled,
           Settle(w, target)
    PROVE  WorkerTypeOK'
<1>1. job[w] \in Jobs
  BY DEF Settle, WorkerTypeOK
<1>2. Backoff(attempt[job[w]]) \in Nat
  BY <1>1, BackoffType DEF TableTypeOK
<1>3. CASE AssertTransition(status[job[w]], target)
  <2> DEFINE left == IF target = "retry_wait" THEN Backoff(attempt[job[w]]) ELSE -1
  <2>1. /\ pc' = [pc EXCEPT ![w] = "settle"]
        /\ to' = [to EXCEPT ![w] = target]
        /\ timer' = [timer EXCEPT ![w] = left]
        /\ UNCHANGED <<job, claimed>>
    BY <1>3 DEF Settle
  <2>2. left \in Nat \cup {-1}
    BY <1>2
  <2> HIDE DEF left
  <2> QED
    BY <1>1, <2>1, <2>2 DEF WorkerTypeOK
<1>4. CASE ~AssertTransition(status[job[w]], target)
  BY <1>4, ReleaseType DEF Settle
<1> QED
  BY <1>3, <1>4

\* Recovery of a job hands over a status and a backoff, or ends the tick.
LEMMA RecoverType ==
    ASSUME TableTypeOK, SchedulerTypeOK, NEW s \in Schedulers, NEW j \in Jobs,
           NEW rest \in SUBSET Jobs, Recover(s, j, rest)
    PROVE  SchedulerTypeOK'
<1> DEFINE target == FailTarget(attempt[j], FALSE)
           delay == IF target = "retry_wait" THEN Backoff(attempt[j]) ELSE 0
<1>1. target \in Settled /\ delay \in Nat
  BY BackoffType, FailTargetType DEF TableTypeOK
<1>2. CASE AssertTransition(status[j], target)
  <2>1. /\ supPc' = [supPc EXCEPT ![s] = "settle"]
        /\ supJob' = [supJob EXCEPT ![s] = j]
        /\ supTodo' = [supTodo EXCEPT ![s] = rest]
        /\ supTo' = [supTo EXCEPT ![s] = target]
        /\ supDelay' = [supDelay EXCEPT ![s] = delay]
        /\ UNCHANGED supAge
    BY <1>2 DEF Recover
  <2> HIDE DEF target, delay
  <2> QED
    BY <1>1, <2>1 DEF SchedulerTypeOK
<1>3. CASE ~AssertTransition(status[j], target)
  BY <1>3, EndTickType DEF Recover
<1> QED
  BY <1>2, <1>3

\* Every step of every process keeps the types: the two halves of a transition
\* hand over the job, the target status and the computed timestamp.
LEMMA NextTypeOK == TypeOK /\ [Next]_vars => TypeOK'
<1> SUFFICES ASSUME TypeOK, [Next]_vars PROVE TypeOK'
  OBVIOUS
<1> USE ConstantsAssumption
<1> USE DEF table, workers, sup, TypeOK
<1>1. ASSUME NEW j \in Jobs, NEW d \in Nat, Insert(j, d) PROVE TypeOK'
  BY <1>1 DEF Insert, TableTypeOK, WorkerTypeOK, SchedulerTypeOK, Lifecycle!Statuses
<1>2. ASSUME NEW j \in Jobs, Enqueue(j) PROVE TypeOK'
  BY <1>1, <1>2 DEF Enqueue
<1>3. ASSUME NEW j \in Jobs, Replay(j) PROVE TypeOK'
  BY <1>1, <1>3 DEF Replay
<1>4. ASSUME NEW j \in Jobs, CancelRead(j) PROVE TypeOK'
  BY <1>4 DEF CancelRead, TableTypeOK, WorkerTypeOK, SchedulerTypeOK
<1>5. ASSUME NEW j \in Jobs, CancelCommit(j) PROVE TypeOK'
  BY <1>5 DEF CancelCommit, TableTypeOK, WorkerTypeOK, SchedulerTypeOK,
     Lifecycle!Statuses, Lifecycle!TERMINAL_STATES
<1>6. CASE Purge
  BY <1>6 DEF Purge, TableTypeOK, WorkerTypeOK, SchedulerTypeOK, Lifecycle!Statuses
<1>7. ASSUME NEW w \in Workers, ClaimSelect(w) PROVE TypeOK'
  BY <1>7 DEF ClaimSelect, TableTypeOK, WorkerTypeOK, SchedulerTypeOK
<1>8. ASSUME NEW w \in Workers, ClaimUpdate(w) PROVE TypeOK'
  <2>1. SchedulerTypeOK' /\ cancelling' \in SUBSET Jobs /\ crashes' \in 0..MaxCrashes
    BY <1>8 DEF ClaimUpdate, SchedulerTypeOK
  <2>2. CASE status[job[w]] = "queued"
    <3>1. job[w] \in Jobs
      BY <1>8 DEF ClaimUpdate, WorkerTypeOK
    <3>2. attempt[job[w]] + 1 \in Nat /\ timer[w] \in Nat \cup {-1}
      BY <3>1 DEF TableTypeOK, WorkerTypeOK
    <3>3. TableTypeOK'
      BY <1>8, <2>2, <3>1, <3>2 DEF ClaimUpdate, TableTypeOK, Lifecycle!Statuses
    <3>4. WorkerTypeOK'
      BY <1>8, <2>2, <3>1, <3>2 DEF ClaimUpdate, WorkerTypeOK
    <3> QED
      BY <2>1, <3>3, <3>4
  <2>3. CASE status[job[w]] # "queued"
    <3>1. TableTypeOK' /\ Release(w)
      BY <1>8, <2>3 DEF ClaimUpdate, TableTypeOK
    <3> QED
      BY <2>1, <3>1, ReleaseType
  <2> QED
    BY <2>2, <2>3
<1>9. ASSUME NEW w \in Workers, RenewLease(w) PROVE TypeOK'
  BY <1>9 DEF RenewLease, TableTypeOK, WorkerTypeOK, SchedulerTypeOK
<1>10. ASSUME NEW w \in Workers, NEW target \in Settled, Settle(w, target) PROVE TypeOK'
  <2>1. WorkerTypeOK'
    BY <1>10, SettleType
  <2> QED
    BY <1>10, <2>1 DEF Settle, TableTypeOK, SchedulerTypeOK
<1>11. ASSUME NEW w \in Workers, Complete(w) PROVE TypeOK'
  BY <1>10, <1>11 DEF Complete, Settled
<1>12. ASSUME NEW w \in Workers, Fail(w) PROVE TypeOK'
  <2>1. attempt[job[w]] \in Nat
    BY <1>12 DEF Fail, Settle, TableTypeOK, WorkerTypeOK
  <2> QED
    BY <1>10, <1>12, <2>1, FailTargetType DEF Fail
<1>13. ASSUME NEW w \in Workers, FailNoHandler(w) PROVE TypeOK'
  <2>1. attempt[job[w]] \in Nat
    BY <1>13 DEF FailNoHandler, Settle, TableTypeOK, WorkerTypeOK
  <2> QED
    BY <1>10, <1>13, <2>1, FailTargetType DEF FailNoHandler
<1>14. ASSUME NEW w \in Workers, SettleCommit(w) PROVE TypeOK'
  <2>1. job[w] \in Jobs /\ to[w] \in Settled /\ Higher(timer[w], 0) \in Nat
    BY <1>14 DEF SettleCommit, Higher, WorkerTypeOK
  <2>2. TableTypeOK' /\ WorkerTypeOK'
    BY <1>14, <2>1, WriteSettledType, ReleaseType DEF SettleCommit
  <2> QED
    BY <1>14, <2>2 DEF SettleCommit, SchedulerTypeOK
<1>15. ASSUME NEW s \in Schedulers, Promote(s) PROVE TypeOK'
  BY <1>15 DEF Promote, TableTypeOK, WorkerTypeOK, SchedulerTypeOK, Lifecycle!Statuses
<1>16. ASSUME NEW s \in Schedulers, SupScan(s) PROVE TypeOK'
  <2>1. SchedulerTypeOK'
    BY <1>16, EndTickType, RecoverType DEF SupScan
  <2> QED
    BY <1>16, <2>1 DEF SupScan, TableTypeOK, WorkerTypeOK
<1>17. ASSUME NEW s \in Schedulers, SupNext(s) PROVE TypeOK'
  <2>1. PICK j \in supTodo[s] : Recover(s, j, supTodo[s] \ {j})
    BY <1>17 DEF SupNext
  <2>2. j \in Jobs /\ supTodo[s] \ {j} \in SUBSET Jobs
    BY DEF SchedulerTypeOK
  <2>3. SchedulerTypeOK'
    BY <2>1, <2>2, RecoverType
  <2> QED
    BY <1>17, <2>3 DEF SupNext, TableTypeOK, WorkerTypeOK
<1>18. ASSUME NEW s \in Schedulers, SupCommit(s) PROVE TypeOK'
  <2>1. /\ supJob[s] \in Jobs /\ supTo[s] \in Settled
        /\ Higher(supDelay[s] - supAge[s], 0) \in Nat
    BY <1>18 DEF SupCommit, Higher, SchedulerTypeOK
  <2>2. TableTypeOK'
    BY <1>18, <2>1, WriteSettledType DEF SupCommit
  <2>3. CASE EndTick(s)
    BY <1>18, <2>2, <2>3, EndTickType DEF SupCommit, WorkerTypeOK
  <2>4. CASE ~EndTick(s)
    <3>1. SchedulerTypeOK'
      BY <1>18, <2>4 DEF SupCommit, SchedulerTypeOK
    <3> QED
      BY <1>18, <2>2, <3>1 DEF SupCommit, WorkerTypeOK
  <2> QED
    BY <2>3, <2>4
<1>19. ASSUME NEW w \in Workers, WorkerCrash(w) PROVE TypeOK'
  <2>1. WorkerTypeOK'
    BY <1>19, ReleaseType DEF WorkerCrash
  <2> QED
    BY <1>19, <2>1 DEF WorkerCrash, TableTypeOK, SchedulerTypeOK
<1>20. ASSUME NEW s \in Schedulers, SchedulerCrash(s) PROVE TypeOK'
  <2>1. SchedulerTypeOK'
    BY <1>20, EndTickType DEF SchedulerCrash
  <2> QED
    BY <1>20, <2>1 DEF SchedulerCrash, TableTypeOK, WorkerTypeOK
<1>21. ASSUME NEW j \in Jobs, CancelCrash(j) PROVE TypeOK'
  BY <1>21 DEF CancelCrash, TableTypeOK, WorkerTypeOK, SchedulerTypeOK
<1>22. CASE Tick
  <2>1. TableTypeOK'
    BY <1>22 DEF Tick, TableTypeOK, Higher
  <2>2. WorkerTypeOK'
    BY <1>22 DEF Tick, WorkerTypeOK, Higher
  <2>3. SchedulerTypeOK'
    BY <1>22 DEF Tick, SchedulerTypeOK, Lower
  <2> QED
    BY <1>22, <2>1, <2>2, <2>3 DEF Tick
<1>23. CASE UNCHANGED vars
  BY <1>23 DEF vars, TableTypeOK, WorkerTypeOK, SchedulerTypeOK
<1> QED
  BY <1>2, <1>3, <1>4, <1>5, <1>6, <1>7, <1>8, <1>9, <1>11, <1>12, <1>13, <1>14, <1>15,
     <1>16, <1>17, <1>18, <1>19, <1>20, <1>21, <1>22, <1>23
     DEF Next, Operator, Worker, Scheduler, Crash

\* Every variable of the job runtime has its type in every reachable state.
THEOREM TypeCorrect == Spec => []TypeOK
BY InitTypeOK, NextTypeOK, PTL DEF Spec

-----------------------------------------------------------------------------
(* At most one worker per attempt *)

\* A job that a worker has selected or holds has been inserted.
HeldExists == \A w \in Workers : pc[w] # "idle" => status[job[w]] # "none"

\* The attempt counter of a held job has not fallen behind the claim.
ClaimNotAhead == \A w \in Workers : pc[w] \in Holding => claimed[w] <= attempt[job[w]]

\* ClaimsDistinct is not inductive: a claim takes a number above every number in
\* use only because no held claim is ahead of the counter, and the counter is not
\* reset under a worker only because rows are inserted once.
ClaimInv == HeldExists /\ ClaimNotAhead /\ ClaimsDistinct

\* Nobody holds a job in the empty table.
LEMMA InitClaimInv == Init => ClaimInv
BY DEF Init, ClaimInv, HeldExists, ClaimNotAhead, ClaimsDistinct, Holding

\* A step after which a worker holds a job only if it did before, with the same
\* claim, and which neither lowers a counter nor removes a row, keeps ClaimInv.
LEMMA ClaimInvFrame ==
    ASSUME TypeOK, ClaimInv,
           \A w \in Workers : pc'[w] # "idle" =>
               job'[w] = job[w] /\ claimed'[w] = claimed[w] /\ pc[w] # "idle",
           \A w \in Workers : pc'[w] \in Holding => pc[w] \in Holding,
           \A w \in Workers : pc[w] # "idle" =>
               attempt'[job[w]] = attempt[job[w]] /\ status'[job[w]] # "none"
    PROVE  ClaimInv'
<1> USE DEF ClaimInv, Holding
<1>1. HeldExists'
  BY DEF HeldExists
<1>2. ClaimNotAhead'
  BY DEF ClaimNotAhead
<1>3. ClaimsDistinct'
  BY DEF ClaimsDistinct
<1> QED
  BY <1>1, <1>2, <1>3

\* The claim's UPDATE ... WHERE status = 'queued' gives out a fresh attempt.
LEMMA ClaimUpdateClaimInv ==
    ASSUME TypeOK, ClaimInv, NEW w \in Workers, ClaimUpdate(w), status[job[w]] = "queued"
    PROVE  ClaimInv'
<1> DEFINE j == job[w]
<1>1. j \in Jobs /\ attempt[j] \in Nat
  BY DEF TypeOK, TableTypeOK, WorkerTypeOK, ClaimUpdate
<1>2. /\ status' = [status EXCEPT ![j] = "running"]
      /\ attempt' = [attempt EXCEPT ![j] = @ + 1]
      /\ claimed' = [claimed EXCEPT ![w] = attempt[j] + 1]
      /\ pc' = [pc EXCEPT ![w] = "running"]
      /\ pc[w] = "selected"
      /\ UNCHANGED job
  BY DEF ClaimUpdate
<1>3. ASSUME NEW v \in Workers, v # w
      PROVE  pc'[v] = pc[v] /\ claimed'[v] = claimed[v] /\ claimed[v] \in Nat
  BY <1>2, <1>3 DEF TypeOK, WorkerTypeOK
<1>4. pc'[w] = "running" /\ claimed'[w] = attempt[j] + 1 /\ attempt'[j] = attempt[j] + 1
  BY <1>1, <1>2 DEF TypeOK, TableTypeOK, WorkerTypeOK
<1>5. ASSUME NEW v \in Workers, v # w, pc[v] \in Holding
      PROVE  /\ claimed[v] <= attempt[job[v]] /\ attempt[job[v]] <= attempt'[job[v]]
             /\ attempt[job[v]] \in Nat /\ attempt'[job[v]] \in Nat
  <2>1. job[v] \in Jobs
    BY <1>5 DEF TypeOK, WorkerTypeOK, Holding
  <2> QED
    BY <1>1, <1>2, <1>5, <2>1 DEF TypeOK, TableTypeOK, ClaimInv, ClaimNotAhead
<1>6. HeldExists'
  BY <1>2, <1>3, <1>1 DEF ClaimInv, HeldExists, TypeOK, TableTypeOK, WorkerTypeOK
<1>7. ClaimNotAhead'
  <2> SUFFICES ASSUME NEW v \in Workers, pc'[v] \in Holding
               PROVE  claimed'[v] <= attempt'[job[v]]
    BY <1>2 DEF ClaimNotAhead
  <2>1. CASE v = w
    BY <1>1, <1>4, <2>1
  <2>2. CASE v # w
    BY <1>3, <1>5, <2>2
  <2> QED
    BY <2>1, <2>2
<1>8. ASSUME NEW v \in Workers, v # w, pc'[v] \in Holding, job[v] = j
      PROVE  claimed'[v] < claimed'[w]
  BY <1>1, <1>3, <1>4, <1>5, <1>8
<1>9. ClaimsDistinct'
  <2> SUFFICES ASSUME NEW u \in Workers, NEW v \in Workers, u # v,
                      pc'[u] \in Holding, pc'[v] \in Holding, job[u] = job[v]
               PROVE  claimed'[u] # claimed'[v]
    BY <1>2 DEF ClaimsDistinct
  <2>1. CASE u = w
    BY <1>1, <1>3, <1>4, <1>8, <2>1
  <2>2. CASE v = w
    BY <1>1, <1>3, <1>4, <1>8, <2>2
  <2>3. CASE u # w /\ v # w
    BY <1>3, <2>3 DEF ClaimInv, ClaimsDistinct
  <2> QED
    BY <2>1, <2>2, <2>3
<1> QED
  BY <1>6, <1>7, <1>9 DEF ClaimInv

\* Every step keeps ClaimInv: only a claim hands out an attempt, and only a claim raises
\* the counter.
LEMMA NextClaimInv == TypeOK /\ ClaimInv /\ [Next]_vars => ClaimInv'
<1> SUFFICES ASSUME TypeOK, ClaimInv, [Next]_vars PROVE ClaimInv'
  OBVIOUS
<1> USE DEF table, workers, sup, Holding
<1>1. \A w \in Workers : pc[w] # "idle" => job[w] \in Jobs /\ status[job[w]] # "none"
  BY DEF TypeOK, WorkerTypeOK, ClaimInv, HeldExists
<1>2. ASSUME NEW j \in Jobs, NEW d \in Nat, Insert(j, d) PROVE ClaimInv'
  BY <1>1, <1>2, ClaimInvFrame DEF Insert, TypeOK, TableTypeOK
<1>3. ASSUME NEW j \in Jobs, Enqueue(j) PROVE ClaimInv'
  BY <1>2, <1>3, ConstantsAssumption DEF Enqueue
<1>4. ASSUME NEW j \in Jobs, Replay(j) PROVE ClaimInv'
  BY <1>2, <1>4 DEF Replay
<1>5. ASSUME NEW j \in Jobs, CancelRead(j) \/ CancelCommit(j) \/ CancelCrash(j) PROVE ClaimInv'
  BY <1>1, <1>5, ClaimInvFrame DEF CancelRead, CancelCommit, CancelCrash, TypeOK, TableTypeOK
<1>6. CASE Purge
  BY <1>1, <1>6, ClaimInvFrame DEF Purge, TypeOK, TableTypeOK
<1>7. ASSUME NEW w \in Workers, ClaimSelect(w) PROVE ClaimInv'
  <2>1. HeldExists'
    BY <1>7, ConstantsAssumption DEF ClaimSelect, Due, ClaimInv, HeldExists, TypeOK, WorkerTypeOK
  <2>2. ClaimNotAhead' /\ ClaimsDistinct'
    BY <1>7 DEF ClaimSelect, ClaimInv, ClaimNotAhead, ClaimsDistinct, TypeOK, WorkerTypeOK
  <2> QED
    BY <2>1, <2>2 DEF ClaimInv
<1>8. ASSUME NEW w \in Workers, Release(w), UNCHANGED table PROVE ClaimInv'
  BY <1>1, <1>8, ClaimInvFrame DEF Release, TypeOK, WorkerTypeOK
<1>9. ASSUME NEW w \in Workers, ClaimUpdate(w) PROVE ClaimInv'
  BY <1>8, <1>9, ClaimUpdateClaimInv DEF ClaimUpdate
<1>10. ASSUME NEW w \in Workers, RenewLease(w) PROVE ClaimInv'
  BY <1>1, <1>10, ClaimInvFrame DEF RenewLease
<1>11. ASSUME NEW w \in Workers, NEW target, Settle(w, target) PROVE ClaimInv'
  <2>1. CASE AssertTransition(status[job[w]], target)
    BY <1>1, <1>11, <2>1, ClaimInvFrame DEF Settle, TypeOK, WorkerTypeOK
  <2>2. CASE ~AssertTransition(status[job[w]], target)
    BY <1>8, <1>11, <2>2 DEF Settle
  <2> QED
    BY <2>1, <2>2
<1>12. ASSUME NEW w \in Workers, Complete(w) \/ Fail(w) \/ FailNoHandler(w) PROVE ClaimInv'
  BY <1>11, <1>12 DEF Complete, Fail, FailNoHandler
<1>13. ASSUME NEW j \in Jobs, NEW target \in Settled, NEW d, WriteSettled(j, target, d)
       PROVE  UNCHANGED attempt /\ \A k \in Jobs : status[k] # "none" => status'[k] # "none"
  BY <1>13 DEF WriteSettled, Settled, TypeOK, TableTypeOK
<1>14. ASSUME NEW w \in Workers, SettleCommit(w) PROVE ClaimInv'
  <2>1. job[w] \in Jobs /\ to[w] \in Settled
    BY <1>14 DEF SettleCommit, TypeOK, WorkerTypeOK
  <2>2. UNCHANGED attempt /\ \A k \in Jobs : status[k] # "none" => status'[k] # "none"
    BY <1>13, <1>14, <2>1 DEF SettleCommit
  <2> QED
    BY <1>1, <1>14, <2>2, ClaimInvFrame DEF SettleCommit, Release, TypeOK, WorkerTypeOK
<1>15. ASSUME NEW s \in Schedulers, Promote(s) PROVE ClaimInv'
  BY <1>1, <1>15, ClaimInvFrame DEF Promote, TypeOK, TableTypeOK
<1>16. ASSUME NEW s \in Schedulers, SupScan(s) \/ SupNext(s) \/ SchedulerCrash(s) PROVE ClaimInv'
  BY <1>1, <1>16, ClaimInvFrame DEF SupScan, SupNext, SchedulerCrash
<1>17. ASSUME NEW s \in Schedulers, SupCommit(s) PROVE ClaimInv'
  <2>1. supJob[s] \in Jobs /\ supTo[s] \in Settled
    BY <1>17 DEF SupCommit, TypeOK, SchedulerTypeOK
  <2>2. UNCHANGED attempt /\ \A k \in Jobs : status[k] # "none" => status'[k] # "none"
    BY <1>13, <1>17, <2>1 DEF SupCommit
  <2> QED
    BY <1>1, <1>17, <2>2, ClaimInvFrame DEF SupCommit
<1>18. ASSUME NEW w \in Workers, WorkerCrash(w) PROVE ClaimInv'
  BY <1>8, <1>18 DEF WorkerCrash
<1>19. CASE Tick
  BY <1>1, <1>19, ClaimInvFrame DEF Tick
<1>20. CASE UNCHANGED vars
  BY <1>1, <1>20, ClaimInvFrame DEF vars
<1> QED
  BY <1>3, <1>4, <1>5, <1>6, <1>7, <1>9, <1>10, <1>12, <1>14, <1>15, <1>16, <1>17, <1>18,
     <1>19, <1>20
     DEF Next, Operator, Worker, Scheduler, Crash

\* For any number of workers, jobs and schedulers, with or without renewal, crashes
\* and lost updates: two workers never execute the same attempt of a job.
THEOREM ClaimsExclusive == Spec => []ClaimsDistinct
<1>1. TypeOK /\ ClaimInv /\ [Next]_vars => (TypeOK /\ ClaimInv)'
  BY NextTypeOK, NextClaimInv
<1>2. TypeOK /\ ClaimInv => ClaimsDistinct
  BY DEF ClaimInv
<1> QED
  BY InitTypeOK, InitClaimInv, <1>1, <1>2, PTL DEF Spec

-----------------------------------------------------------------------------
(* Leases, backoff and recovery *)

\* complete() and fail() leave a row alone or move it to a settled status.
LEMMA SettledWrites ==
    ASSUME TypeOK, NEW j \in Jobs, NEW target \in Settled, NEW d \in Nat,
           WriteSettled(j, target, d), NEW k \in Jobs
    PROVE  \/ UNCHANGED <<status[k], wait[k], owner[k], ttl[k]>>
           \/ status'[k] \in Settled /\ owner'[k] = None
BY DEF WriteSettled, table, TypeOK, TableTypeOK

\* A job that a worker has selected is due whenever it is queued.
SelectedDue ==
    \A w \in Workers : pc[w] = "selected" /\ status[job[w]] = "queued" => wait[job[w]] = 0

\* Leases and backoff: SelectedDue needs HeldExists, since only an insertion can
\* queue a row that is not due.
LeaseInv == RunningIsLeased /\ HeldExists /\ SelectedDue

\* The empty table has no running row and no selected one.
LEMMA InitLeaseInv == Init => LeaseInv
BY DEF Init, LeaseInv, RunningIsLeased, HeldExists, SelectedDue

\* A step that claims nothing, selects nothing and inserts nothing under a worker.
LEMMA LeaseInvFrame ==
    ASSUME TypeOK, LeaseInv,
           \A k \in Jobs : status'[k] = "running" => status[k] = "running" /\ owner'[k] = owner[k],
           \A k \in Jobs : status[k] # "none" => status'[k] # "none",
           \A k \in Jobs : status[k] # "none" /\ status'[k] = "queued" =>
               wait'[k] = 0 \/ (status[k] = "queued" /\ wait'[k] = wait[k]),
           \A w \in Workers : pc'[w] # "idle" => pc[w] # "idle" /\ job'[w] = job[w],
           \A w \in Workers : pc'[w] = "selected" => pc[w] = "selected"
    PROVE  LeaseInv'
<1> USE DEF LeaseInv
<1>1. RunningIsLeased'
  BY DEF RunningIsLeased
<1>2. HeldExists'
  BY DEF HeldExists, TypeOK, WorkerTypeOK
<1>3. SelectedDue'
  BY DEF SelectedDue, HeldExists, TypeOK, WorkerTypeOK
<1> QED
  BY <1>1, <1>2, <1>3

\* Every step keeps LeaseInv: the claim leases the row it makes running, and a row that
\* waits for its backoff is never the candidate of a claim.
LEMMA NextLeaseInv == TypeOK /\ LeaseInv /\ [Next]_vars => LeaseInv'
<1> SUFFICES ASSUME TypeOK, LeaseInv, [Next]_vars PROVE LeaseInv'
  OBVIOUS
<1> USE DEF table, workers, sup, TypeOK
<1>1. ASSUME NEW j \in Jobs, NEW d \in Nat, Insert(j, d) PROVE LeaseInv'
  <2>1. status[j] = "none" /\ status' = [status EXCEPT ![j] = "queued"]
        /\ wait' = [wait EXCEPT ![j] = d] /\ UNCHANGED <<owner, pc, job>>
    BY <1>1 DEF Insert
  <2> QED
    BY <2>1, LeaseInvFrame DEF TableTypeOK
<1>2. ASSUME NEW j \in Jobs, Enqueue(j) PROVE LeaseInv'
  BY <1>1, <1>2, ConstantsAssumption DEF Enqueue
<1>3. ASSUME NEW j \in Jobs, Replay(j) PROVE LeaseInv'
  BY <1>1, <1>3 DEF Replay
<1>4. ASSUME NEW j \in Jobs, CancelRead(j) \/ CancelCommit(j) \/ CancelCrash(j) PROVE LeaseInv'
  BY <1>4, LeaseInvFrame DEF CancelRead, CancelCommit, CancelCrash, TableTypeOK, Present
<1>5. CASE Purge
  BY <1>5, LeaseInvFrame DEF Purge, TableTypeOK
<1>6. ASSUME NEW w \in Workers, ClaimSelect(w) PROVE LeaseInv'
  BY <1>6, ConstantsAssumption
     DEF ClaimSelect, Due, LeaseInv, RunningIsLeased, HeldExists, SelectedDue, WorkerTypeOK
<1>7. ASSUME NEW w \in Workers, Release(w), UNCHANGED table PROVE LeaseInv'
  BY <1>7, LeaseInvFrame DEF Release, WorkerTypeOK
<1>8. ASSUME NEW w \in Workers, ClaimUpdate(w), status[job[w]] = "queued" PROVE LeaseInv'
  <2>1. /\ job[w] \in Jobs
        /\ status' = [status EXCEPT ![job[w]] = "running"]
        /\ owner' = [owner EXCEPT ![job[w]] = w]
        /\ pc' = [pc EXCEPT ![w] = "running"]
        /\ UNCHANGED <<wait, job>>
    BY <1>8 DEF ClaimUpdate, WorkerTypeOK
  <2>2. RunningIsLeased'
    BY <2>1, ConstantsAssumption DEF LeaseInv, RunningIsLeased, TableTypeOK
  <2>3. HeldExists' /\ SelectedDue'
    BY <1>8, <2>1 DEF LeaseInv, HeldExists, SelectedDue, TableTypeOK, WorkerTypeOK
  <2> QED
    BY <2>2, <2>3 DEF LeaseInv
<1>9. ASSUME NEW w \in Workers, ClaimUpdate(w) PROVE LeaseInv'
  BY <1>7, <1>8, <1>9 DEF ClaimUpdate
<1>10. ASSUME NEW w \in Workers, RenewLease(w) PROVE LeaseInv'
  BY <1>10, LeaseInvFrame DEF RenewLease
<1>11. ASSUME NEW w \in Workers, NEW target, Settle(w, target) PROVE LeaseInv'
  <2>1. CASE AssertTransition(status[job[w]], target)
    BY <1>11, <2>1, LeaseInvFrame DEF Settle, WorkerTypeOK
  <2>2. CASE ~AssertTransition(status[job[w]], target)
    BY <1>7, <1>11, <2>2 DEF Settle
  <2> QED
    BY <2>1, <2>2
<1>12. ASSUME NEW w \in Workers, Complete(w) \/ Fail(w) \/ FailNoHandler(w) PROVE LeaseInv'
  BY <1>11, <1>12 DEF Complete, Fail, FailNoHandler
<1>13. ASSUME NEW w \in Workers, SettleCommit(w) PROVE LeaseInv'
  <2>1. job[w] \in Jobs /\ to[w] \in Settled /\ Higher(timer[w], 0) \in Nat
    BY <1>13 DEF SettleCommit, WorkerTypeOK, Higher
  <2>2. \A k \in Jobs : \/ UNCHANGED <<status[k], wait[k], owner[k], ttl[k]>>
                        \/ status'[k] \in Settled
    BY <1>13, <2>1, SettledWrites DEF SettleCommit
  <2> QED
    BY <1>13, <2>2, LeaseInvFrame DEF SettleCommit, Release, Settled, WorkerTypeOK
<1>14. ASSUME NEW s \in Schedulers, Promote(s) PROVE LeaseInv'
  BY <1>14, LeaseInvFrame DEF Promote, TableTypeOK
<1>15. ASSUME NEW s \in Schedulers, SupScan(s) \/ SupNext(s) \/ SchedulerCrash(s) PROVE LeaseInv'
  BY <1>15, LeaseInvFrame DEF SupScan, SupNext, SchedulerCrash
<1>16. ASSUME NEW s \in Schedulers, SupCommit(s) PROVE LeaseInv'
  <2>1. /\ supJob[s] \in Jobs /\ supTo[s] \in Settled
        /\ Higher(supDelay[s] - supAge[s], 0) \in Nat
    BY <1>16 DEF SupCommit, SchedulerTypeOK, Higher
  <2>2. \A k \in Jobs : \/ UNCHANGED <<status[k], wait[k], owner[k], ttl[k]>>
                        \/ status'[k] \in Settled
    BY <1>16, <2>1, SettledWrites DEF SupCommit
  <2> QED
    BY <1>16, <2>2, LeaseInvFrame DEF SupCommit, Settled
<1>17. ASSUME NEW w \in Workers, WorkerCrash(w) PROVE LeaseInv'
  BY <1>7, <1>17 DEF WorkerCrash
<1>18. CASE Tick
  <2>1. \A k \in Jobs : wait[k] = 0 => wait'[k] = 0
    BY <1>18 DEF Tick, Higher
  <2>2. UNCHANGED <<status, owner, pc, job>>
    BY <1>18 DEF Tick
  <2> QED
    BY <2>1, <2>2 DEF LeaseInv, RunningIsLeased, HeldExists, SelectedDue, WorkerTypeOK
<1>19. CASE UNCHANGED vars
  BY <1>19, LeaseInvFrame DEF vars
<1> QED
  BY <1>2, <1>3, <1>4, <1>5, <1>6, <1>9, <1>10, <1>12, <1>13, <1>14, <1>15, <1>16, <1>17,
     <1>18, <1>19
     DEF Next, Operator, Worker, Scheduler, Crash

\* A running row always has a lease, so the supervisor finds every abandoned job.
THEOREM RunningLeased == Spec => []RunningIsLeased
<1>1. TypeOK /\ LeaseInv /\ [Next]_vars => (TypeOK /\ LeaseInv)'
  BY NextTypeOK, NextLeaseInv
<1>2. TypeOK /\ LeaseInv => RunningIsLeased
  BY DEF LeaseInv
<1> QED
  BY InitTypeOK, InitLeaseInv, <1>1, <1>2, PTL DEF Spec

\* The commit of a worker's or of a scheduler's transition, seen from one row.
LEMMA CommitWrites ==
    ASSUME TypeOK, NEW k \in Jobs,
           \/ \E w \in Workers : SettleCommit(w)
           \/ \E s \in Schedulers : SupCommit(s)
    PROVE  \/ UNCHANGED <<status[k], wait[k], owner[k], ttl[k]>>
           \/ status'[k] \in Settled /\ owner'[k] = None
<1>1. ASSUME NEW w \in Workers, SettleCommit(w)
      PROVE  \/ UNCHANGED <<status[k], wait[k], owner[k], ttl[k]>>
             \/ status'[k] \in Settled /\ owner'[k] = None
  <2>1. job[w] \in Jobs /\ to[w] \in Settled /\ Higher(timer[w], 0) \in Nat
    BY <1>1 DEF SettleCommit, TypeOK, WorkerTypeOK, Higher
  <2> QED
    BY <1>1, <2>1, SettledWrites DEF SettleCommit
<1>2. ASSUME NEW s \in Schedulers, SupCommit(s)
      PROVE  \/ UNCHANGED <<status[k], wait[k], owner[k], ttl[k]>>
             \/ status'[k] \in Settled /\ owner'[k] = None
  <2>1. /\ supJob[s] \in Jobs /\ supTo[s] \in Settled
        /\ Higher(supDelay[s] - supAge[s], 0) \in Nat
    BY <1>2 DEF SupCommit, TypeOK, SchedulerTypeOK, Higher
  <2> QED
    BY <1>2, <2>1, SettledWrites DEF SupCommit
<1> QED
  BY <1>1, <1>2

\* A row becomes running only by the claim of a worker that has selected it.
LEMMA OnlyClaimRuns ==
    ASSUME TypeOK, [Next]_vars, NEW k \in Jobs, status[k] # "running", status'[k] = "running"
    PROVE  \E w \in Workers : ClaimUpdate(w) /\ pc[w] = "selected" /\ job[w] = k /\ status[k] = "queued"
<1> USE DEF table, workers, sup, TypeOK, TableTypeOK
<1>1. ASSUME NEW j \in Jobs, Enqueue(j) \/ Replay(j) PROVE FALSE
  BY <1>1 DEF Enqueue, Replay, Insert
<1>2. ASSUME NEW j \in Jobs, CancelRead(j) \/ CancelCommit(j) \/ CancelCrash(j) PROVE FALSE
  BY <1>2 DEF CancelRead, CancelCommit, CancelCrash
<1>3. ~Purge
  BY DEF Purge
<1>4. ASSUME NEW w \in Workers, ClaimUpdate(w)
      PROVE  pc[w] = "selected" /\ job[w] = k /\ status[k] = "queued"
  BY <1>4 DEF ClaimUpdate
<1>5. ASSUME NEW w \in Workers, ClaimSelect(w) \/ RenewLease(w) \/ WorkerCrash(w) PROVE FALSE
  BY <1>5 DEF ClaimSelect, RenewLease, WorkerCrash
<1>6. ASSUME NEW w \in Workers, Complete(w) \/ Fail(w) \/ FailNoHandler(w) PROVE FALSE
  BY <1>6 DEF Complete, Fail, FailNoHandler, Settle
<1>7. ASSUME (\E w \in Workers : SettleCommit(w)) \/ (\E s \in Schedulers : SupCommit(s))
      PROVE  FALSE
  BY <1>7, CommitWrites DEF Settled
<1>8. ASSUME NEW s \in Schedulers, Promote(s) \/ SupScan(s) \/ SupNext(s) \/ SchedulerCrash(s)
      PROVE  FALSE
  BY <1>8 DEF Promote, SupScan, SupNext, SchedulerCrash
<1>9. ~Tick /\ ~UNCHANGED vars
  BY DEF Tick, vars
<1> QED
  BY <1>1, <1>2, <1>3, <1>4, <1>5, <1>6, <1>7, <1>8, <1>9
     DEF Next, Operator, Worker, Scheduler, Crash

\* No retry starts before its backoff is over, for any interleaving of claims,
\* late failures and promotions.
THEOREM BackoffRespected == Spec => NoEarlyClaim
<1>1. TypeOK /\ LeaseInv /\ [Next]_vars => (TypeOK /\ LeaseInv)'
  BY NextTypeOK, NextLeaseInv
<1>2. TypeOK /\ LeaseInv /\ [Next]_vars =>
        [\A j \in Jobs : status[j] = "queued" /\ status'[j] = "running" => wait[j] = 0]_vars
  BY OnlyClaimRuns DEF LeaseInv, SelectedDue
<1> QED
  BY InitTypeOK, InitLeaseInv, <1>1, <1>2, PTL DEF Spec, NoEarlyClaim

-----------------------------------------------------------------------------
(* A lease changes hands only through the table *)

\* The empty table has no lease.
LEMMA InitClaimableUnleased == Init => ClaimableUnleased
BY DEF Init, ClaimableUnleased

\* Only a claim fills the lease of a row, and it makes the row running.
LEMMA OwnerStep ==
    ASSUME TypeOK, ClaimableUnleased, [Next]_vars, NEW k \in Jobs
    PROVE  /\ status'[k] \in {"none", "queued", "retry_wait"} => owner'[k] = None
           /\ owner[k] # None => owner'[k] \in {owner[k], None}
<1> DEFINE Kept == /\ status'[k] \in {"none", "queued", "retry_wait"} => owner'[k] = None
                   /\ owner[k] # None => owner'[k] \in {owner[k], None}
<1> USE DEF table, workers, sup, TypeOK, TableTypeOK, ClaimableUnleased
<1>1. ASSUME NEW j \in Jobs, Enqueue(j) \/ Replay(j) PROVE Kept
  BY <1>1 DEF Enqueue, Replay, Insert
<1>2. ASSUME NEW j \in Jobs, CancelRead(j) \/ CancelCommit(j) \/ CancelCrash(j) PROVE Kept
  BY <1>2 DEF CancelRead, CancelCommit, CancelCrash
<1>3. CASE Purge
  BY <1>3 DEF Purge
<1>4. ASSUME NEW w \in Workers, ClaimUpdate(w) PROVE Kept
  BY <1>4 DEF ClaimUpdate
<1>5. ASSUME NEW w \in Workers, ClaimSelect(w) \/ RenewLease(w) \/ WorkerCrash(w) PROVE Kept
  BY <1>5 DEF ClaimSelect, RenewLease, WorkerCrash
<1>6. ASSUME NEW w \in Workers, Complete(w) \/ Fail(w) \/ FailNoHandler(w) PROVE Kept
  BY <1>6 DEF Complete, Fail, FailNoHandler, Settle
<1>7. CASE (\E w \in Workers : SettleCommit(w)) \/ (\E s \in Schedulers : SupCommit(s))
  <2>1. \/ UNCHANGED <<status[k], wait[k], owner[k], ttl[k]>>
        \/ status'[k] \in Settled /\ owner'[k] = None
    BY <1>7, CommitWrites
  <2> QED
    BY <2>1
<1>8. ASSUME NEW s \in Schedulers, Promote(s) \/ SupScan(s) \/ SupNext(s) \/ SchedulerCrash(s)
      PROVE  Kept
  BY <1>8 DEF Promote, SupScan, SupNext, SchedulerCrash
<1>9. CASE Tick \/ UNCHANGED vars
  BY <1>9 DEF Tick, vars
<1> QED
  BY <1>1, <1>2, <1>3, <1>4, <1>5, <1>6, <1>7, <1>8, <1>9
     DEF Next, Operator, Worker, Scheduler, Crash

\* No worker ever overwrites another worker's lease: the compare-and-set of the
\* claim is enough, because every transition that makes a row claimable clears it.
THEOREM LeasesHandedOver == Spec => LeaseHandover
<1>1. TypeOK /\ ClaimableUnleased /\ [Next]_vars => (TypeOK /\ ClaimableUnleased)'
  BY NextTypeOK, OwnerStep DEF ClaimableUnleased
<1>2. TypeOK /\ ClaimableUnleased /\ [Next]_vars =>
        [\A j \in Jobs : owner[j] # None => owner'[j] \in {owner[j], None}]_vars
  BY OwnerStep
<1> QED
  BY InitTypeOK, InitClaimableUnleased, <1>1, <1>2, PTL DEF Spec, LeaseHandover

\* No claimable row carries the lease of an earlier execution, whatever sessions
\* settle or cancel it in between.
THEOREM ClaimableWithoutLease == Spec => []ClaimableUnleased
<1>1. TypeOK /\ ClaimableUnleased /\ [Next]_vars => (TypeOK /\ ClaimableUnleased)'
  BY NextTypeOK, OwnerStep DEF ClaimableUnleased
<1> QED
  BY InitTypeOK, InitClaimableUnleased, <1>1, PTL DEF Spec

-----------------------------------------------------------------------------
(* Recovery with one scheduler and no renewal *)

\* The jobs scheduler s has found stale and not yet failed
Watched(s) == supTodo[s] \cup (IF supPc[s] = "settle" THEN {supJob[s]} ELSE {})

\* A watched job is not claimable, and if it is still running it is so under the
\* lease that had expired when the scheduler looked.
RecoverInv ==
    \A s \in Schedulers :
        /\ supPc[s] \in {"promote", "scan"} => supTodo[s] = {}
        /\ \A j \in Watched(s) :
              /\ status[j] \notin {"none", "queued"}
              /\ status[j] = "running" => ttl[j] < 0

OneScheduler == \A s, t \in Schedulers : s = t

\* No scheduler has a stale set at first.
LEMMA InitRecoverInv == Init => RecoverInv
BY DEF Init, RecoverInv, Watched

\* A step in which no scheduler moves and no row is queued, claimed or renewed.
LEMMA RecoverInvFrame ==
    ASSUME TypeOK, RecoverInv, UNCHANGED <<supPc, supJob, supTodo>>,
           \A k \in Jobs : status[k] \notin {"none", "queued"} =>
               /\ status'[k] \notin {"none", "queued"}
               /\ status'[k] = "running" => status[k] = "running" /\ (ttl[k] < 0 => ttl'[k] < 0)
    PROVE  RecoverInv'
<1> SUFFICES ASSUME NEW s \in Schedulers, NEW j \in Watched(s)
             PROVE  /\ status'[j] \notin {"none", "queued"}
                    /\ status'[j] = "running" => ttl'[j] < 0
  BY DEF RecoverInv, Watched
<1>1. j \in Jobs
  BY DEF Watched, TypeOK, SchedulerTypeOK
<1> QED
  BY <1>1 DEF RecoverInv

\* A scheduler that ends its tick watches nothing.
LEMMA RecoverInvEndTick ==
    ASSUME TypeOK, RecoverInv, OneScheduler, NEW s \in Schedulers, EndTick(s)
    PROVE  RecoverInv'
BY DEF EndTick, RecoverInv, Watched, OneScheduler, TypeOK, SchedulerTypeOK

\* A scheduler that goes on to the next stale job watches no more than before.
LEMMA RecoverInvRecover ==
    ASSUME TypeOK, RecoverInv, OneScheduler, NEW s \in Schedulers,
           NEW j \in Jobs, NEW rest \in SUBSET Jobs, Recover(s, j, rest), UNCHANGED table,
           \A k \in rest \cup {j} : status[k] = "running" => ttl[k] < 0,
           \A k \in rest \cup {j} : status[k] \notin {"none", "queued"}
    PROVE  RecoverInv'
<1>1. CASE AssertTransition(status[j], FailTarget(attempt[j], FALSE))
  <2>1. supPc'[s] = "settle" /\ supJob'[s] = j /\ supTodo'[s] = rest
    BY <1>1 DEF Recover, TypeOK, SchedulerTypeOK
  <2> QED
    BY <2>1 DEF RecoverInv, Watched, OneScheduler, table
<1>2. CASE ~AssertTransition(status[j], FailTarget(attempt[j], FALSE))
  BY <1>2, RecoverInvEndTick DEF Recover
<1> QED
  BY <1>1, <1>2

\* Every step keeps RecoverInv when one scheduler runs and no lease is renewed: while
\* the recovery loop is under way nobody promotes a job, so no stale row is claimed.
LEMMA NextRecoverInv ==
    ASSUME OneScheduler, ~WithRenewal
    PROVE  TypeOK /\ RecoverInv /\ [Next]_vars => RecoverInv'
<1> SUFFICES ASSUME TypeOK, RecoverInv, [Next]_vars PROVE RecoverInv'
  OBVIOUS
<1> USE DEF table, workers, sup, TypeOK
<1>1. ASSUME NEW j \in Jobs, Enqueue(j) \/ Replay(j) PROVE RecoverInv'
  BY <1>1, RecoverInvFrame DEF Enqueue, Replay, Insert, TableTypeOK
<1>2. ASSUME NEW j \in Jobs, CancelRead(j) \/ CancelCommit(j) \/ CancelCrash(j) PROVE RecoverInv'
  BY <1>2, RecoverInvFrame DEF CancelRead, CancelCommit, CancelCrash, TableTypeOK
<1>3. CASE Purge
  BY <1>3, RecoverInvFrame DEF Purge, TableTypeOK
<1>4. ASSUME NEW w \in Workers, ClaimUpdate(w) PROVE RecoverInv'
  BY <1>4, RecoverInvFrame DEF ClaimUpdate, TableTypeOK
<1>5. ASSUME NEW w \in Workers, ClaimSelect(w) \/ RenewLease(w) \/ WorkerCrash(w) PROVE RecoverInv'
  BY <1>5, RecoverInvFrame DEF ClaimSelect, RenewLease, WorkerCrash
<1>6. ASSUME NEW w \in Workers, Complete(w) \/ Fail(w) \/ FailNoHandler(w) PROVE RecoverInv'
  BY <1>6, RecoverInvFrame DEF Complete, Fail, FailNoHandler, Settle
<1>7. ASSUME NEW w \in Workers, SettleCommit(w) PROVE RecoverInv'
  <2>1. \A k \in Jobs : \/ UNCHANGED <<status[k], wait[k], owner[k], ttl[k]>>
                        \/ status'[k] \in Settled
    BY <1>7, CommitWrites
  <2> QED
    BY <1>7, <2>1, RecoverInvFrame DEF SettleCommit, Settled
<1>8. ASSUME NEW s \in Schedulers, Promote(s) PROVE RecoverInv'
  BY <1>8 DEF Promote, RecoverInv, Watched, OneScheduler, SchedulerTypeOK
<1>9. ASSUME NEW s \in Schedulers, SupScan(s) PROVE RecoverInv'
  BY <1>9, RecoverInvEndTick, RecoverInvRecover DEF SupScan, Stale
<1>10. ASSUME NEW s \in Schedulers, SupNext(s) PROVE RecoverInv'
  <2>1. PICK j \in supTodo[s] : Recover(s, j, supTodo[s] \ {j})
    BY <1>10 DEF SupNext
  <2>2. supTodo[s] \in SUBSET Jobs
    BY DEF SchedulerTypeOK
  <2>3. \A k \in supTodo[s] : status[k] \notin {"none", "queued"} /\ (status[k] = "running" => ttl[k] < 0)
    BY DEF RecoverInv, Watched
  <2> QED
    BY <1>10, <2>1, <2>2, <2>3, RecoverInvRecover DEF SupNext
<1>11. ASSUME NEW s \in Schedulers, SupCommit(s) PROVE RecoverInv'
  <2>1. CASE EndTick(s)
    BY <2>1, RecoverInvEndTick
  <2>2. CASE ~EndTick(s)
    <3>1. supPc'[s] = "next" /\ UNCHANGED supTodo
      BY <1>11, <2>2 DEF SupCommit, SchedulerTypeOK
    <3>2. \A k \in Jobs : \/ UNCHANGED <<status[k], wait[k], owner[k], ttl[k]>>
                          \/ status'[k] \in Settled
      BY <1>11, CommitWrites
    <3>3. supTodo[s] \in SUBSET Jobs
      BY DEF SchedulerTypeOK
    <3> QED
      BY <3>1, <3>2, <3>3 DEF RecoverInv, Watched, OneScheduler, Settled
  <2> QED
    BY <2>1, <2>2
<1>12. ASSUME NEW s \in Schedulers, SchedulerCrash(s) PROVE RecoverInv'
  BY <1>12, RecoverInvEndTick DEF SchedulerCrash
<1>13. CASE Tick
  <2>1. \A k \in Jobs : ttl[k] < 0 => ttl'[k] < 0
    BY <1>13 DEF Tick, Higher, TableTypeOK
  <2> QED
    BY <1>13, <2>1, RecoverInvFrame DEF Tick
<1>14. CASE UNCHANGED vars
  BY <1>14, RecoverInvFrame DEF vars
<1> QED
  BY <1>1, <1>2, <1>3, <1>4, <1>5, <1>6, <1>7, <1>8, <1>9, <1>10, <1>11, <1>12, <1>13, <1>14
     DEF Next, Operator, Worker, Scheduler, Crash

\* With a single scheduler and handlers that do not renew, recovery never takes a
\* job away from a worker whose lease is still good, although it does not look at
\* the lease again.
THEOREM RecoveryOfExpiredOnly ==
    ASSUME OneScheduler, ~WithRenewal
    PROVE  Spec => RecoverOnlyExpired
<1>1. TypeOK /\ RecoverInv /\ [Next]_vars => (TypeOK /\ RecoverInv)'
  BY NextTypeOK, NextRecoverInv
<1>2. TypeOK /\ RecoverInv /\ [Next]_vars =>
        [\A s \in Schedulers :
            SupCommit(s) /\ status[supJob[s]] = "running" => ttl[supJob[s]] < 0]_vars
  BY DEF RecoverInv, Watched, SupCommit
<1> QED
  BY InitTypeOK, InitRecoverInv, <1>1, <1>2, PTL DEF Spec, RecoverOnlyExpired

-----------------------------------------------------------------------------
(* Attempts under lost updates *)

\* The workers that have read row j while it had attempts left, and will send it back
\* to retry_wait whatever has become of it
Reverters(j) == {w \in Workers : pc[w] = "settle" /\ job[w] = j /\ to[w] = "retry_wait"}

\* The statuses from which a row can still be claimed
Claimable == {"queued", "retry_wait"}

\* Once the attempts are used up, every further one uses up a reverter.  A row that
\* can be claimed has one to spare: the worker that claimed it last is no reverter of it.
AttemptsPaid ==
    \A j \in Jobs : attempt[j] >= MaxAttempts =>
        /\ attempt[j] + Cardinality(Reverters(j)) <= MaxAttempts + Cardinality(Workers) - 1
        /\ status[j] \in Claimable =>
              attempt[j] + Cardinality(Reverters(j)) <= MaxAttempts + Cardinality(Workers) - 2

\* While the scheduler is about to fail a job, nobody claims it.
RecoveryUnclaimed ==
    \A s \in Schedulers : supPc[s] = "settle" =>
        /\ status[supJob[s]] \notin {"none", "queued"}
        /\ supTo[s] = "retry_wait" => attempt[supJob[s]] < MaxAttempts

\* The sizes of sets of workers.
LEMMA WorkerSets ==
    ASSUME NEW S \in SUBSET Workers
    PROVE  /\ Cardinality(S) \in Nat /\ Cardinality(Workers) \in Nat
           /\ \A T \in SUBSET S : Cardinality(T) \in Nat /\ Cardinality(T) <= Cardinality(S)
           /\ \A w \in S : Cardinality(S \ {w}) = Cardinality(S) - 1
           /\ \A w \in Workers \ S : Cardinality(S) <= Cardinality(Workers) - 1
<1>1. IsFiniteSet(Workers) /\ IsFiniteSet(S)
  BY ConstantsAssumption, FS_Subset
<1>2. Cardinality(S) \in Nat /\ Cardinality(Workers) \in Nat
  BY <1>1, FS_CardinalityType
<1>3. ASSUME NEW T \in SUBSET S
      PROVE  Cardinality(T) \in Nat /\ Cardinality(T) <= Cardinality(S)
  BY <1>1, FS_Subset, FS_CardinalityType
<1>4. ASSUME NEW w \in S
      PROVE  Cardinality(S \ {w}) = Cardinality(S) - 1
  BY <1>1, FS_RemoveElement
<1>5. ASSUME NEW w \in Workers \ S
      PROVE  Cardinality(S) <= Cardinality(Workers) - 1
  <2>1. Cardinality(Workers \ {w}) = Cardinality(Workers) - 1
    BY <1>1, FS_RemoveElement
  <2>2. S \subseteq Workers \ {w} /\ IsFiniteSet(Workers \ {w})
    BY <1>1, FS_Subset
  <2>3. Cardinality(S) <= Cardinality(Workers \ {w})
    BY <2>2, FS_Subset
  <2> QED
    BY <2>1, <2>3
<1> QED
  BY <1>2, <1>3, <1>4, <1>5

\* What a step may do to the attempts of row k: they stay below the limit; or they stay
\* as they are and nobody becomes a reverter; or a reverter commits; or the row is
\* claimed, by a worker that is no reverter.
AttemptStep(k) ==
    \/ attempt'[k] < MaxAttempts
    \/ /\ attempt'[k] = attempt[k]
       /\ Reverters(k)' \subseteq Reverters(k)
       /\ status'[k] \in Claimable => status[k] \in Claimable
    \/ \E w \in Reverters(k) :
          attempt'[k] = attempt[k] /\ Reverters(k)' \subseteq Reverters(k) \ {w}
    \/ \E w \in Workers \ Reverters(k) :
          /\ status[k] = "queued" /\ status'[k] = "running"
          /\ attempt'[k] = attempt[k] + 1
          /\ Reverters(k)' \subseteq Reverters(k)

\* Such steps keep the account.
LEMMA AttemptStepPays ==
    ASSUME TypeOK, TypeOK', AttemptsPaid, \A k \in Jobs : AttemptStep(k)
    PROVE  AttemptsPaid'
<1> DEFINE N == Cardinality(Workers)
           c(k) == Cardinality(Reverters(k))
<1> SUFFICES ASSUME NEW k \in Jobs, attempt'[k] >= MaxAttempts
             PROVE  /\ attempt'[k] + c(k)' <= MaxAttempts + N - 1
                    /\ status'[k] \in Claimable => attempt'[k] + c(k)' <= MaxAttempts + N - 2
  BY DEF AttemptsPaid
<1>1. attempt[k] \in Nat /\ MaxAttempts \in Nat /\ N \in Nat /\ c(k) \in Nat
  BY ConstantsAssumption, WorkerSets DEF TypeOK, TableTypeOK, Reverters
<1>2. attempt[k] >= MaxAttempts =>
        /\ attempt[k] + c(k) <= MaxAttempts + N - 1
        /\ status[k] \in Claimable => attempt[k] + c(k) <= MaxAttempts + N - 2
  BY DEF AttemptsPaid
<1>3. Reverters(k) \in SUBSET Workers
  BY DEF Reverters
<1>4. CASE /\ attempt'[k] = attempt[k]
           /\ Reverters(k)' \subseteq Reverters(k)
           /\ status'[k] \in Claimable => status[k] \in Claimable
  <2>1. c(k)' \in Nat /\ c(k)' <= c(k)
    BY <1>3, <1>4, WorkerSets
  <2> HIDE DEF N, c
  <2> QED
    BY <1>1, <1>2, <1>4, <2>1
<1>5. ASSUME NEW w \in Reverters(k), attempt'[k] = attempt[k],
             Reverters(k)' \subseteq Reverters(k) \ {w}
      PROVE  /\ attempt'[k] + c(k)' <= MaxAttempts + N - 1
             /\ attempt'[k] + c(k)' <= MaxAttempts + N - 2
  <2>1. Reverters(k) \ {w} \in SUBSET Workers /\ Cardinality(Reverters(k) \ {w}) = c(k) - 1
    BY <1>3, WorkerSets
  <2>2. c(k)' \in Nat /\ c(k)' <= c(k) - 1
    BY <1>5, <2>1, WorkerSets
  <2> HIDE DEF N, c
  <2> QED
    BY <1>1, <1>2, <1>5, <2>2
<1>6. ASSUME NEW w \in Workers \ Reverters(k), status[k] = "queued", status'[k] = "running",
             attempt'[k] = attempt[k] + 1, Reverters(k)' \subseteq Reverters(k)
      PROVE  attempt'[k] + c(k)' <= MaxAttempts + N - 1 /\ status'[k] \notin Claimable
  <2>1. c(k)' \in Nat /\ c(k)' <= c(k) /\ c(k) <= N - 1
    BY <1>3, <1>6, WorkerSets
  <2>2. status[k] \in Claimable /\ status'[k] \notin Claimable
    BY <1>6 DEF Claimable
  <2> HIDE DEF N, c
  <2>3. CASE attempt[k] >= MaxAttempts
    BY <1>1, <1>2, <1>6, <2>1, <2>2, <2>3
  <2>4. CASE ~(attempt[k] >= MaxAttempts)
    <3>1. attempt'[k] = MaxAttempts
      BY <1>1, <1>6, <2>4
    <3> QED
      BY <1>1, <2>1, <2>2, <3>1
  <2> QED
    BY <2>3, <2>4
<1>7. ~(attempt'[k] < MaxAttempts)
  BY <1>1 DEF TypeOK, TableTypeOK
<1>8. AttemptStep(k)
  OBVIOUS
<1> HIDE DEF N, c
<1> QED
  BY <1>4, <1>5, <1>6, <1>7, <1>8 DEF AttemptStep

\* No worker becomes a reverter in a step in which none reads a row.
LEMMA RevertersFrame ==
    ASSUME NEW k \in Jobs,
           \A w \in Workers : pc'[w] = "settle" =>
               pc[w] = "settle" /\ job'[w] = job[w] /\ to'[w] = to[w]
    PROVE  Reverters(k)' \subseteq Reverters(k)
BY DEF Reverters

\* Every step is such a step, as long as the scheduler only sends back what has
\* attempts left.
LEMMA NextAttemptStep ==
    ASSUME TypeOK, RecoveryUnclaimed, [Next]_vars, NEW k \in Jobs
    PROVE  AttemptStep(k)
<1> USE DEF table, workers, sup, TypeOK, TableTypeOK, WorkerTypeOK
<1>0. MaxAttempts \in Nat \ {0} /\ attempt[k] \in Nat
  BY ConstantsAssumption
<1>1. ASSUME NEW j \in Jobs, NEW d, Insert(j, d)
      PROVE  AttemptStep(k)
  <2>1. CASE j = k
    BY <1>0, <1>1, <2>1 DEF Insert, AttemptStep
  <2>2. CASE j # k
    <3>1. attempt'[k] = attempt[k] /\ status'[k] = status[k] /\ UNCHANGED <<pc, job, to>>
      BY <1>1, <2>2 DEF Insert
    <3> QED
      BY <3>1, RevertersFrame DEF AttemptStep
  <2> QED
    BY <2>1, <2>2
<1>2. ASSUME NEW j \in Jobs, CancelRead(j) \/ CancelCommit(j) \/ CancelCrash(j)
      PROVE  AttemptStep(k)
  <2>1. UNCHANGED <<attempt, pc, job, to>> /\ status'[k] \in {status[k], "cancelled"}
    BY <1>2 DEF CancelRead, CancelCommit, CancelCrash
  <2> QED
    BY <2>1, RevertersFrame DEF AttemptStep, Claimable
<1>3. CASE Purge
  <2>1. UNCHANGED <<attempt, pc, job, to>> /\ status'[k] \in {status[k], "purged"}
    BY <1>3 DEF Purge
  <2> QED
    BY <2>1, RevertersFrame DEF AttemptStep, Claimable
<1>4. ASSUME NEW w \in Workers, ClaimUpdate(w)
      PROVE  AttemptStep(k)
  <2>1. pc[w] = "selected" /\ w \notin Reverters(k)
    BY <1>4 DEF ClaimUpdate, Reverters
  <2>2. \A v \in Workers : pc'[v] = "settle" =>
           pc[v] = "settle" /\ job'[v] = job[v] /\ to'[v] = to[v]
    BY <1>4 DEF ClaimUpdate, Release
  <2>3. Reverters(k)' \subseteq Reverters(k)
    BY <2>2, RevertersFrame
  <2>4. CASE job[w] = k /\ status[k] = "queued"
    <3>1. status'[k] = "running" /\ attempt'[k] = attempt[k] + 1
      BY <1>4, <2>4 DEF ClaimUpdate
    <3> QED
      BY <2>1, <2>3, <2>4, <3>1 DEF AttemptStep
  <2>5. CASE ~(job[w] = k /\ status[k] = "queued")
    <3>1. status'[k] = status[k] /\ attempt'[k] = attempt[k]
      BY <1>4, <2>5 DEF ClaimUpdate
    <3> QED
      BY <2>3, <3>1 DEF AttemptStep
  <2> QED
    BY <2>4, <2>5
<1>5. ASSUME NEW w \in Workers, ClaimSelect(w) \/ RenewLease(w) \/ WorkerCrash(w)
      PROVE  AttemptStep(k)
  <2>1. UNCHANGED <<status, attempt>>
    BY <1>5 DEF ClaimSelect, RenewLease, WorkerCrash
  <2>2. \A v \in Workers : pc'[v] = "settle" =>
           pc[v] = "settle" /\ job'[v] = job[v] /\ to'[v] = to[v]
    BY <1>5 DEF ClaimSelect, RenewLease, WorkerCrash, Release
  <2> QED
    BY <2>1, <2>2, RevertersFrame DEF AttemptStep
<1>6. ASSUME NEW w \in Workers, NEW target, Settle(w, target),
             target = "retry_wait" => attempt[job[w]] < MaxAttempts
      PROVE  AttemptStep(k)
  <2>1. UNCHANGED <<status, attempt>>
    BY <1>6 DEF Settle
  <2>2. CASE pc'[w] = "settle" /\ job[w] = k /\ target = "retry_wait"
    BY <1>6, <2>1, <2>2 DEF AttemptStep
  <2>3. CASE ~(pc'[w] = "settle" /\ job[w] = k /\ target = "retry_wait")
    <3>1. w \notin Reverters(k)'
      BY <1>6, <2>3 DEF Settle, Release, Reverters
    <3>2. \A v \in Workers \ {w} : pc'[v] = pc[v] /\ job'[v] = job[v] /\ to'[v] = to[v]
      BY <1>6 DEF Settle, Release
    <3>3. Reverters(k)' \subseteq Reverters(k)
      BY <3>1, <3>2 DEF Reverters
    <3> QED
      BY <2>1, <3>3 DEF AttemptStep
  <2> QED
    BY <2>2, <2>3
<1>7. ASSUME NEW w \in Workers, Complete(w) \/ Fail(w) \/ FailNoHandler(w)
      PROVE  AttemptStep(k)
  BY <1>6, <1>7 DEF Complete, Fail, FailNoHandler, FailTarget
<1>8. ASSUME NEW w \in Workers, SettleCommit(w)
      PROVE  AttemptStep(k)
  <2>1. /\ pc[w] = "settle" /\ pc'[w] = "idle"
        /\ \A v \in Workers \ {w} : pc'[v] = pc[v] /\ job'[v] = job[v] /\ to'[v] = to[v]
    BY <1>8 DEF SettleCommit, Release
  <2>2. attempt' = attempt /\ status'[k] \in {status[k], to[w]} /\ (job[w] # k => status'[k] = status[k])
    BY <1>8 DEF SettleCommit, WriteSettled
  <2>3. Reverters(k)' \subseteq Reverters(k) \ {w}
    BY <2>1 DEF Reverters
  <2>4. CASE w \in Reverters(k)
    BY <2>2, <2>3, <2>4 DEF AttemptStep
  <2>5. CASE w \notin Reverters(k)
    <3>1. status'[k] \in Claimable => status[k] \in Claimable
      <4>1. job[w] = k => to[w] # "retry_wait" /\ to[w] \in Settled
        BY <2>1, <2>5 DEF Reverters
      <4> QED
        BY <2>2, <4>1 DEF Settled, Claimable
    <3> QED
      BY <2>2, <2>3, <3>1 DEF AttemptStep
  <2> QED
    BY <2>4, <2>5
<1>9. ASSUME NEW s \in Schedulers, SupCommit(s)
      PROVE  AttemptStep(k)
  <2>1. UNCHANGED <<attempt, pc, job, to>>
    BY <1>9 DEF SupCommit, WriteSettled
  <2>2. CASE supJob[s] = k /\ supTo[s] = "retry_wait"
    BY <1>9, <2>1, <2>2 DEF SupCommit, RecoveryUnclaimed, AttemptStep
  <2>3. CASE ~(supJob[s] = k /\ supTo[s] = "retry_wait")
    <3>1. supTo[s] \in Settled
      BY <1>9 DEF SupCommit, SchedulerTypeOK
    <3>2. status'[k] = status[k] \/ (supJob[s] = k /\ status'[k] = supTo[s])
      BY <1>9 DEF SupCommit, WriteSettled
    <3> QED
      BY <2>1, <2>3, <3>1, <3>2, RevertersFrame DEF AttemptStep, Settled, Claimable
  <2> QED
    BY <2>2, <2>3
<1>10. ASSUME NEW s \in Schedulers, Promote(s)
       PROVE  AttemptStep(k)
  <2>1. /\ UNCHANGED <<attempt, pc, job, to>>
        /\ status'[k] = IF status[k] = "retry_wait" /\ wait[k] = 0 THEN "queued" ELSE status[k]
    BY <1>10 DEF Promote
  <2> QED
    BY <2>1, RevertersFrame DEF AttemptStep, Claimable
<1>11. ASSUME UNCHANGED <<status, attempt, pc, job, to>>
       PROVE  AttemptStep(k)
  BY <1>11, RevertersFrame DEF AttemptStep
<1>12. \A s \in Schedulers : SupScan(s) \/ SupNext(s) \/ SchedulerCrash(s)
                              => UNCHANGED <<status, attempt, pc, job, to>>
  BY DEF SupScan, SupNext, SchedulerCrash
<1>13. Tick \/ UNCHANGED vars => UNCHANGED <<status, attempt, pc, job, to>>
  BY DEF Tick, vars
<1> QED
  BY <1>1, <1>2, <1>3, <1>4, <1>5, <1>7, <1>8, <1>9, <1>10, <1>11, <1>12, <1>13
     DEF Next, Operator, Worker, Scheduler, Crash, Enqueue, Replay

\* A step in which no scheduler moves and no row that exists is queued or claimed.
LEMMA UnclaimedFrame ==
    ASSUME TypeOK, RecoveryUnclaimed, UNCHANGED <<supPc, supJob, supTo>>,
           \A k \in Jobs : status[k] \notin {"none", "queued"} =>
               status'[k] \notin {"none", "queued"} /\ attempt'[k] = attempt[k]
    PROVE  RecoveryUnclaimed'
BY DEF RecoveryUnclaimed, TypeOK, SchedulerTypeOK

\* With one scheduler, which promotes only between its recoveries, every step leaves
\* the job that is being recovered unclaimed.
LEMMA NextUnclaimed ==
    ASSUME OneScheduler
    PROVE  TypeOK /\ RecoveryUnclaimed /\ [Next]_vars => RecoveryUnclaimed'
<1> SUFFICES ASSUME TypeOK, RecoveryUnclaimed, [Next]_vars PROVE RecoveryUnclaimed'
  OBVIOUS
<1> USE DEF table, workers, sup, TypeOK
<1>1. ASSUME NEW j \in Jobs, Enqueue(j) \/ Replay(j) PROVE RecoveryUnclaimed'
  BY <1>1, UnclaimedFrame DEF Enqueue, Replay, Insert, TableTypeOK
<1>2. ASSUME NEW j \in Jobs, CancelRead(j) \/ CancelCommit(j) \/ CancelCrash(j)
      PROVE  RecoveryUnclaimed'
  BY <1>2, UnclaimedFrame DEF CancelRead, CancelCommit, CancelCrash, TableTypeOK
<1>3. CASE Purge
  BY <1>3, UnclaimedFrame DEF Purge, TableTypeOK
<1>4. ASSUME NEW w \in Workers, ClaimUpdate(w) PROVE RecoveryUnclaimed'
  BY <1>4, UnclaimedFrame DEF ClaimUpdate, TableTypeOK
<1>5. ASSUME NEW w \in Workers, ClaimSelect(w) \/ RenewLease(w) \/ WorkerCrash(w)
      PROVE  RecoveryUnclaimed'
  BY <1>5, UnclaimedFrame DEF ClaimSelect, RenewLease, WorkerCrash
<1>6. ASSUME NEW w \in Workers, Complete(w) \/ Fail(w) \/ FailNoHandler(w)
      PROVE  RecoveryUnclaimed'
  BY <1>6, UnclaimedFrame DEF Complete, Fail, FailNoHandler, Settle
<1>7. ASSUME NEW w \in Workers, SettleCommit(w) PROVE RecoveryUnclaimed'
  <2>1. \A k \in Jobs : UNCHANGED status[k] \/ status'[k] \in Settled
    BY <1>7, CommitWrites
  <2>2. attempt' = attempt /\ UNCHANGED <<supPc, supJob, supTo>>
    BY <1>7 DEF SettleCommit, WriteSettled
  <2> QED
    BY <2>1, <2>2, UnclaimedFrame DEF Settled
<1>8. ASSUME NEW s \in Schedulers, supPc'[s] # "settle"
      PROVE  RecoveryUnclaimed'
  BY <1>8 DEF RecoveryUnclaimed, OneScheduler
<1>9. ASSUME NEW s \in Schedulers, Promote(s) \/ SupCommit(s) \/ SchedulerCrash(s)
      PROVE  RecoveryUnclaimed'
  <2>1. supPc'[s] # "settle"
    BY <1>9 DEF Promote, SupCommit, SchedulerCrash, EndTick, SchedulerTypeOK
  <2> QED
    BY <1>8, <2>1
<1>10. ASSUME NEW s \in Schedulers, NEW j \in Jobs, NEW rest, Recover(s, j, rest), UNCHANGED table
       PROVE  RecoveryUnclaimed'
  <2>1. CASE EndTick(s)
    <3>1. supPc'[s] # "settle"
      BY <2>1 DEF EndTick, SchedulerTypeOK
    <3> QED
      BY <1>8, <3>1
  <2>2. CASE ~EndTick(s)
    <3>1. /\ AssertTransition(status[j], FailTarget(attempt[j], FALSE))
          /\ supJob'[s] = j /\ supTo'[s] = FailTarget(attempt[j], FALSE)
      BY <1>10, <2>2 DEF Recover, SchedulerTypeOK
    <3>2. status[j] \notin {"none", "queued"}
      BY <3>1 DEF AssertTransition, FailTarget, Lifecycle!ALLOWED_TRANSITIONS
    <3>3. supTo'[s] = "retry_wait" => attempt[j] < MaxAttempts
      BY <3>1 DEF FailTarget
    <3> QED
      BY <1>10, <3>1, <3>2, <3>3 DEF RecoveryUnclaimed, OneScheduler
  <2> QED
    BY <2>1, <2>2
<1>11. ASSUME NEW s \in Schedulers, SupScan(s) PROVE RecoveryUnclaimed'
  <2>1. CASE EndTick(s)
    <3>1. supPc'[s] # "settle"
      BY <2>1 DEF EndTick, SchedulerTypeOK
    <3> QED
      BY <1>8, <3>1
  <2> QED
    BY <1>10, <1>11, <2>1 DEF SupScan
<1>12. ASSUME NEW s \in Schedulers, SupNext(s) PROVE RecoveryUnclaimed'
  <2>1. supTodo[s] \subseteq Jobs
    BY DEF SchedulerTypeOK
  <2> QED
    BY <1>10, <1>12, <2>1 DEF SupNext
<1>13. CASE Tick \/ UNCHANGED vars
  BY <1>13, UnclaimedFrame DEF Tick, vars
<1> QED
  BY <1>1, <1>2, <1>3, <1>4, <1>5, <1>6, <1>7, <1>9, <1>11, <1>12, <1>13
     DEF Next, Operator, Worker, Scheduler, Crash

\* Lost updates do not keep a poison job alive: with one scheduler and any number of
\* workers, whose reads and writes of a row interleave freely, a job is executed at most
\* max_attempts times and once more for each other worker.
THEOREM AttemptsStayCapped ==
    ASSUME OneScheduler
    PROVE  Spec => []AttemptsCapped
<1>1. Init => RecoveryUnclaimed /\ AttemptsPaid
  BY ConstantsAssumption DEF Init, RecoveryUnclaimed, AttemptsPaid
<1>2. TypeOK /\ AttemptsPaid /\ RecoveryUnclaimed /\ [Next]_vars
        => (TypeOK /\ AttemptsPaid /\ RecoveryUnclaimed)'
  BY NextTypeOK, NextUnclaimed, NextAttemptStep, AttemptStepPays
<1>3. TypeOK /\ AttemptsPaid => AttemptsCapped
  <2> SUFFICES ASSUME TypeOK, AttemptsPaid, NEW j \in Jobs
               PROVE  attempt[j] <= MaxAttempts + Cardinality(Workers) - 1
    BY DEF AttemptsCapped
  <2>1. /\ attempt[j] \in Nat /\ MaxAttempts \in Nat /\ Cardinality(Workers) \in Nat
        /\ Cardinality(Reverters(j)) \in Nat
    BY ConstantsAssumption, WorkerSets DEF TypeOK, TableTypeOK, Reverters
  <2> QED
    BY <2>1 DEF AttemptsPaid
<1> QED
  BY InitTypeOK, <1>1, <1>2, <1>3, PTL DEF Spec

=============================================================================
