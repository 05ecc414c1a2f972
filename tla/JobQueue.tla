------------------------------ MODULE JobQueue ------------------------------
(***************************************************************************)
(* The durable job runtime (backend/jobs/service.py and runtime.py): the   *)
(* background_jobs table, the workers that claim and settle jobs, the      *)
(* scheduler that promotes retries and recovers abandoned leases, and the  *)
(* operators who enqueue, cancel, replay and purge.                        *)
(*                                                                         *)
(* A database session is modelled by the commits it makes.  claim and      *)
(* promote_retry_ready are one UPDATE ... WHERE each, hence one step.      *)
(* complete, fail and cancel first read the row into the ORM session and   *)
(* check the transition, then write it by primary key: two steps, between  *)
(* which other sessions commit.                                            *)
(*                                                                         *)
(* Time is relative: wait[j] is the time left until available_at, ttl[j]   *)
(* the time left until lease_expires_at (-1 once it has passed), and Tick  *)
(* lets one unit of time pass.  timer[w] is the time left until the last   *)
(* timestamp worker w computed: the end of its lease from the claim on,    *)
(* the next available_at while it settles.  supAge[s] is the time since a  *)
(* scheduler took `now`.                                                   *)
(***************************************************************************)
EXTENDS Integers, FiniteSets

CONSTANTS
    Jobs,               \* rows of background_jobs, existing or yet to be inserted
    Workers,            \* worker processes
    Schedulers,         \* scheduler processes; the runbook says exactly one
    None,               \* SQL NULL
    Scope,              \* Scope[w]: the jobs of worker w's --job-type, all without it
    Priority,           \* Priority[j]: lower is claimed sooner
    MaxAttempts,        \* max_attempts of every job
    LeaseTicks,         \* lease_seconds
    BackoffBase,        \* _BACKOFF_BASE_SECONDS
    BackoffCap,         \* _BACKOFF_CAP_SECONDS
    MaxDelay,           \* bound on how far ahead a producer sets available_at
    MaxCrashes,         \* bound on process crashes and unexpected errors
    WithRenewal,        \* whether the handlers call renew_lease (none does today)
    WithPurge           \* whether retention calls purge_terminal_jobs

ASSUME ConstantsAssumption ==
    /\ None \notin Workers \cup Jobs
    /\ IsFiniteSet(Workers)
    /\ Scope \in [Workers -> SUBSET Jobs]
    /\ Priority \in [Jobs -> Nat]
    /\ MaxAttempts \in Nat \ {0}
    /\ LeaseTicks \in Nat
    /\ BackoffBase \in Nat
    /\ BackoffCap \in Nat
    /\ MaxDelay \in Nat
    /\ MaxCrashes \in Nat
    /\ WithRenewal \in BOOLEAN
    /\ WithPurge \in BOOLEAN

VARIABLES
    \* the background_jobs table, one function per column
    status, attempt, wait, owner, ttl,
    \* one session per worker: program counter, the job it holds, the attempt it
    \* claimed, the status it is about to write, the time left of its timestamp
    pc, job, claimed, to, timer,
    \* one session per scheduler: program counter, the job it is failing, the rest
    \* of the stale set, the status it is about to write, the backoff it computed
    \* and the time since it took `now`
    supPc, supJob, supTodo, supTo, supDelay, supAge,
    \* cancel requests that have read their row and not yet written it
    cancelling,
    crashes

table    == <<status, attempt, wait, owner, ttl>>
workers  == <<pc, job, claimed, to, timer>>
sup      == <<supPc, supJob, supTodo, supTo, supDelay, supAge>>
vars     == <<table, workers, sup, cancelling, crashes>>

\* The sessions that check a transition in one step and write it in a later one
Sessions == ({"worker"} \X Workers) \cup ({"scheduler"} \X Schedulers) \cup ({"cancel"} \X Jobs)

\* What they have checked and not yet written: the session, the row, the target
WorkerIntents ==
    {<<<<"worker", w>>, job[w], to[w]>> : w \in {v \in Workers : pc[v] = "settle"}}
SchedulerIntents ==
    {<<<<"scheduler", s>>, supJob[s], supTo[s]>> : s \in {r \in Schedulers : supPc[r] = "settle"}}
CancelIntents == {<<<<"cancel", j>>, j, "cancelled">> : j \in cancelling}

Intents == WorkerIntents \cup SchedulerIntents \cup CancelIntents

Lifecycle == INSTANCE JobLifecycle WITH intents <- Intents

Settled == {"succeeded", "retry_wait", "failed"}

-----------------------------------------------------------------------------
(* Helpers *)

Lower(a, b)  == IF a <= b THEN a ELSE b
Higher(a, b) == IF a <= b THEN b ELSE a

\* _backoff: exponential in the attempt, capped
Backoff(a) == Lower(BackoffBase * 2^Higher(a - 1, 0), BackoffCap)

\* Mutant: the last attempt is retried too
FailTargetOffByOne(a, terminal) ==
    IF ~terminal /\ a <= MaxAttempts THEN "retry_wait" ELSE "failed"

\* The branch of fail(): retry while attempts remain, unless told it is final
FailTarget(a, terminal) ==
    IF ~terminal /\ a < MaxAttempts THEN "retry_wait" ELSE "failed"

\* Mutant: an unknown transition is let through
AssertTransitionOpen(current, target) == current \notin Lifecycle!TERMINAL_STATES

\* assert_transition of states.py
AssertTransition(current, target) == <<current, target>> \in Lifecycle!ALLOWED_TRANSITIONS

Present(j) == status[j] \notin {"none", "purged"}

\* The filter of _select_candidate_id
Due(j) == status[j] = "queued" /\ wait[j] = 0

\* Mutant: the lease's expiry is not looked at
StaleUnexpired(j) == status[j] = "running" /\ owner[j] # None

\* Mutant: the NULL test is inverted
StaleUnleased(j) == status[j] = "running" /\ owner[j] = None

\* The filter of recover_abandoned_leases
Stale(j) == status[j] = "running" /\ owner[j] # None /\ ttl[j] < 0

-----------------------------------------------------------------------------
Init ==
    /\ status = [j \in Jobs |-> "none"]
    /\ attempt = [j \in Jobs |-> 0]
    /\ wait = [j \in Jobs |-> 0]
    /\ owner = [j \in Jobs |-> None]
    /\ ttl = [j \in Jobs |-> -1]
    /\ pc = [w \in Workers |-> "idle"]
    /\ job = [w \in Workers |-> None]
    /\ claimed = [w \in Workers |-> 0]
    /\ to = [w \in Workers |-> None]
    /\ timer = [w \in Workers |-> -1]
    /\ supPc = [s \in Schedulers |-> "promote"]
    /\ supJob = [s \in Schedulers |-> None]
    /\ supTodo = [s \in Schedulers |-> {}]
    /\ supTo = [s \in Schedulers |-> None]
    /\ supDelay = [s \in Schedulers |-> 0]
    /\ supAge = [s \in Schedulers |-> 0]
    /\ cancelling = {}
    /\ crashes = 0

-----------------------------------------------------------------------------
(* Producers and operators *)

\* Insert row j as queued, due in d units of time
Insert(j, d) ==
    /\ status[j] = "none"
    /\ status' = [status EXCEPT ![j] = "queued"]
    /\ attempt' = [attempt EXCEPT ![j] = 0]
    /\ wait' = [wait EXCEPT ![j] = d]
    /\ UNCHANGED <<owner, ttl, workers, sup, cancelling, crashes>>

\* enqueue of a job whose idempotency key is new
Enqueue(j) == \E d \in 0..MaxDelay : Insert(j, d)

\* replay: a failed job is enqueued again as a new row
Replay(j) == \E k \in Jobs \ {j} : status[j] = "failed" /\ Insert(k, 0)

\* cancel, first half: the request reads the row and checks the transition
CancelRead(j) ==
    /\ AssertTransition(status[j], "cancelled")
    /\ j \notin cancelling
    /\ cancelling' = cancelling \cup {j}
    /\ UNCHANGED <<table, workers, sup, crashes>>

\* cancel, second half: the row is written by primary key; lease columns are kept
CancelCommit(j) ==
    /\ j \in cancelling
    /\ cancelling' = cancelling \ {j}
    /\ status' = IF Present(j) THEN [status EXCEPT ![j] = "cancelled"] ELSE status
    /\ UNCHANGED <<attempt, wait, owner, ttl, workers, sup, crashes>>

\* purge_terminal_jobs: one DELETE of the terminal rows that are old enough
Purge ==
    /\ WithPurge
    /\ \E S \in SUBSET {j \in Jobs : status[j] \in Lifecycle!TERMINAL_STATES} :
          /\ S # {}
          /\ status' = [j \in Jobs |-> IF j \in S THEN "purged" ELSE status[j]]
    /\ UNCHANGED <<attempt, wait, owner, ttl, workers, sup, cancelling, crashes>>

-----------------------------------------------------------------------------
(* Workers: one iteration of JobWorker.run is run_once in a fresh session *)

\* The session ends; the worker polls again
Release(w) ==
    /\ pc' = [pc EXCEPT ![w] = "idle"]
    /\ job' = [job EXCEPT ![w] = None]
    /\ claimed' = [claimed EXCEPT ![w] = 0]
    /\ to' = [to EXCEPT ![w] = None]
    /\ timer' = [timer EXCEPT ![w] = -1]

\* claim, first half: `now` is taken and _select_candidate_id reads the first due
\* job.  On PostgreSQL SKIP LOCKED passes over the candidates of other sessions.
ClaimSelect(w) ==
    /\ pc[w] = "idle"
    /\ \E j \in Scope[w] :
          /\ Due(j)
          /\ \A k \in Scope[w] : Due(k) /\ Priority[k] < Priority[j] =>
                \E v \in Workers \ {w} : pc[v] = "selected" /\ job[v] = k
          /\ job' = [job EXCEPT ![w] = j]
    /\ pc' = [pc EXCEPT ![w] = "selected"]
    /\ timer' = [timer EXCEPT ![w] = LeaseTicks]
    /\ UNCHANGED <<table, claimed, to, sup, cancelling, crashes>>

\* Mutant: UPDATE ... WHERE id = candidate, without the status
ClaimUpdateBlind(w) ==
    LET j == job[w] IN
    /\ pc[w] = "selected"
    /\ status' = [status EXCEPT ![j] = "running"]
    /\ owner' = [owner EXCEPT ![j] = w]
    /\ ttl' = [ttl EXCEPT ![j] = timer[w]]
    /\ attempt' = [attempt EXCEPT ![j] = @ + 1]
    /\ claimed' = [claimed EXCEPT ![w] = attempt[j] + 1]
    /\ pc' = [pc EXCEPT ![w] = "running"]
    /\ UNCHANGED <<wait, job, to, timer, sup, cancelling, crashes>>

\* Mutant: the attempt is not counted
ClaimUpdateUncounted(w) ==
    LET j == job[w] IN
    /\ pc[w] = "selected"
    /\ IF status[j] = "queued"
       THEN /\ status' = [status EXCEPT ![j] = "running"]
            /\ owner' = [owner EXCEPT ![j] = w]
            /\ ttl' = [ttl EXCEPT ![j] = timer[w]]
            /\ claimed' = [claimed EXCEPT ![w] = attempt[j]]
            /\ pc' = [pc EXCEPT ![w] = "running"]
            /\ UNCHANGED <<attempt, wait, job, to, timer>>
       ELSE Release(w) /\ UNCHANGED table
    /\ UNCHANGED <<sup, cancelling, crashes>>

\* Mutant: the lease columns are not written
ClaimUpdateUnleased(w) ==
    LET j == job[w] IN
    /\ pc[w] = "selected"
    /\ IF status[j] = "queued"
       THEN /\ status' = [status EXCEPT ![j] = "running"]
            /\ attempt' = [attempt EXCEPT ![j] = @ + 1]
            /\ claimed' = [claimed EXCEPT ![w] = attempt[j] + 1]
            /\ pc' = [pc EXCEPT ![w] = "running"]
            /\ UNCHANGED <<wait, owner, ttl, job, to, timer>>
       ELSE Release(w) /\ UNCHANGED table
    /\ UNCHANGED <<sup, cancelling, crashes>>

\* claim, second half: UPDATE ... WHERE id = candidate AND status = 'queued'
ClaimUpdate(w) ==
    LET j == job[w] IN
    /\ pc[w] = "selected"
    /\ IF status[j] = "queued"
       THEN /\ status' = [status EXCEPT ![j] = "running"]
            /\ owner' = [owner EXCEPT ![j] = w]
            /\ ttl' = [ttl EXCEPT ![j] = timer[w]]
            /\ attempt' = [attempt EXCEPT ![j] = @ + 1]
            /\ claimed' = [claimed EXCEPT ![w] = attempt[j] + 1]
            /\ pc' = [pc EXCEPT ![w] = "running"]
            /\ UNCHANGED <<wait, job, to, timer>>
       ELSE Release(w) /\ UNCHANGED table
    /\ UNCHANGED <<sup, cancelling, crashes>>

\* renew_lease: UPDATE ... WHERE status = 'running' AND lease_owner = w
RenewLease(w) ==
    LET j == job[w] IN
    /\ WithRenewal
    /\ pc[w] = "running"
    /\ status[j] = "running" /\ owner[j] = w
    /\ ttl' = [ttl EXCEPT ![j] = LeaseTicks]
    /\ timer' = [timer EXCEPT ![w] = LeaseTicks]
    /\ UNCHANGED <<status, attempt, wait, owner, pc, job, claimed, to, sup, cancelling, crashes>>

\* The handler is over and complete or fail reads the row again (a commit or a
\* rollback has expired it) and checks the transition to target.  A row that is
\* no longer running raises InvalidTransition, which the worker loop logs.
Settle(w, target) ==
    LET j == job[w] IN
    /\ pc[w] = "running"
    /\ IF AssertTransition(status[j], target)
       THEN /\ pc' = [pc EXCEPT ![w] = "settle"]
            /\ to' = [to EXCEPT ![w] = target]
            /\ timer' = [timer EXCEPT ![w] =
                  IF target = "retry_wait" THEN Backoff(attempt[j]) ELSE -1]
            /\ UNCHANGED <<job, claimed>>
       ELSE Release(w)
    /\ UNCHANGED <<table, sup, cancelling, crashes>>

\* The handler returned
Complete(w) == Settle(w, "succeeded")

\* The handler raised: its transaction is rolled back and the job fails
Fail(w) == Settle(w, FailTarget(attempt[job[w]], FALSE))

\* No handler is registered for the job type: a final failure
FailNoHandler(w) == Settle(w, FailTarget(attempt[job[w]], TRUE))

\* Mutant: the lease columns are not cleared
WriteSettledLeased(j, target, delay) ==
    IF Present(j)
    THEN /\ status' = [status EXCEPT ![j] = target]
         /\ wait' = [wait EXCEPT ![j] = IF target = "retry_wait" THEN delay ELSE @]
         /\ UNCHANGED <<attempt, owner, ttl>>
    ELSE UNCHANGED table

\* The columns complete and fail write, by primary key; a session whose row has
\* been deleted writes nothing
WriteSettled(j, target, delay) ==
    IF Present(j)
    THEN /\ status' = [status EXCEPT ![j] = target]
         /\ owner' = [owner EXCEPT ![j] = None]
         /\ ttl' = [ttl EXCEPT ![j] = -1]
         /\ wait' = [wait EXCEPT ![j] = IF target = "retry_wait" THEN delay ELSE @]
         /\ UNCHANGED attempt
    ELSE UNCHANGED table

\* db.commit() of complete or fail in a worker
SettleCommit(w) ==
    /\ pc[w] = "settle"
    /\ WriteSettled(job[w], to[w], Higher(timer[w], 0))
    /\ Release(w)
    /\ UNCHANGED <<sup, cancelling, crashes>>

-----------------------------------------------------------------------------
(* The scheduler: scheduler_tick is promote_retry_ready, then recovery *)

\* The tick is over; JobScheduler.run waits and starts the next one
EndTick(s) ==
    /\ supPc' = [supPc EXCEPT ![s] = "promote"]
    /\ supJob' = [supJob EXCEPT ![s] = None]
    /\ supTodo' = [supTodo EXCEPT ![s] = {}]
    /\ supTo' = [supTo EXCEPT ![s] = None]
    /\ supDelay' = [supDelay EXCEPT ![s] = 0]
    /\ supAge' = [supAge EXCEPT ![s] = 0]

\* Mutant: available_at is not looked at
PromoteEarly(s) ==
    LET ready == {j \in Jobs : status[j] = "retry_wait"} IN
    /\ supPc[s] = "promote"
    /\ status' = [j \in Jobs |-> IF j \in ready THEN "queued" ELSE status[j]]
    /\ supPc' = [supPc EXCEPT ![s] = "scan"]
    /\ UNCHANGED <<attempt, wait, owner, ttl, workers,
                   supJob, supTodo, supTo, supDelay, supAge, cancelling, crashes>>

\* Mutant: due retries go to the reserved status
PromotePending(s) ==
    LET ready == {j \in Jobs : status[j] = "retry_wait" /\ wait[j] = 0} IN
    /\ supPc[s] = "promote"
    /\ status' = [j \in Jobs |-> IF j \in ready THEN "pending" ELSE status[j]]
    /\ supPc' = [supPc EXCEPT ![s] = "scan"]
    /\ UNCHANGED <<attempt, wait, owner, ttl, workers,
                   supJob, supTodo, supTo, supDelay, supAge, cancelling, crashes>>

\* promote_retry_ready: UPDATE ... WHERE status = 'retry_wait' AND available_at <= now
Promote(s) ==
    LET ready == {j \in Jobs : status[j] = "retry_wait" /\ wait[j] = 0} IN
    /\ supPc[s] = "promote"
    /\ status' = [j \in Jobs |-> IF j \in ready THEN "queued" ELSE status[j]]
    /\ supPc' = [supPc EXCEPT ![s] = "scan"]
    /\ UNCHANGED <<attempt, wait, owner, ttl, workers,
                   supJob, supTodo, supTo, supDelay, supAge, cancelling, crashes>>

\* recover_abandoned_leases reaches job j with the row as it is now in its session:
\* fail() picks the branch and the backoff, or raises InvalidTransition, which
\* leaves the other stale jobs for the next tick
Recover(s, j, rest) ==
    LET target == FailTarget(attempt[j], FALSE) IN
    IF AssertTransition(status[j], target)
    THEN /\ supPc' = [supPc EXCEPT ![s] = "settle"]
         /\ supJob' = [supJob EXCEPT ![s] = j]
         /\ supTodo' = [supTodo EXCEPT ![s] = rest]
         /\ supTo' = [supTo EXCEPT ![s] = target]
         /\ supDelay' = [supDelay EXCEPT ![s] =
               IF target = "retry_wait" THEN Backoff(attempt[j]) ELSE 0]
         /\ UNCHANGED supAge
    ELSE EndTick(s)

\* The query of recover_abandoned_leases.  The first job is failed with the row
\* the query loaded; the commit expires the others.
SupScan(s) ==
    LET stale == {j \in Jobs : Stale(j)} IN
    /\ supPc[s] = "scan"
    /\ \/ stale = {} /\ EndTick(s)
       \/ \E j \in stale : Recover(s, j, stale \ {j})
    /\ UNCHANGED <<table, workers, cancelling, crashes>>

\* The loop goes on to another job of the stale set, reading its row again
SupNext(s) ==
    /\ supPc[s] = "next"
    /\ \E j \in supTodo[s] : Recover(s, j, supTodo[s] \ {j})
    /\ UNCHANGED <<table, workers, cancelling, crashes>>

\* db.commit() of fail in the scheduler; a deleted row raises and ends the tick
SupCommit(s) ==
    /\ supPc[s] = "settle"
    /\ WriteSettled(supJob[s], supTo[s], Higher(supDelay[s] - supAge[s], 0))
    /\ IF Present(supJob[s]) /\ supTodo[s] # {}
       THEN /\ supPc' = [supPc EXCEPT ![s] = "next"]
            /\ supJob' = [supJob EXCEPT ![s] = None]
            /\ supTo' = [supTo EXCEPT ![s] = None]
            /\ supDelay' = [supDelay EXCEPT ![s] = 0]
            /\ UNCHANGED <<supTodo, supAge>>
       ELSE EndTick(s)
    /\ UNCHANGED <<workers, cancelling, crashes>>

-----------------------------------------------------------------------------
(* Failures and time *)

\* A worker process dies, or its loop meets an unexpected error and closes the session
WorkerCrash(w) ==
    /\ crashes < MaxCrashes
    /\ pc[w] # "idle"
    /\ Release(w)
    /\ crashes' = crashes + 1
    /\ UNCHANGED <<table, sup, cancelling>>

\* The scheduler process dies, or scheduler_tick raises
SchedulerCrash(s) ==
    /\ crashes < MaxCrashes
    /\ supPc[s] # "promote"
    /\ EndTick(s)
    /\ crashes' = crashes + 1
    /\ UNCHANGED <<table, workers, cancelling>>

\* A cancel request is lost between its read and its commit
CancelCrash(j) ==
    /\ crashes < MaxCrashes
    /\ j \in cancelling
    /\ cancelling' = cancelling \ {j}
    /\ crashes' = crashes + 1
    /\ UNCHANGED <<table, workers, sup>>

\* One unit of time passes for the table and for the open sessions
Tick ==
    /\ wait' = [j \in Jobs |-> Higher(wait[j] - 1, 0)]
    /\ ttl' = [j \in Jobs |-> Higher(ttl[j] - 1, -1)]
    /\ timer' = [w \in Workers |-> Higher(timer[w] - 1, -1)]
    /\ supAge' = [s \in Schedulers |->
          IF supPc[s] \in {"settle", "next"} THEN Lower(supAge[s] + 1, BackoffCap) ELSE supAge[s]]
    /\ <<wait, ttl, timer, supAge>> # <<wait, ttl, timer, supAge>>'
    /\ UNCHANGED <<status, attempt, owner, pc, job, claimed, to,
                   supPc, supJob, supTodo, supTo, supDelay, cancelling, crashes>>

-----------------------------------------------------------------------------
(* The specification *)

Operator == \/ \E j \in Jobs : Enqueue(j) \/ Replay(j) \/ CancelRead(j) \/ CancelCommit(j)
            \/ Purge

Worker(w) == \/ ClaimSelect(w) \/ ClaimUpdate(w) \/ RenewLease(w)
             \/ Complete(w) \/ Fail(w) \/ FailNoHandler(w) \/ SettleCommit(w)

Scheduler(s) == Promote(s) \/ SupScan(s) \/ SupNext(s) \/ SupCommit(s)

Crash == \/ \E w \in Workers : WorkerCrash(w)
         \/ \E s \in Schedulers : SchedulerCrash(s)
         \/ \E j \in Jobs : CancelCrash(j)

Next == \/ Operator
        \/ \E w \in Workers : Worker(w)
        \/ \E s \in Schedulers : Scheduler(s)
        \/ Crash
        \/ Tick

Spec == Init /\ [][Next]_vars

\* A worker's steps other than renewal: in every program counter but an idle one
\* with nothing due, one of them is enabled
Advance(w) == \/ ClaimSelect(w) \/ ClaimUpdate(w)
              \/ Complete(w) \/ Fail(w) \/ FailNoHandler(w) \/ SettleCommit(w)

\* Worker processes are restarted and poll, handlers return, the scheduler runs its
\* tick again and again, API requests end and time passes
Fairness ==
    /\ \A w \in Workers : WF_vars(Advance(w))
    /\ \A s \in Schedulers : WF_vars(Scheduler(s))
    /\ \A j \in Jobs : WF_vars(CancelCommit(j))
    /\ WF_vars(Tick)

FairSpec == Spec /\ Fairness

-----------------------------------------------------------------------------
(* Properties *)

Holding == {"running", "settle"}

TableTypeOK ==
    /\ status \in [Jobs -> Lifecycle!Statuses]
    /\ attempt \in [Jobs -> Nat]
    /\ wait \in [Jobs -> Nat]
    /\ owner \in [Jobs -> Workers \cup {None}]
    /\ ttl \in [Jobs -> Nat \cup {-1}]

WorkerTypeOK ==
    /\ pc \in [Workers -> {"idle", "selected", "running", "settle"}]
    /\ job \in [Workers -> Jobs \cup {None}]
    /\ claimed \in [Workers -> Nat]
    /\ to \in [Workers -> Settled \cup {None}]
    /\ timer \in [Workers -> Nat \cup {-1}]
    /\ \A w \in Workers : pc[w] # "idle" => job[w] \in Jobs
    /\ \A w \in Workers : pc[w] = "settle" => to[w] \in Settled

SchedulerTypeOK ==
    /\ supPc \in [Schedulers -> {"promote", "scan", "settle", "next"}]
    /\ supJob \in [Schedulers -> Jobs \cup {None}]
    /\ supTodo \in [Schedulers -> SUBSET Jobs]
    /\ supTo \in [Schedulers -> Settled \cup {None}]
    /\ supDelay \in [Schedulers -> Nat]
    /\ supAge \in [Schedulers -> Nat]
    /\ \A s \in Schedulers : supPc[s] = "settle" => supJob[s] \in Jobs /\ supTo[s] \in Settled

\* Every variable has its type; a worker or scheduler that is about to write has
\* read a row and checked a transition of complete() or fail().
TypeOK ==
    /\ TableTypeOK
    /\ WorkerTypeOK
    /\ SchedulerTypeOK
    /\ cancelling \in SUBSET Jobs
    /\ crashes \in 0..MaxCrashes

\* A lease changes hands only through the table: a row that one worker leases is
\* not claimed by another before a transition has cleared the lease, however late
\* the other one's UPDATE comes after its SELECT.
LeaseHandover ==
    [][\A j \in Jobs : owner[j] # None => owner'[j] \in {owner[j], None}]_vars

\* The attempt number identifies an execution: however claims, recoveries, retries
\* and late workers interleave, two workers that hold the same job hold different
\* attempts of it.
ClaimsDistinct ==
    \A v, w \in Workers :
        (v # w /\ pc[v] \in Holding /\ pc[w] \in Holding /\ job[v] = job[w])
            => claimed[v] # claimed[w]

\* No running job is out of the supervisor's sight: whoever wrote last, a row that
\* is running has a lease for recover_abandoned_leases to find expired.
RunningIsLeased == \A j \in Jobs : status[j] = "running" => owner[j] # None

\* Backoff is respected although the claim's UPDATE checks the status only: a job
\* goes from queued to running only once its available_at has passed, also when it
\* was selected, lost to another worker, failed and promoted again in between.
NoEarlyClaim ==
    [][\A j \in Jobs : status[j] = "queued" /\ status'[j] = "running" => wait[j] = 0]_vars

\* Recovery only takes a job away from a worker whose lease has expired, although
\* its loop checks the status again and never the lease: only a scheduler promotes,
\* so with one scheduler a job of the stale set cannot be claimed afresh during the
\* loop.  (It needs WithRenewal to be FALSE: a renewal would be overlooked.)
RecoverOnlyExpired ==
    [][\A s \in Schedulers :
          SupCommit(s) /\ status[supJob[s]] = "running" => ttl[supJob[s]] < 0]_vars

\* A row that can be claimed, or will be once its backoff is over, carries no lease
\* of an earlier execution: every way back to queued goes through a write that
\* clears the lease columns, also when two sessions settle the same row or a cancel
\* overwrites a running one.
ClaimableUnleased ==
    \A j \in Jobs : status[j] \in {"none", "queued", "retry_wait"} => owner[j] = None

\* Every change of a row's status was checked against ALLOWED_TRANSITIONS: by the
\* statement that makes it (claim, promotion, insertion, purge), or by the session
\* that makes it when it read the row; between that check and its write other
\* sessions commit, and the write lands whatever they left.
FollowsLifecycle == Lifecycle!Spec

\* Even with lost updates a poison job stops: once max_attempts is reached, only a
\* worker that read the row before can send it back to retry_wait, once each.
AttemptsCapped == \A j \in Jobs : attempt[j] <= MaxAttempts + Cardinality(Workers) - 1

\* Every accepted job ends: it succeeds, fails, is cancelled or is purged, whatever
\* crashes, expired leases and lost updates happen on the way.
EveryJobEnds ==
    \A j \in Jobs : status[j] = "queued" ~> status[j] \in Lifecycle!TERMINAL_STATES \cup {"purged"}

-----------------------------------------------------------------------------
(* What the documents say and the code does not do: complete, fail and cancel    *)
(* check the row in their session and write it by primary key                    *)

\* "Transitions are compare-and-set; an invalid transition fails closed"
\* (states.py): the status of a row changes only by a transition that the table
\* allows from the status the row has at that moment.
ComparesAndSets ==
    [][\A j \in Jobs : status'[j] # status[j]
          => <<status[j], status'[j]>> \in Lifecycle!TableTransitions]_vars

\* A job is executed at most max_attempts times (runbook: "A job that exhausts
\* max_attempts lands in failed and stops retrying").
AttemptsBounded == \A j \in Jobs : attempt[j] <= MaxAttempts

\* "Both guarantee at most one worker claims a job" (service.py): two workers do not
\* execute the same job, each within the lease it was given.
LeaseExclusive ==
    \A v, w \in Workers :
        (v # w /\ pc[v] = "running" /\ pc[w] = "running" /\ job[v] = job[w])
            => timer[v] < 0 \/ timer[w] < 0

\* Running jobs cannot be cancelled (runbook, and cancel()'s docstring).
RunningNotCancelled ==
    [][\A j \in Jobs : status[j] = "running" => status'[j] # "cancelled"]_vars

=============================================================================
