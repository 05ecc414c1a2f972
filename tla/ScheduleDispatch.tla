-------------------------- MODULE ScheduleDispatch --------------------------
(***************************************************************************)
(* Scheduled reports and imports, and their migration to the job runtime:  *)
(* the scheduler threads of the API processes (routers/scheduled_*.py),    *)
(* dispatch_due and enqueue_occurrence (jobs/migration.py), the handlers   *)
(* of the job workers (jobs/handlers.py) and manual triggers.  All of them *)
(* execute a schedule in the same three steps: commit last_status =        *)
(* 'running', do the work, commit the outcome and the next next_run_at.    *)
(*                                                                         *)
(* An occurrence is a value of next_run_at, numbered in the order they are *)
(* written; due[s] says whether it has passed.  The job runtime appears as *)
(* its workers and its scheduler use it, with leases that may expire at    *)
(* any time and transitions that are checked in one step and written in a  *)
(* later one; JobQueue models it in detail.                                *)
(*                                                                         *)
(* done, sent, lapses, flipped and stranded record history for the         *)
(* properties; no guard reads them.                                        *)
(***************************************************************************)
EXTENDS Integers, FiniteSets

CONSTANTS
    Schedules,          \* rows of scheduled_reports or scheduled_imports
    Replicas,           \* API processes, each with a scheduler thread
    Workers,            \* job workers of the domain
    Requests,           \* manual triggers under way at the same time
    None,               \* nothing, SQL NULL
    Modes,              \* the values of UKIP_JOBS_<DOMAIN> in use
    FirstStatuses,      \* last_status of new rows: pending of reports, NULL of imports
    Tenant,             \* whether the schedules have an org_id, so that the unique
                        \* constraint of background_jobs applies
    InProcess,          \* UKIP_INPROCESS_SCHEDULERS
    MaxAttempts,        \* max_attempts of a job
    MaxOcc,             \* bound on the occurrences of a schedule
    Flips,              \* whether a restarted API process may come up in another mode
    MaxFaults,          \* bound on restarts of API processes, failed enqueues and
                        \* exceptions that leave an executor
    MaxCrashes          \* bound on crashes of workers and expired leases of live ones

ASSUME DispatchAssumption ==
    /\ Modes \subseteq {"off", "shadow", "queue"}
    /\ FirstStatuses \subseteq {"pending", None}
    /\ None \notin {"pending", "running", "success", "error"}
    /\ None \notin Schedules \cup Workers
    /\ IsFiniteSet(Workers)
    /\ Tenant \in BOOLEAN /\ InProcess \in BOOLEAN
    /\ Flips \in BOOLEAN
    /\ MaxAttempts \in Nat /\ MaxOcc \in Nat /\ MaxFaults \in Nat /\ MaxCrashes \in Nat
    /\ Replicas \cap Workers = {} /\ Replicas \cap Requests = {} /\ Workers \cap Requests = {}

VARIABLES
    \* the schedules: is_active, last_status, whether next_run_at has passed, and
    \* its number
    active, last, due, occ,
    \* the jobs: status, mode in the payload and attempts of each
    status, payload, tries,
    \* the processes: program counter, schedule, occurrence it acts for, and the
    \* last_status loaded in its session
    pc, cur, seen, loaded,
    \* replicas: the mode, and the rest of the due list; workers: the job held, and
    \* the status about to be written to it
    mode, todo, key, to,
    \* the job scheduler: the job it is failing and the status it is about to write
    sup,
    \* how often replica k[3] has done the work of occurrence k in process, and how
    \* often the workers have done that of job k
    done, sent,
    \* how many leases of job k have expired and how many of its executions have
    \* raised after the work was done
    lapses,
    \* replicas that have changed their mode; schedules that have lost an executor
    \* while running and have had no outcome since
    flipped, stranded,
    faults, crashes

schedules == <<active, last, due, occ>>
jobs      == <<status, payload, tries>>
procs     == <<pc, cur, seen, loaded>>
held      == <<key, to>>
history   == <<done, sent, lapses, flipped, stranded>>
vars      == <<schedules, jobs, procs, mode, todo, held, sup, history, faults, crashes>>

Procs == Replicas \cup Workers \cup Requests
Occs  == 0..MaxOcc

\* A job is named by its occurrence (its idempotency key) and by who inserted it
Keys == Schedules \X Occs \X Replicas

Executing == {"begun", "running", "sent", "erred"}

NextOcc(o) == IF o < MaxOcc THEN o + 1 ELSE o

\* _find_by_key: the jobs of an occurrence
JobsOf(s, o) == {k \in Keys : k[1] = s /\ k[2] = o /\ status[k] # "none"}

Init ==
    /\ active = [s \in Schedules |-> TRUE]
    /\ last \in [Schedules -> FirstStatuses]
    /\ due = [s \in Schedules |-> FALSE]
    /\ occ = [s \in Schedules |-> 0]
    /\ status = [k \in Keys |-> "none"]
    /\ payload = [k \in Keys |-> None]
    /\ tries = [k \in Keys |-> 0]
    /\ pc = [p \in Procs |-> "idle"]
    /\ cur = [p \in Procs |-> None]
    /\ seen = [p \in Procs |-> 0]
    /\ loaded = [p \in Procs |-> None]
    /\ mode \in {[r \in Replicas |-> m] : m \in Modes}
    /\ todo = [r \in Replicas |-> {}]
    /\ key = [w \in Workers |-> None]
    /\ to = [w \in Workers |-> None]
    /\ sup = None
    /\ done = [k \in Keys |-> 0]
    /\ sent = [k \in Keys |-> 0]
    /\ lapses = [k \in Keys |-> 0]
    /\ flipped = {}
    /\ stranded = {}
    /\ faults = 0
    /\ crashes = 0

-----------------------------------------------------------------------------
(* The clock and the operators *)

\* next_run_at passes
Elapse(s) ==
    /\ ~due[s] /\ occ[s] < MaxOcc
    /\ due' = [due EXCEPT ![s] = TRUE]
    /\ UNCHANGED <<active, last, occ, jobs, procs, mode, todo, held, sup, history, faults, crashes>>

\* PUT with a new interval: next_run_at is computed again, from the last run; it may
\* have passed already (Elapse)
UpdateInterval(s) ==
    /\ occ[s] < MaxOcc
    /\ occ' = [occ EXCEPT ![s] = NextOcc(@)]
    /\ due' = [due EXCEPT ![s] = FALSE]
    /\ UNCHANGED <<active, last, jobs, procs, mode, todo, held, sup, history, faults, crashes>>

\* PUT with is_active
SetActive(s) ==
    /\ \E b \in BOOLEAN : active' = [active EXCEPT ![s] = b]
    /\ UNCHANGED <<last, due, occ, jobs, procs, mode, todo, held, sup, history, faults, crashes>>

\* Mutant: the schedule is let go, the process goes on
LeaveBusy(p) ==
    /\ cur' = [cur EXCEPT ![p] = None]
    /\ seen' = [seen EXCEPT ![p] = 0]
    /\ loaded' = [loaded EXCEPT ![p] = None]
    /\ UNCHANGED pc

\* Process p has nothing more to do for its schedule
Leave(p) ==
    /\ pc' = [pc EXCEPT ![p] = "idle"]
    /\ cur' = [cur EXCEPT ![p] = None]
    /\ seen' = [seen EXCEPT ![p] = 0]
    /\ loaded' = [loaded EXCEPT ![p] = None]

\* Process p takes up occurrence o of schedule s with its row as it is now
Take(p, s, o, at) ==
    /\ pc' = [pc EXCEPT ![p] = at]
    /\ cur' = [cur EXCEPT ![p] = s]
    /\ seen' = [seen EXCEPT ![p] = o]
    /\ loaded' = [loaded EXCEPT ![p] = last[s]]

\* POST trigger: the row is loaded and executed whatever its status
Trigger(q) ==
    /\ pc[q] = "idle"
    /\ \E s \in Schedules : Take(q, s, occ[s], "loaded")
    /\ UNCHANGED <<schedules, jobs, mode, todo, held, sup, history, faults, crashes>>

-----------------------------------------------------------------------------
(* The scheduler thread of an API process *)

\* Mutant: schedules that are running are not passed over
DueNowRunning(s) == active[s] /\ due[s] /\ last[s] # None

\* The filter of _scheduler_loop.  In SQL, NULL != 'running' is not true.
DueNow(s) == active[s] /\ due[s] /\ last[s] \notin {"running", None}

Dispatch(r, s) == Take(r, s, occ[s], IF mode[r] = "off" THEN "loaded" ELSE "find")

\* The due list is read and its first schedule dispatched
Scan(r) ==
    LET list == {s \in Schedules : DueNow(s)} IN
    /\ InProcess
    /\ pc[r] = "idle" /\ todo[r] = {}
    /\ \E s \in list : Dispatch(r, s) /\ todo' = [todo EXCEPT ![r] = list \ {s}]
    /\ UNCHANGED <<schedules, jobs, mode, held, sup, history, faults, crashes>>

\* The loop goes on to another schedule of the list.  The last commit has expired
\* its row, so it is read again, but nothing is checked again.
Proceed(r) ==
    /\ pc[r] = "idle"
    /\ \E s \in todo[r] : Dispatch(r, s) /\ todo' = [todo EXCEPT ![r] = @ \ {s}]
    /\ UNCHANGED <<schedules, jobs, mode, held, sup, history, faults, crashes>>

\* Mutant: shadow mode does not execute in process
EnqueuedSkips(r) == Leave(r)

\* After the enqueue and its commit: queue mode is done, shadow mode executes.  The
\* row has expired, so last_status will be written whatever it was.
Enqueued(r) ==
    IF mode[r] = "queue"
    THEN Leave(r)
    ELSE /\ pc' = [pc EXCEPT ![r] = "loaded"]
         /\ loaded' = [loaded EXCEPT ![r] = None]
         /\ UNCHANGED <<cur, seen>>

\* enqueue: the key is looked up
Find(r) ==
    /\ pc[r] = "find"
    /\ IF JobsOf(cur[r], seen[r]) # {}
       THEN Enqueued(r)
       ELSE pc' = [pc EXCEPT ![r] = "insert"] /\ UNCHANGED <<cur, seen, loaded>>
    /\ UNCHANGED <<schedules, jobs, mode, todo, held, sup, history, faults, crashes>>

\* Mutant: the unique constraint is not there
InsertUnconstrained(r) ==
    LET k == <<cur[r], seen[r], r>> IN
    /\ pc[r] = "insert"
    /\ status' = [status EXCEPT ![k] = "queued"]
    /\ payload' = [payload EXCEPT ![k] = mode[r]]
    /\ UNCHANGED tries
    /\ Enqueued(r)
    /\ UNCHANGED <<schedules, mode, todo, held, sup, history, faults, crashes>>

\* enqueue: the row is inserted, or the unique constraint refuses it and the other
\* producer's row is returned
Insert(r) ==
    LET k == <<cur[r], seen[r], r>> IN
    /\ pc[r] = "insert"
    /\ IF Tenant /\ JobsOf(cur[r], seen[r]) # {}
       THEN UNCHANGED jobs
       ELSE /\ status' = [status EXCEPT ![k] = "queued"]
            /\ payload' = [payload EXCEPT ![k] = mode[r]]
            /\ UNCHANGED tries
    /\ Enqueued(r)
    /\ UNCHANGED <<schedules, mode, todo, held, sup, history, faults, crashes>>

\* The enqueue fails; dispatch_due rolls back and goes on
EnqueueFails(r) ==
    /\ faults < MaxFaults
    /\ faults' = faults + 1
    /\ pc[r] \in {"find", "insert"}
    /\ Enqueued(r)
    /\ UNCHANGED <<schedules, jobs, mode, todo, held, sup, history, crashes>>

\* Process p is lost: if it was executing a schedule, that one is left running
Strand(p) ==
    stranded' = IF pc[p] \in Executing /\ last[cur[p]] = "running"
                THEN stranded \cup {cur[p]} ELSE stranded

\* The API process is restarted, perhaps with another mode; its daemon thread dies
Restart(r) ==
    /\ faults < MaxFaults
    /\ faults' = faults + 1
    /\ \E m \in IF Flips THEN Modes ELSE {mode[r]} : mode' = [mode EXCEPT ![r] = m]
    /\ flipped' = IF mode' # mode THEN flipped \cup {r} ELSE flipped
    /\ todo' = [todo EXCEPT ![r] = {}]
    /\ Strand(r)
    /\ Leave(r)
    /\ UNCHANGED <<schedules, jobs, held, sup, done, sent, lapses, crashes>>

-----------------------------------------------------------------------------
(* _execute_report and _execute_import, in any process *)

\* last_status = 'running' is committed, unless the session believes it is already
Begin(p) ==
    /\ pc[p] = "loaded"
    /\ last' = [last EXCEPT ![cur[p]] = IF loaded[p] = "running" THEN @ ELSE "running"]
    /\ pc' = [pc EXCEPT ![p] = "begun"]
    /\ UNCHANGED <<active, due, occ, jobs, cur, seen, loaded, mode, todo, held, sup, history,
                   faults, crashes>>

\* The commit has expired the row: the first use of it loads it again
Reload(p) ==
    /\ pc[p] = "begun"
    /\ loaded' = [loaded EXCEPT ![p] = last[cur[p]]]
    /\ pc' = [pc EXCEPT ![p] = "running"]
    /\ UNCHANGED <<schedules, jobs, cur, seen, mode, todo, held, sup, history, faults, crashes>>

\* The report is mailed or the entities are imported: the effect of the occurrence.
\* (The rows of an import become visible with the commit of Finish.)  Manual triggers
\* belong to no occurrence, and the last number stands for all later ones.
Work(p) ==
    /\ pc[p] = "running"
    /\ pc' = [pc EXCEPT ![p] = "sent"]
    /\ done' = IF p \in Replicas /\ seen[p] < MaxOcc
               THEN [done EXCEPT ![<<cur[p], seen[p], p>>] = @ + 1] ELSE done
    /\ sent' = IF p \in Workers THEN [sent EXCEPT ![key[p]] = @ + 1] ELSE sent
    /\ UNCHANGED <<schedules, jobs, cur, seen, loaded, mode, todo, held, sup, lapses, flipped,
                   stranded, faults, crashes>>

\* Generation, fetch or delivery fails
Err(p) ==
    /\ pc[p] = "running"
    /\ pc' = [pc EXCEPT ![p] = "erred"]
    /\ UNCHANGED <<schedules, jobs, cur, seen, loaded, mode, todo, held, sup, history, faults, crashes>>

\* What follows the executor: a worker settles its job, the others are done
AfterExecute(p) ==
    IF p \in Workers
    THEN pc' = [pc EXCEPT ![p] = "settle"] /\ UNCHANGED <<cur, seen, loaded>>
    ELSE Leave(p)

\* Mutant: the error path does not write the status
FinishSilent(p) ==
    /\ pc[p] \in {"sent", "erred"}
    /\ last' = [last EXCEPT ![cur[p]] = IF pc[p] = "sent" THEN "success" ELSE @]
    /\ occ' = [occ EXCEPT ![cur[p]] = NextOcc(@)]
    /\ due' = [due EXCEPT ![cur[p]] = FALSE]
    /\ stranded' = IF last'[cur[p]] = "running" THEN stranded ELSE stranded \ {cur[p]}
    /\ AfterExecute(p)
    /\ UNCHANGED <<active, jobs, mode, todo, held, sup, done, sent, lapses, flipped, faults,
                   crashes>>

\* The outcome and the next next_run_at are committed
Finish(p) ==
    LET outcome == IF pc[p] = "sent" THEN "success" ELSE "error" IN
    /\ pc[p] \in {"sent", "erred"}
    /\ last' = [last EXCEPT ![cur[p]] = IF loaded[p] = outcome THEN @ ELSE outcome]
    /\ occ' = [occ EXCEPT ![cur[p]] = NextOcc(@)]
    /\ due' = [due EXCEPT ![cur[p]] = FALSE]
    /\ stranded' = IF last'[cur[p]] = "running" THEN stranded ELSE stranded \ {cur[p]}
    /\ AfterExecute(p)
    /\ UNCHANGED <<active, jobs, mode, todo, held, sup, done, sent, lapses, flipped, faults,
                   crashes>>

\* An exception leaves the executor and no outcome is committed: the second half of
\* _execute_import catches none, and in both executors a commit may fail, the one
\* after the work included (the except of _execute_report then commits on a session
\* that needs a rollback).  In a scheduler thread the loop goes on, or its session is
\* broken and the rest of the list is given up.
Raise(p) ==
    /\ faults < MaxFaults
    /\ faults' = faults + 1
    /\ pc[p] \in {"loaded"} \cup Executing
    /\ Strand(p)
    /\ IF p \in Workers
       THEN pc' = [pc EXCEPT ![p] = "raised"] /\ UNCHANGED <<cur, seen, loaded>>
       ELSE Leave(p)
    /\ lapses' = IF p \in Workers /\ pc[p] = "sent" THEN [lapses EXCEPT ![key[p]] = @ + 1] ELSE lapses
    /\ \/ UNCHANGED todo
       \/ p \in Replicas /\ todo' = [todo EXCEPT ![p] = {}]
    /\ UNCHANGED <<schedules, jobs, mode, held, sup, done, sent, flipped, crashes>>

-----------------------------------------------------------------------------
(* Job workers, and the job runtime as they see it *)

\* Mutant: the handler does not look at the mode
ClaimAny(w) ==
    /\ pc[w] = "idle"
    /\ \E k \in Keys :
          /\ status[k] = "queued"
          /\ status' = [status EXCEPT ![k] = "running"]
          /\ tries' = [tries EXCEPT ![k] = @ + 1]
          /\ key' = [key EXCEPT ![w] = k]
          /\ Take(w, k[1], k[2], "loaded")
    /\ UNCHANGED <<schedules, payload, mode, todo, to, sup, history, faults, crashes>>

\* Mutant: the claim does not check that the job is still queued
ClaimTwice(w) ==
    /\ pc[w] = "idle"
    /\ \E k \in Keys :
          /\ status[k] \in {"queued", "running"}
          /\ status' = [status EXCEPT ![k] = "running"]
          /\ tries' = [tries EXCEPT ![k] = @ + 1]
          /\ key' = [key EXCEPT ![w] = k]
          /\ Take(w, k[1], k[2], IF payload[k] = "shadow" THEN "settle" ELSE "loaded")
    /\ UNCHANGED <<schedules, payload, mode, todo, to, sup, history, faults, crashes>>

\* A job is claimed.  The handler of a shadow job does nothing; that of another one
\* loads the schedule.
Claim(w) ==
    /\ pc[w] = "idle"
    /\ \E k \in Keys :
          /\ status[k] = "queued"
          /\ status' = [status EXCEPT ![k] = "running"]
          /\ tries' = [tries EXCEPT ![k] = @ + 1]
          /\ key' = [key EXCEPT ![w] = k]
          /\ Take(w, k[1], k[2], IF payload[k] = "shadow" THEN "settle" ELSE "loaded")
    /\ UNCHANGED <<schedules, payload, mode, todo, to, sup, history, faults, crashes>>

\* The branch of fail()
Failed(k) == IF tries[k] < MaxAttempts THEN "retry_wait" ELSE "failed"

\* Worker w is done with its job
LetGo(w) ==
    /\ key' = [key EXCEPT ![w] = None]
    /\ to' = [to EXCEPT ![w] = None]
    /\ Leave(w)

\* complete() or fail() reads the job: the transition is allowed from running only
SettleRead(w) ==
    LET k == key[w]
        target == IF pc[w] = "settle" THEN "succeeded" ELSE Failed(k)
    IN  /\ pc[w] \in {"settle", "raised"}
        /\ IF status[k] = "running"
           THEN /\ pc' = [pc EXCEPT ![w] = "write"]
                /\ to' = [to EXCEPT ![w] = target]
                /\ UNCHANGED <<cur, seen, loaded, key>>
           ELSE LetGo(w)
        /\ UNCHANGED <<schedules, jobs, mode, todo, sup, history, faults, crashes>>

\* Its commit writes the job by primary key, whatever it has become
SettleWrite(w) ==
    /\ pc[w] = "write"
    /\ status' = [status EXCEPT ![key[w]] = to[w]]
    /\ LetGo(w)
    /\ UNCHANGED <<schedules, payload, tries, mode, todo, sup, history, faults, crashes>>

\* A worker dies
Crash(w) ==
    /\ crashes < MaxCrashes
    /\ pc[w] # "idle"
    /\ crashes' = crashes + 1
    /\ Strand(w)
    /\ LetGo(w)
    /\ UNCHANGED <<schedules, jobs, mode, todo, sup, done, sent, lapses, flipped, faults>>

\* recover_abandoned_leases reads the job of a dead worker, or of one that is too slow
Recover(k) ==
    /\ sup = None
    /\ status[k] = "running"
    /\ sup' = <<k, Failed(k)>>
    /\ lapses' = [lapses EXCEPT ![k] = @ + 1]
    /\ IF \E w \in Workers : key[w] = k
       THEN crashes < MaxCrashes /\ crashes' = crashes + 1
       ELSE UNCHANGED crashes
    /\ UNCHANGED <<schedules, jobs, procs, mode, todo, held, done, sent, flipped, stranded, faults>>

\* Its commit writes the job by primary key, whatever it has become
RecoverWrite(k) ==
    /\ sup # None
    /\ sup[1] = k
    /\ status' = [status EXCEPT ![k] = sup[2]]
    /\ sup' = None
    /\ UNCHANGED <<schedules, payload, tries, procs, mode, todo, held, history, faults, crashes>>

\* promote_retry_ready
Promote(k) ==
    /\ status[k] = "retry_wait"
    /\ status' = [status EXCEPT ![k] = "queued"]
    /\ UNCHANGED <<schedules, payload, tries, procs, mode, todo, held, sup, history, faults, crashes>>

-----------------------------------------------------------------------------
(* The specification *)

Execute(p) == Begin(p) \/ Reload(p) \/ Work(p) \/ Err(p) \/ Finish(p) \/ Raise(p)

Replica(r) == Scan(r) \/ Proceed(r) \/ Find(r) \/ Insert(r) \/ Execute(r)

Worker(w) == Claim(w) \/ SettleRead(w) \/ SettleWrite(w) \/ Execute(w)

Runtime(k) == Recover(k) \/ RecoverWrite(k) \/ Promote(k)

Next ==
    \/ \E s \in Schedules : Elapse(s) \/ UpdateInterval(s) \/ SetActive(s)
    \/ \E r \in Replicas : Replica(r) \/ EnqueueFails(r) \/ Restart(r)
    \/ \E w \in Workers : Worker(w) \/ Crash(w)
    \/ \E q \in Requests : Trigger(q) \/ Execute(q)
    \/ \E k \in Keys : Runtime(k)

Spec == Init /\ [][Next]_vars

\* The threads poll, executors return, workers are restarted and the job scheduler
\* runs.  Nobody has to trigger, and nothing has to fall due.
Fairness ==
    /\ \A r \in Replicas : WF_vars(Replica(r))
    /\ \A w \in Workers : WF_vars(Worker(w))
    /\ \A q \in Requests : WF_vars(Execute(q))
    /\ \A k \in Keys : WF_vars(Runtime(k))

FairSpec == Spec /\ Fairness

-----------------------------------------------------------------------------
(* Properties *)

Settled == {"succeeded", "retry_wait", "failed"}

RunStatuses == {"pending", "running", "success", "error", None}

ScheduleTypeOK ==
    /\ active \in [Schedules -> BOOLEAN]
    /\ last \in [Schedules -> RunStatuses]
    /\ due \in [Schedules -> BOOLEAN]
    /\ occ \in [Schedules -> Occs]

JobTypeOK ==
    /\ status \in [Keys -> {"none", "queued", "running"} \cup Settled]
    /\ payload \in [Keys -> Modes \cup {None}]
    /\ tries \in [Keys -> Nat]

ProcTypeOK ==
    /\ pc \in [Procs -> {"idle", "find", "insert", "loaded", "settle", "raised", "write"} \cup Executing]
    /\ cur \in [Procs -> Schedules \cup {None}]
    /\ seen \in [Procs -> Occs]
    /\ loaded \in [Procs -> RunStatuses]
    /\ \A p \in Procs : pc[p] # "idle" => cur[p] \in Schedules

HeldTypeOK ==
    /\ key \in [Workers -> Keys \cup {None}]
    /\ to \in [Workers -> Settled \cup {None}]
    /\ \A w \in Workers : pc[w] # "idle" => key[w] \in Keys
    /\ \A w \in Workers : pc[w] = "write" => to[w] \in Settled

HistoryTypeOK ==
    /\ done \in [Keys -> Nat] /\ sent \in [Keys -> Nat] /\ lapses \in [Keys -> Nat]
    /\ flipped \subseteq Replicas /\ stranded \subseteq Schedules

\* Every variable has its type, and whoever acts has a schedule, or a job, to act on.
TypeOK ==
    /\ ScheduleTypeOK
    /\ JobTypeOK
    /\ ProcTypeOK
    /\ HeldTypeOK
    /\ HistoryTypeOK
    /\ mode \in [Replicas -> Modes]
    /\ todo \in [Replicas -> SUBSET Schedules]
    /\ sup \in (Keys \X Settled) \cup {None}
    /\ faults \in 0..MaxFaults
    /\ crashes \in 0..MaxCrashes

\* "A due schedule scanned repeatedly enqueues a single job per occurrence"
\* (enqueue_occurrence), also when several replicas scan at the same time.
OneJobPerOccurrence ==
    \A k, l \in Keys :
        (status[k] # "none" /\ status[l] # "none" /\ k[1] = l[1] /\ k[2] = l[2]) => k = l

\* A schedule is shown as running only while somebody executes it: however the
\* executions of replicas, workers and triggers overlap, the last one to end leaves
\* another status, so that the due scan, which passes over running schedules, sees
\* it again.  What leaves it running for good is an executor that dies or raises
\* half-way, until another execution of it ends.
RunningHasExecutor ==
    \A s \in Schedules : last[s] = "running" =>
        \/ \E p \in Procs : cur[p] = s /\ pc[p] \in Executing
        \/ s \in stranded

\* A scheduler thread does the work of an occurrence at most once, also when its
\* process is restarted or an exception leaves the executor after the work, and
\* whatever manual triggers, workers and other replicas execute at the same time:
\* the occurrence stays behind a status of running until next_run_at has moved.
ThreadRunsOnce == \A k \in Keys : done[k] <= 1

\* The work of a job is repeated only because a lease expired or because an execution
\* raised after the work was done, once each: no lost update between workers that
\* settle the same job and the recovery adds an execution that no fault explains.
EffectsExplained == \A k \in Keys : sent[k] <= 1 + lapses[k]

\* "queue skips in-process execution" and shadow jobs have no side effect: a replica's
\* occurrence is worked on by its thread or by its job, not by both, unless the
\* replica has been restarted in another mode.
OnePath == \A k \in Keys : done[k] > 0 /\ sent[k] > 0 => k[3] \in flipped

\* The occurrence at hand has a job that will not execute it (it failed for good, or
\* it was made in shadow mode) and a replica that leaves it to that job
DeadEnd(s) ==
    \E k \in JobsOf(s, occ[s]), r \in Replicas :
        mode[r] = "queue" /\ (status[k] = "failed" \/ payload[k] = "shadow")

\* A due schedule that is active is executed or moved, whatever the mode and although
\* workers die, leases expire, executions fail and updates are lost.  What leaves it
\* due for good is one of three things: it has never been given a status (a new
\* import), an executor was lost half-way, or its job is a dead end.
DueRuns ==
    \A s \in Schedules : (active[s] /\ due[s]) ~>
        (~(active[s] /\ due[s]) \/ last[s] = None \/ s \in stranded \/ DeadEnd(s))

=============================================================================
