----------------------------- MODULE EngineJobs -----------------------------
(***************************************************************************)
(* Asynchronous jobs of the compute engine (engine/src/jobs.rs, server.rs, *)
(* main.rs and db/job_store.rs) and the ingest that submits them           *)
(* (backend/services/engine_client.py, backend/routers/ingest_helpers.py). *)
(* A job is one import batch with its own id.  The engine keeps a job in   *)
(* memory and in a row of engine_jobs, bounds the tasks with a semaphore,  *)
(* and may be shut down, crash, fail to write a row, or lose a task to a   *)
(* panic.  A client that gets no answer materializes the batch in Python.  *)
(***************************************************************************)
EXTENDS Integers, FiniteSets

CONSTANTS
    Jobs,
    MaxConcurrent,      \* permits of the semaphore
    MaxStops,           \* bound on shutdowns and crashes of the engine
    MaxFaults           \* bound on lost writes and panics

ASSUME EngineAssumption ==
    /\ IsFiniteSet(Jobs)
    /\ MaxConcurrent \in Nat
    /\ MaxStops \in Nat
    /\ MaxFaults \in Nat

VARIABLES
    engine,             \* "up", "draining", "cleanup", "closing" or "down"
    permits,            \* available permits
    mem, row,           \* status of each job in memory and in its row
    task,               \* the handler, then the task, of each job
    outcome,            \* what the pipeline returned
    client,             \* the request of the client
    told,               \* the terminal status the client was told, if any
    worked, python,     \* batches the engine has materialized, and Python has
    \* history: jobs with a lost write, jobs whose task panicked
    lost, panicked,
    stops, faults

tables == <<mem, row>>
ghosts == <<lost, panicked>>
bounds == <<stops, faults>>
vars   == <<engine, permits, tables, task, outcome, client, told, worked, python, ghosts, bounds>>

Active  == {"queued", "running"}
Ended   == {"completed", "failed"}

\* The permit moves from the handler to the task, and is dropped with it
HasPermit(j) == task[j] \in {"create", "start", "run", "row", "mem"}

\* get_or_fetch: memory first, then the row
View(j) == IF mem[j] # "none" THEN mem[j] ELSE row[j]

Init ==
    /\ engine = "up"
    /\ permits = MaxConcurrent
    /\ mem = [j \in Jobs |-> "none"]
    /\ row = [j \in Jobs |-> "none"]
    /\ task = [j \in Jobs |-> "none"]
    /\ outcome = [j \in Jobs |-> "none"]
    /\ client = [j \in Jobs |-> "idle"]
    /\ told = [j \in Jobs |-> "none"]
    /\ worked = {}
    /\ python = {}
    /\ lost = {}
    /\ panicked = {}
    /\ stops = 0
    /\ faults = 0

\* A statement on the row of j writes it, or fails or times out, which is logged and ignored:
\* then it may have been executed or not
WriteRow(j, written) ==
    \/ /\ row' = written
       /\ UNCHANGED <<lost, faults>>
    \/ /\ faults < MaxFaults
       /\ faults' = faults + 1
       /\ lost' = lost \cup {j}
       /\ row' \in {row, written}

-----------------------------------------------------------------------------
(* The client: materialization of an import batch, in primary mode *)

Submit(j) ==
    /\ client[j] = "idle"
    /\ client' = [client EXCEPT ![j] = "sent"]
    /\ UNCHANGED <<engine, permits, tables, task, outcome, told, worked, python, ghosts, bounds>>

\* The call times out, or the connection breaks
Timeout(j) ==
    /\ client[j] = "sent"
    /\ client' = [client EXCEPT ![j] = "gone"]
    /\ UNCHANGED <<engine, permits, tables, task, outcome, told, worked, python, ghosts, bounds>>

\* process_async returned None: materialize_scientific_import_graph
Fallback(j) ==
    /\ client[j] \in {"refused", "gone"}
    /\ j \notin python
    /\ python' = python \cup {j}
    /\ UNCHANGED <<engine, permits, tables, task, outcome, client, told, worked, ghosts, bounds>>

\* GetJobStatus
Poll(j) ==
    /\ client[j] = "accepted"
    /\ engine = "up"
    /\ View(j) \in Ended
    /\ told' = [told EXCEPT ![j] = View(j)]
    /\ UNCHANGED <<engine, permits, tables, task, outcome, client, worked, python, ghosts, bounds>>

-----------------------------------------------------------------------------
(* process_async *)

\* Mutant: a count of permits that was checked before is not checked again
AcceptUnchecked(j) ==
    /\ engine = "up"
    /\ client[j] = "sent"
    /\ task[j] = "none"
    /\ permits' = permits - 1
    /\ task' = [task EXCEPT ![j] = "create"]
    /\ UNCHANGED <<engine, tables, outcome, client, told, worked, python, ghosts, bounds>>

\* try_acquire
Accept(j) ==
    /\ engine = "up"
    /\ client[j] = "sent"
    /\ task[j] = "none"
    /\ permits > 0
    /\ permits' = permits - 1
    /\ task' = [task EXCEPT ![j] = "create"]
    /\ UNCHANGED <<engine, tables, outcome, client, told, worked, python, ghosts, bounds>>

\* No permit, or a request that is not valid, whose permit is dropped at once
Refuse(j) ==
    /\ engine = "up"
    /\ client[j] = "sent"
    /\ task[j] = "none"
    /\ client' = [client EXCEPT ![j] = "refused"]
    /\ UNCHANGED <<engine, permits, tables, task, outcome, told, worked, python, ghosts, bounds>>

\* Mutant: the client is told of a row that was not written, the task is spawned all the same
CreateRefuses(j) ==
    /\ task[j] = "create"
    /\ WriteRow(j, [row EXCEPT ![j] = "queued"])
    /\ mem' = [mem EXCEPT ![j] = "queued"]
    /\ task' = [task EXCEPT ![j] = "start"]
    /\ client' = [client EXCEPT ![j] =
                    IF @ # "sent" THEN @ ELSE IF j \in lost' THEN "refused" ELSE "accepted"]
    /\ UNCHANGED <<engine, permits, outcome, told, worked, python, panicked, stops>>

\* JobManager::create, the spawn of the task, and the answer
Create(j) ==
    /\ task[j] = "create"
    /\ WriteRow(j, [row EXCEPT ![j] = "queued"])
    /\ mem' = [mem EXCEPT ![j] = "queued"]
    /\ task' = [task EXCEPT ![j] = "start"]
    /\ client' = [client EXCEPT ![j] = IF @ = "sent" THEN "accepted" ELSE @]
    /\ UNCHANGED <<engine, permits, outcome, told, worked, python, panicked, stops>>

\* The client has gone: the handler is dropped at the await of the INSERT, which may have
\* been executed
Cancel(j) ==
    /\ task[j] = "create"
    /\ client[j] = "gone"
    /\ \/ row' = [row EXCEPT ![j] = "queued"]
       \/ UNCHANGED row
    /\ task' = [task EXCEPT ![j] = "end"]
    /\ permits' = permits + 1
    /\ UNCHANGED <<engine, mem, outcome, client, told, worked, python, ghosts, bounds>>

-----------------------------------------------------------------------------
(* The spawned task *)

\* set_running: the row, then memory
Start(j) ==
    /\ task[j] = "start"
    /\ WriteRow(j, [row EXCEPT ![j] = IF @ = "none" THEN @ ELSE "running"])
    /\ mem' = [mem EXCEPT ![j] = IF @ = "none" THEN @ ELSE "running"]
    /\ task' = [task EXCEPT ![j] = "run"]
    /\ UNCHANGED <<engine, permits, outcome, client, told, worked, python, panicked, stops>>

\* pipeline.process
Work(j) ==
    /\ task[j] = "run"
    /\ \E out \in Ended :
          /\ outcome' = [outcome EXCEPT ![j] = out]
          /\ worked' = IF out = "completed" THEN worked \cup {j} ELSE worked
    /\ task' = [task EXCEPT ![j] = "row"]
    /\ UNCHANGED <<engine, permits, tables, client, told, python, ghosts, bounds>>

\* ... panics: the task is gone, with its permit
Panic(j) ==
    /\ task[j] = "run"
    /\ faults < MaxFaults
    /\ faults' = faults + 1
    /\ panicked' = panicked \cup {j}
    /\ task' = [task EXCEPT ![j] = "end"]
    /\ permits' = permits + 1
    /\ UNCHANGED <<engine, tables, outcome, client, told, worked, python, lost, stops>>

\* Mutant: memory is written before the row
SettleRowLate(j) ==
    /\ task[j] = "row"
    /\ mem' = [mem EXCEPT ![j] = IF @ = "none" THEN @ ELSE outcome[j]]
    /\ task' = [task EXCEPT ![j] = "mem"]
    /\ UNCHANGED <<engine, permits, row, outcome, client, told, worked, python, ghosts, bounds>>

\* set_completed or set_failed: the row first
SettleRow(j) ==
    /\ task[j] = "row"
    /\ WriteRow(j, [row EXCEPT ![j] = IF @ = "none" THEN @ ELSE outcome[j]])
    /\ task' = [task EXCEPT ![j] = "mem"]
    /\ UNCHANGED <<engine, permits, mem, outcome, client, told, worked, python, panicked, stops>>

\* Mutant: the permit is not dropped when the pipeline returned an error
SettleMemKeeps(j) ==
    /\ task[j] = "mem"
    /\ mem' = [mem EXCEPT ![j] = IF @ = "none" THEN @ ELSE outcome[j]]
    /\ task' = [task EXCEPT ![j] = "end"]
    /\ permits' = IF outcome[j] = "completed" THEN permits + 1 ELSE permits
    /\ UNCHANGED <<engine, row, outcome, client, told, worked, python, ghosts, bounds>>

\* ... then memory; and the permit is dropped
SettleMem(j) ==
    /\ task[j] = "mem"
    /\ mem' = [mem EXCEPT ![j] = IF @ = "none" THEN @ ELSE outcome[j]]
    /\ task' = [task EXCEPT ![j] = "end"]
    /\ permits' = permits + 1
    /\ UNCHANGED <<engine, row, outcome, client, told, worked, python, ghosts, bounds>>

\* evict_stale_cache: what has been at a terminal status for a minute
Evict(j) ==
    /\ engine \in {"up", "draining"}
    /\ mem[j] \in Ended
    /\ mem' = [mem EXCEPT ![j] = "none"]
    /\ UNCHANGED <<engine, permits, row, task, outcome, client, told, worked, python, ghosts, bounds>>

\* The interval of the eviction passes and there is nothing to evict
Tick ==
    /\ engine = "up"
    /\ \A j \in Jobs : mem[j] \notin Ended
    /\ UNCHANGED vars

-----------------------------------------------------------------------------
(* Shutdown, crash and start of the engine *)

\* The signal: no new request is taken
Shutdown ==
    /\ engine = "up"
    /\ stops < MaxStops
    /\ stops' = stops + 1
    /\ engine' = "draining"
    /\ UNCHANGED <<permits, tables, task, outcome, client, told, worked, python, ghosts, faults>>

\* The open requests are over; fail_all_active in memory.  The tasks go on.
FailMem ==
    /\ engine = "draining"
    /\ \A j \in Jobs : task[j] # "create"
    /\ mem' = [j \in Jobs |-> IF mem[j] \in Active THEN "failed" ELSE mem[j]]
    /\ engine' = "cleanup"
    /\ UNCHANGED <<permits, row, task, outcome, client, told, worked, python, ghosts, bounds>>

\* fail_stale_jobs
FailRows ==
    /\ engine = "cleanup"
    /\ row' = [j \in Jobs |-> IF row[j] \in Active THEN "failed" ELSE row[j]]
    /\ engine' = "closing"
    /\ UNCHANGED <<permits, mem, task, outcome, client, told, worked, python, ghosts, bounds>>

\* The process is gone, at the end or after shutdown_timeout, and everything in it
Gone ==
    /\ engine' = "down"
    /\ mem' = [j \in Jobs |-> "none"]
    /\ task' = [j \in Jobs |-> IF task[j] = "none" THEN "none" ELSE "end"]
    /\ client' = [j \in Jobs |-> IF client[j] = "sent" THEN "gone" ELSE client[j]]
    /\ UNCHANGED <<permits, row, outcome, told, worked, python, ghosts>>

Exit == engine \in {"cleanup", "closing"} /\ Gone /\ UNCHANGED bounds

Crash ==
    /\ engine # "down"
    /\ stops < MaxStops
    /\ stops' = stops + 1
    /\ Gone
    /\ UNCHANGED faults

\* Mutant: the jobs that were queued are left
RestartQueued ==
    /\ engine = "down"
    /\ row' = [j \in Jobs |-> IF row[j] = "running" THEN "failed" ELSE row[j]]
    /\ permits' = MaxConcurrent
    /\ engine' = "up"
    /\ UNCHANGED <<mem, task, outcome, client, told, worked, python, ghosts, bounds>>

\* recover_stale_jobs; the engine does not start without it
Restart ==
    /\ engine = "down"
    /\ row' = [j \in Jobs |-> IF row[j] \in Active THEN "failed" ELSE row[j]]
    /\ permits' = MaxConcurrent
    /\ engine' = "up"
    /\ UNCHANGED <<mem, task, outcome, client, told, worked, python, ghosts, bounds>>

-----------------------------------------------------------------------------
(* The specification *)

Task(j) == Create(j) \/ Start(j) \/ Work(j) \/ SettleRow(j) \/ SettleMem(j)

Next ==
    \/ \E j \in Jobs :
          \/ Submit(j) \/ Timeout(j) \/ Fallback(j) \/ Poll(j)
          \/ Accept(j) \/ Refuse(j) \/ Cancel(j)
          \/ Task(j) \/ Panic(j) \/ Evict(j)
    \/ Tick \/ Shutdown \/ FailMem \/ FailRows \/ Exit \/ Crash \/ Restart

Spec == Init /\ [][Next]_vars

\* The call has a deadline, a pipeline returns, a shutdown ends, and the engine is started
\* again
Fairness ==
    /\ \A j \in Jobs :
          /\ WF_vars(Accept(j) \/ Refuse(j) \/ Timeout(j))
          /\ WF_vars(Fallback(j))
          /\ WF_vars(Task(j))
    /\ WF_vars(FailMem \/ Exit)
    /\ WF_vars(Restart)

FairSpec == Spec /\ Fairness

-----------------------------------------------------------------------------
(* Properties *)

Statuses == {"none"} \cup Active \cup Ended

\* Every variable has its type; a job is in memory only while the engine runs, and its task
\* too.
TypeOK ==
    /\ engine \in {"up", "draining", "cleanup", "closing", "down"}
    /\ permits \in Nat
    /\ mem \in [Jobs -> Statuses]
    /\ row \in [Jobs -> Statuses]
    /\ task \in [Jobs -> {"none", "create", "start", "run", "row", "mem", "end"}]
    /\ outcome \in [Jobs -> {"none"} \cup Ended]
    /\ client \in [Jobs -> {"idle", "sent", "accepted", "refused", "gone"}]
    /\ told \in [Jobs -> {"none"} \cup Ended]
    /\ worked \subseteq Jobs
    /\ python \subseteq Jobs
    /\ lost \subseteq Jobs
    /\ panicked \subseteq Jobs
    /\ \A j \in Jobs : engine = "down" => mem[j] = "none" /\ ~HasPermit(j)
    /\ stops \in Nat /\ faults \in Nat

\* No permit is lost and none is dropped twice, whatever way a job ends (an answer, an error,
\* a panic, a client that disappears, a shutdown): those that are free and those that are held
\* are always MaxConcurrent together, so no more jobs run and the engine never ends up
\* refusing everything.
PermitsBalance ==
    engine # "down" => permits + Cardinality({j \in Jobs : HasPermit(j)}) = MaxConcurrent

\* What a client was told is final: after a shutdown, a crash or the eviction from memory,
\* the engine still gives the same answer, unless it lost a write to the row.
ToldIsFinal ==
    \A j \in Jobs : (engine = "up" /\ told[j] # "none" /\ j \notin lost) => View(j) = told[j]

\* A batch is materialized both by the engine and by Python only when the client stopped
\* waiting for an answer.
TwiceOnlyLate ==
    \A j \in worked \cap python : client[j] = "gone"

\* Nothing is submitted in vain: the batch is materialized by one or the other, or the client
\* is told by the status that it failed, unless the task panicked or a write was lost.
SubmissionSettles ==
    \A j \in Jobs : client[j] = "sent" ~>
        j \in worked \cup python \cup lost \cup panicked \/ View(j) = "failed"

=============================================================================
