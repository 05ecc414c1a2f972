--------------------------- MODULE AuthorityBatch ---------------------------
(***************************************************************************)
(* The batch resolution of labels against authority sources                *)
(* (backend/authority/auto_enqueue.py, batch_worker.py and                 *)
(* batch_resolution.py, and the batch endpoint of routers/authority.py),   *)
(* for one organisation, field and entity type: labels are ingested, the   *)
(* ingest enqueues a job if there is none open, requests enqueue jobs, and *)
(* the worker of each API process runs the oldest pending job, committing  *)
(* the records of one label at a time.                                     *)
(***************************************************************************)
EXTENDS Naturals, FiniteSets

CONSTANTS
    Values,             \* the labels
    Unknown,            \* the labels no authority source has a candidate for
    Workers,            \* run_batch_worker of each API process
    Importers,          \* sessions that ingest
    Inline,             \* requests with sync=true
    Limit,              \* the limit of a job
    None,
    MaxJobs,            \* bound on jobs and requests with sync=true
    MaxRestarts,        \* bound on restarts of API processes
    MaxErrors,          \* bound on exceptions that leave _run_job, and on starts whose
                        \* reset fails
    MaxDiscards         \* bound on labels whose records are rejected or deleted

ASSUME AuthorityAssumption ==
    /\ Limit \in Nat
    /\ MaxJobs \in Nat
    /\ MaxRestarts \in Nat
    /\ MaxErrors \in Nat
    /\ MaxDiscards \in Nat
    /\ None \notin Nat
    /\ \A V \in SUBSET Values : V # None
    /\ Workers \cap Inline = {}

VARIABLES
    present,            \* the labels ingested
    live,               \* how often candidates of a label were stored and are pending or confirmed
    created,            \* the jobs 1..created exist
    job,                \* status of each job
    skip,               \* skip_existing of each job
    ipc,                \* importers: program counter
    \* workers: program counter, job (of a process that is down: the one it had), labels
    \* still to resolve
    wpc, cur, todo,
    batch,              \* requests with sync=true: the labels they resolve, or None
    \* history: jobs another process reset while a worker had them; jobs that were left
    \* behind, by an exception or by a process that died and came up without the reset,
    \* and have not been claimed or reset since; and whether two runs overlapped or one
    \* was told not to skip
    disturbed, orphaned, overlapped,
    restarts, errors, discards, calls

workers == <<wpc, cur, todo>>
table   == <<created, job, skip>>
ghosts  == <<disturbed, orphaned, overlapped>>
bounds  == <<restarts, errors, discards, calls>>
vars    == <<present, live, table, ipc, workers, batch, ghosts, bounds>>

JobIds  == 1..MaxJobs
Open    == {"pending", "processing"}
Ended   == {"done", "failed"}

Holds(w, j) == wpc[w] \in {"select", "run", "finish"} /\ cur[w] = j

Init ==
    /\ present = {}
    /\ live = [v \in Values |-> 0]
    /\ created = 0
    /\ job = [j \in JobIds |-> "none"]
    /\ skip = [j \in JobIds |-> TRUE]
    /\ ipc = [i \in Importers |-> "idle"]
    /\ wpc = [w \in Workers |-> "idle"]
    /\ cur = [w \in Workers |-> None]
    /\ todo = [w \in Workers |-> {}]
    /\ batch = [q \in Inline |-> None]
    /\ disturbed = {}
    /\ orphaned = {}
    /\ overlapped = FALSE
    /\ restarts = 0
    /\ errors = 0
    /\ discards = 0
    /\ calls = 0

-----------------------------------------------------------------------------
(* Ingest and requests *)

\* Mutant: the status is left to a default the table does not have
NewJobUnset(existing) ==
    /\ created + calls < MaxJobs
    /\ created' = created + 1
    /\ skip' = [skip EXCEPT ![created + 1] = existing]
    /\ UNCHANGED job

\* A new job, in pending
NewJob(existing) ==
    /\ created + calls < MaxJobs
    /\ created' = created + 1
    /\ job' = [job EXCEPT ![created + 1] = "pending"]
    /\ skip' = [skip EXCEPT ![created + 1] = existing]

\* An import commits a label
Ingest(i) ==
    /\ ipc[i] = "idle"
    /\ \E v \in Values \ present : present' = present \cup {v}
    /\ ipc' = [ipc EXCEPT ![i] = "check"]
    /\ UNCHANGED <<live, table, workers, batch, ghosts, bounds>>

\* enqueue_entity_authority_jobs: _has_open_job and _has_unresolved_values
Check(i) ==
    /\ ipc[i] = "check"
    /\ ipc' = [ipc EXCEPT ![i] =
                 IF /\ \A j \in 1..created : job[j] \notin Open
                    /\ \E v \in present : live[v] = 0
                 THEN "insert" ELSE "idle"]
    /\ UNCHANGED <<present, live, table, workers, batch, ghosts, bounds>>

\* ... and the INSERT of the job, with skip_existing
Enqueue(i) ==
    /\ ipc[i] = "insert"
    /\ NewJob(TRUE)
    /\ ipc' = [ipc EXCEPT ![i] = "idle"]
    /\ UNCHANGED <<present, live, workers, batch, ghosts, bounds>>

\* resolve_authority_batch enqueues without looking
Request ==
    /\ \E existing \in BOOLEAN : NewJob(existing)
    /\ UNCHANGED <<present, live, ipc, workers, batch, ghosts, bounds>>

\* The records of a label are rejected or deleted
Discard(v) ==
    /\ live[v] > 0
    /\ discards < MaxDiscards
    /\ discards' = discards + 1
    /\ live' = [live EXCEPT ![v] = 0]
    /\ UNCHANGED <<present, table, ipc, workers, batch, ghosts, restarts, errors, calls>>

-----------------------------------------------------------------------------
(* run_batch_worker *)

Leave(w, to) ==
    /\ wpc' = [wpc EXCEPT ![w] = to]
    /\ cur' = [cur EXCEPT ![w] = None]
    /\ todo' = [todo EXCEPT ![w] = {}]

\* _claim_one: the oldest pending job
ClaimSelect(w) ==
    /\ wpc[w] = "idle"
    /\ \E j \in 1..created :
          /\ job[j] = "pending"
          /\ \A k \in 1..created : job[k] = "pending" => j <= k
          /\ cur' = [cur EXCEPT ![w] = j]
    /\ wpc' = [wpc EXCEPT ![w] = "claim"]
    /\ UNCHANGED <<present, live, table, ipc, todo, batch, ghosts, bounds>>

\* No job is pending: the worker sleeps
Rest(w) ==
    /\ wpc[w] = "idle"
    /\ \A j \in 1..created : job[j] # "pending"
    /\ UNCHANGED vars

\* Mutant: the UPDATE has no condition on the status
ClaimUpdateBlind(w) ==
    /\ wpc[w] = "claim"
    /\ job' = [job EXCEPT ![cur[w]] = "processing"]
    /\ wpc' = [wpc EXCEPT ![w] = "select"]
    /\ UNCHANGED <<present, live, created, skip, ipc, cur, todo, batch, ghosts, bounds>>

\* _claim_one: the conditional UPDATE
ClaimUpdate(w) ==
    /\ wpc[w] = "claim"
    /\ IF job[cur[w]] = "pending"
       THEN /\ job' = [job EXCEPT ![cur[w]] = "processing"]
            /\ orphaned' = orphaned \ {cur[w]}
            /\ wpc' = [wpc EXCEPT ![w] = "select"]
            /\ UNCHANGED <<cur, todo>>
       ELSE Leave(w, "idle") /\ UNCHANGED <<job, orphaned>>
    /\ UNCHANGED <<present, live, created, skip, ipc, batch, disturbed, overlapped, bounds>>

\* Worker w is between the selection of its labels and the end of its run
Running(w) == wpc[w] \in {"run", "finish"}

\* A worker or a request other than x is resolving
Others(x) ==
    \/ \E u \in Workers \ {x} : Running(u)
    \/ \E q \in Inline \ {x} : batch[q] # None

\* Mutant: what has records is not left out
SelectionsAll(existing) ==
    {V \in SUBSET present : /\ Cardinality(V) <= Limit
                            /\ Cardinality(V) < Limit => V = present}

\* The labels execute_batch_resolution may take: those that have no live record, or all,
\* up to the limit
Selections(existing) ==
    LET wanted == IF existing THEN {v \in present : live[v] = 0} ELSE present
    IN  {V \in SUBSET wanted : /\ Cardinality(V) <= Limit
                               /\ Cardinality(V) < Limit => V = wanted}

\* execute_batch_resolution in a worker
SelectValues(w) ==
    /\ wpc[w] = "select"
    /\ wpc' = [wpc EXCEPT ![w] = "run"]
    /\ \E V \in Selections(skip[cur[w]]) : todo' = [todo EXCEPT ![w] = V]
    /\ overlapped' = (overlapped \/ ~skip[cur[w]] \/ Others(w))
    /\ UNCHANGED <<present, live, table, ipc, cur, batch, disturbed, orphaned, bounds>>

\* One label: its candidates are stored, and committed by the progress callback
Resolve(w) ==
    /\ wpc[w] = "run"
    /\ \E v \in todo[w] :
          /\ live' = [live EXCEPT ![v] = IF v \in Unknown THEN @ ELSE @ + 1]
          /\ todo' = [todo EXCEPT ![w] = @ \ {v}]
    /\ UNCHANGED <<present, table, ipc, wpc, cur, batch, ghosts, bounds>>

\* The last commit of the resolution
EndRun(w) ==
    /\ wpc[w] = "run"
    /\ todo[w] = {}
    /\ wpc' = [wpc EXCEPT ![w] = "finish"]
    /\ UNCHANGED <<present, live, table, ipc, cur, todo, batch, ghosts, bounds>>

\* Mutant: the run ends with the commit of its last label
FinishUnwritten(w) ==
    /\ wpc[w] = "finish"
    /\ Leave(w, "idle")
    /\ UNCHANGED <<present, live, table, ipc, batch, ghosts, bounds>>

\* The job is done, whatever its status has become
Finish(w) ==
    /\ wpc[w] = "finish"
    /\ job' = [job EXCEPT ![cur[w]] = "done"]
    /\ Leave(w, "idle")
    /\ UNCHANGED <<present, live, created, skip, ipc, batch, ghosts, bounds>>

\* Mutant: the handler of the exception does not write the status
FailUnwritten(w) ==
    /\ wpc[w] \in {"select", "run", "finish"}
    /\ Leave(w, "idle")
    /\ UNCHANGED <<present, live, table, ipc, batch, ghosts, bounds>>

\* A source raises, or the call takes too long: what was committed stays, the job failed
Fail(w) ==
    /\ wpc[w] \in {"select", "run", "finish"}
    /\ job' = [job EXCEPT ![cur[w]] = "failed"]
    /\ Leave(w, "idle")
    /\ UNCHANGED <<present, live, created, skip, ipc, batch, ghosts, bounds>>

\* The failure cannot be written either: the loop logs it and goes on
Escape(w) ==
    /\ wpc[w] \in {"select", "run", "finish"}
    /\ errors < MaxErrors
    /\ errors' = errors + 1
    /\ orphaned' = orphaned \cup {cur[w]}
    /\ Leave(w, "idle")
    /\ UNCHANGED <<present, live, table, ipc, batch, disturbed, overlapped, restarts, discards, calls>>

-----------------------------------------------------------------------------
(* resolve_authority_batch with sync=true *)

\* execute_batch_resolution in the request, without a job
InlineSelect(q) ==
    /\ batch[q] = None
    /\ created + calls < MaxJobs
    /\ calls' = calls + 1
    /\ \E existing \in BOOLEAN :
          /\ \E V \in Selections(existing) : batch' = [batch EXCEPT ![q] = V]
          /\ overlapped' = (overlapped \/ ~existing \/ Others(q))
    /\ UNCHANGED <<present, live, table, ipc, workers, disturbed, orphaned, restarts, errors, discards>>

\* One commit stores the candidates of all labels; a source that raises undoes them all
InlineCommit(q) ==
    /\ batch[q] # None
    /\ \/ live' = [v \in Values |-> IF v \in batch[q] \ Unknown THEN live[v] + 1 ELSE live[v]]
       \/ UNCHANGED live
    /\ batch' = [batch EXCEPT ![q] = None]
    /\ UNCHANGED <<present, table, ipc, workers, ghosts, bounds>>

-----------------------------------------------------------------------------
(* Restarts of an API process *)

\* The process dies; the job its worker had stays in processing
Kill(w) ==
    /\ wpc[w] # "down"
    /\ restarts < MaxRestarts
    /\ restarts' = restarts + 1
    /\ wpc' = [wpc EXCEPT ![w] = "down"]
    /\ cur' = [cur EXCEPT ![w] = IF Holds(w, @) THEN @ ELSE None]
    /\ todo' = [todo EXCEPT ![w] = {}]
    /\ UNCHANGED <<present, live, table, ipc, batch, ghosts, errors, discards, calls>>

\* reset_stale_jobs: all that are processing, whoever runs them
Startup(w) ==
    LET reset == {j \in 1..created : job[j] = "processing"}
    IN  /\ wpc[w] = "down"
        /\ job' = [j \in JobIds |-> IF j \in reset THEN "pending" ELSE job[j]]
        /\ disturbed' = disturbed \cup {j \in reset : \E u \in Workers \ {w} : Holds(u, j)}
        /\ orphaned' = {}
        /\ Leave(w, "idle")
        /\ UNCHANGED <<present, live, created, skip, ipc, batch, overlapped, bounds>>

\* reset_stale_jobs raises, which is caught, or the bootstrap fails before it, which is
\* caught too: the worker is started all the same
StartupFails(w) ==
    /\ wpc[w] = "down"
    /\ errors < MaxErrors
    /\ errors' = errors + 1
    /\ orphaned' = orphaned \cup ({cur[w]} \ {None})
    /\ Leave(w, "idle")
    /\ UNCHANGED <<present, live, table, ipc, batch, disturbed, overlapped, restarts, discards, calls>>

-----------------------------------------------------------------------------
(* The specification *)

Run(w) == ClaimSelect(w) \/ ClaimUpdate(w) \/ SelectValues(w) \/ Resolve(w) \/ EndRun(w) \/ Finish(w)

Next ==
    \/ \E i \in Importers : Ingest(i) \/ Check(i) \/ Enqueue(i)
    \/ Request
    \/ \E v \in Values : Discard(v)
    \/ \E q \in Inline : InlineSelect(q) \/ InlineCommit(q)
    \/ \E w \in Workers : Run(w) \/ Rest(w) \/ Fail(w) \/ Escape(w)
    \/ \E w \in Workers : Kill(w) \/ Startup(w) \/ StartupFails(w)

Spec == Init /\ [][Next]_vars

\* The worker polls for ever and catches every exception, and a process that died is
\* started again, with or without the reset
Fairness == \A w \in Workers : WF_vars(Run(w)) /\ WF_vars(Startup(w) \/ StartupFails(w))

FairSpec == Spec /\ Fairness

-----------------------------------------------------------------------------
(* Properties *)

\* Every variable has its type, and the jobs that exist are the ones that have a status.
TypeOK ==
    /\ present \subseteq Values
    /\ live \in [Values -> Nat]
    /\ created \in 0..MaxJobs
    /\ job \in [JobIds -> {"none"} \cup Open \cup Ended]
    /\ \A j \in JobIds : job[j] = "none" <=> j > created
    /\ skip \in [JobIds -> BOOLEAN]
    /\ ipc \in [Importers -> {"idle", "check", "insert"}]
    /\ wpc \in [Workers -> {"idle", "claim", "select", "run", "finish", "down"}]
    /\ cur \in [Workers -> JobIds \cup {None}]
    /\ \A w \in Workers : wpc[w] \notin {"idle", "down"} => cur[w] \in 1..created
    /\ todo \in [Workers -> SUBSET Values]
    /\ batch \in [Inline -> (SUBSET Values) \cup {None}]
    /\ disturbed \subseteq JobIds
    /\ orphaned \subseteq JobIds
    /\ overlapped \in BOOLEAN
    /\ restarts \in Nat /\ errors \in Nat /\ discards \in Nat /\ calls \in Nat

\* Two workers run the same job only after the startup of another process took it back
\* from the first one.
ClaimExclusive ==
    \A u, w \in Workers : \A j \in JobIds :
        (Holds(u, j) /\ Holds(w, j) /\ j \notin disturbed) => u = w

\* No label is resolved twice: although jobs are enqueued twice by importers that check at
\* the same time, fail half way, or are run again after a crash, a label has the candidates
\* of one resolution, by a worker or in a request, unless two runs overlapped or a request
\* asked for all labels.
ResolvedOnce ==
    overlapped \/ \A v \in Values : live[v] <= 1

\* No job is left in processing: while it is, a worker has it, or the process whose worker
\* had it is down and about to start, or it was left behind by an exception or by a process
\* that came up without the reset, and nobody has claimed or reset it since.
ProcessingHasWorker ==
    \A j \in JobIds : job[j] = "processing" =>
        \/ \E w \in Workers : Holds(w, j) \/ (wpc[w] = "down" /\ cur[w] = j)
        \/ j \in orphaned

\* A pending job ends, although processes are restarted, or it is in processing and was left
\* behind: by an exception that left _run_job, or by a process that died with it and whose
\* reset failed when it came up again.
PendingEnds ==
    \A j \in JobIds :
        job[j] = "pending" ~> job[j] \in Ended \/ (job[j] = "processing" /\ j \in orphaned)

=============================================================================
